SPECIFICATION Spec
CONSTANTS
  Users <- MCUsers
  Groups = {7}
  Policies = {"p", "q"}
  Resources = {"r", "s"}
  Address = {"a", "b"}
  Nets <- MCNets
  NoId = 0
  Clients = {"c"}
  PolicyPayloads <- MCPolicyPayloads
  Databases <- MCDatabases
  Handlers = {"create_policy", "delete_group"}
  Pool <- MCPool
  MayCrash = FALSE
  MaxOpen = 1
  MaxOps = 2
CHECK_DEADLOCK FALSE
INVARIANT PoliciesHaveOneSubject
