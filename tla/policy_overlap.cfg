SPECIFICATION Spec
CONSTANTS
  Users <- MCUsers
  Groups = {7}
  Policies = {"p", "q"}
  Resources = {"r", "s"}
  Address = {"a", "b"}
  Nets <- MCNets
  NoId = 0
  Clients = {"c", "d"}
  PolicyPayloads <- MCPolicyPayloads
  Databases <- MCDatabases
  Handlers = {"delete_resource", "update_resource"}
  Pool <- MCPool
  MayCrash = FALSE
  MaxOpen = 2
  MaxOps = 2
CHECK_DEADLOCK FALSE
INVARIANT InactiveIsUnreachable
