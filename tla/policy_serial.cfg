SPECIFICATION Spec
CONSTANTS
  Users <- MCUsers
  Groups = {7}
  Policies = {"p", "q"}
  Resources = {"r", "s"}
  Address = {"a", "b"}
  Nets <- MCNets
  NoId = 0
  Clients = {"c"}
  PolicyPayloads <- MCPolicyPayloads
  Databases <- MCDatabases
  Handlers <- AllHandlers
  Pool <- MCPool
  MayCrash = TRUE
  MaxOpen = 1
  MaxOps = 3
CHECK_DEADLOCK FALSE
INVARIANTS TypeOK InSync
PROPERTIES KeepsContract EntitledGetsPeer
