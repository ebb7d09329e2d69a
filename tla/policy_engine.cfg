SPECIFICATION Spec
CONSTANTS
  Width = 3
  Me <- MCMe
  MyGroups <- MCMyGroups
  NoId <- MCNoId
  PolicyTables <- MCPolicyTables
  ResourceTables <- MCResourceTables
  VpnIp <- MCVpnIp
CHECK_DEADLOCK FALSE
INVARIANTS TypeOK RoutesAreExact DecisionsMatchRoutes SimulationHidesNothing AggregateIsExact
