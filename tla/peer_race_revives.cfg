\* A recalculation and a removal of the same row overlap.
CONSTANTS
  u1 = u1
  u2 = u2
  Worker = worker
  Agent = agent
  NoKey = NoKey
  NoIp = NoIp
  Users = {u1, u2}
  Keys = {k1}
  Clients = {c1, c2}
  Peers = {1}
  Hosts = {1, 2}
  GatewayIp = 1
  Owner <- MCOwnerTwo
  Ops <- MCRouting
  Overlap = TRUE
  MaxLate = 0
  MaxCrashes = 0
  MaxReboots = 0
SPECIFICATION Spec
PROPERTY RemovedIsNotPendingAgain
