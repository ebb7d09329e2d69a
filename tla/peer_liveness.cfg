\* Overlapping sessions and a crash; the worker keeps running.
CONSTANTS
  u1 = u1
  u2 = u2
  Worker = worker
  Agent = agent
  NoKey = NoKey
  NoIp = NoIp
  Users = {u1, u2}
  Keys = {k1, k2}
  Clients = {c1}
  Peers = {1, 2}
  Hosts = {1, 2, 3}
  GatewayIp = 1
  Owner <- MCOwnerTwo
  Ops <- MCLiveness
  Overlap = TRUE
  MaxLate = 0
  MaxCrashes = 1
  MaxReboots = 0
SPECIFICATION FairSpec
PROPERTIES PendingIsHandled RevokeIsHandled
