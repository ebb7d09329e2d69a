\* A provisioned row that was queued again is removed without a gateway call.
CONSTANTS
  u1 = u1
  u2 = u2
  Worker = worker
  Agent = agent
  NoKey = NoKey
  NoIp = NoIp
  Users = {u1, u2}
  Keys = {k1}
  Clients = {c1}
  Peers = {1}
  Hosts = {1, 2}
  GatewayIp = 1
  Owner <- MCOwnerTwo
  Ops <- MCRouting
  Overlap = FALSE
  MaxLate = 0
  MaxCrashes = 0
  MaxReboots = 0
SPECIFICATION Spec
INVARIANT RemovedIsUnrouted
