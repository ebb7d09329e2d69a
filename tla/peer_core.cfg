\* Two registrations at once, on rows that run out of addresses; one session per row
\* at a time; no operation takes a row back to pending.
CONSTANTS
  u1 = u1
  u2 = u2
  Worker = worker
  Agent = agent
  NoKey = NoKey
  NoIp = NoIp
  Users = {u1, u2}
  Keys = {k1, k2, k3}
  Clients = {c1, c2}
  Peers = {1, 2}
  Hosts = {1, 2, 3}
  GatewayIp = 1
  Owner <- MCOwnerTwo
  Ops <- MCCore
  Overlap = FALSE
  MaxLate = 0
  MaxCrashes = 0
  MaxReboots = 1
SPECIFICATION Spec
INVARIANTS RemovedIsUnrouted UniqueIdentity
SYMMETRY KeySymmetry
