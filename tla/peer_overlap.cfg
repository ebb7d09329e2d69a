\* Sessions overlap freely and one gateway call may arrive after its caller gave up.
CONSTANTS
  u1 = u1
  u2 = u2
  Worker = worker
  Agent = agent
  NoKey = NoKey
  NoIp = NoIp
  Users = {u1, u2}
  Keys = {k1, k2}
  Clients = {c1}
  Peers = {1, 2}
  Hosts = {1, 2, 3}
  GatewayIp = 1
  Owner <- MCOwnerTwo
  Ops <- MCOverlap
  Overlap = TRUE
  MaxLate = 1
  MaxCrashes = 0
  MaxReboots = 0
SPECIFICATION Spec
INVARIANT AddressBelongsToHolder
PROPERTY OnlyStaleSessionsRevive
SYMMETRY KeySymmetry
