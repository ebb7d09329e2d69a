\* One session per row at a time, every operation but PATCH.
CONSTANTS
  u1 = u1
  u2 = u2
  Worker = worker
  Agent = agent
  NoKey = NoKey
  NoIp = NoIp
  Users = {u1, u2}
  Keys = {k1, k2, k3}
  Clients = {c1}
  Peers = {1, 2}
  Hosts = {1, 2, 3}
  GatewayIp = 1
  Owner <- MCOwnerTwo
  Ops <- MCNoPatch
  Overlap = FALSE
  MaxLate = 0
  MaxCrashes = 1
  MaxReboots = 0
SPECIFICATION Spec
INVARIANTS TypeOK ProvisionedIsRouted KeyPairMatches
PROPERTIES RevocationIsKept
SYMMETRY KeySymmetry
