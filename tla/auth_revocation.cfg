\* Everything but writers of one token_version overlaps, requests die half way.
CONSTANTS
  Users = {u1}
  Sids = {x1, x2}
  Jtis = {j1, j2}
  NoJti = NoJti
  NoSid = NoSid
  NoUser = NoUser
  Clients = {c1, c2}
  Ops <- AllOps
  Overlap = {"refresh"}
  MayCrash = TRUE
  MaxCuts = 2
SPECIFICATION Spec
INVARIANTS TypeOK CutIsComplete
PROPERTY RevokedIsFinal
SYMMETRY Symmetry
CHECK_DEADLOCK FALSE
