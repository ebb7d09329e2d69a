\* Refreshes of one session overlap, with the same token and with different ones.
CONSTANTS
  Users = {u1}
  Sids = {x1, x2}
  Jtis = {j1, j2, j3}
  NoJti = NoJti
  NoSid = NoSid
  NoUser = NoUser
  Clients = {c1, c2}
  Ops <- MCRotation
  Overlap = {"refresh"}
  MayCrash = FALSE
  MaxCuts = 0
SPECIFICATION FairSpec
PROPERTIES SpentTokenIsRefused ReuseRevokesSession
CHECK_DEADLOCK FALSE
