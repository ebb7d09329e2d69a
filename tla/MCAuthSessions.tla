---------------------------- MODULE MCAuthSessions ----------------------------
(* Instances of AuthSessions for TLC.                                          *)
EXTENDS AuthSessions, TLC

MCRotation == {"login", "refresh", "logout", "use"}

Symmetry == Permutations(Clients) \cup Permutations(Sids) \cup Permutations(Jtis)
=============================================================================
