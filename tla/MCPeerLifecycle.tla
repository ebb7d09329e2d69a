--------------------------- MODULE MCPeerLifecycle ---------------------------
(* Instances of PeerLifecycle for TLC.                                       *)
EXTENDS PeerLifecycle, TLC

CONSTANTS u1, u2

\* Row 1 belongs to u1, every other row to u2.
MCOwnerTwo == [p \in Peers |-> IF p = 1 THEN u1 ELSE u2]

MCNoPatch == AllOps \ {"patch", "agent"}
MCOverlap == {"register", "provision", "remove", "patch", "worker"}
MCLiveness == {"register", "remove", "provision", "worker"}
MCCore == {"create", "enroll", "provision", "remove", "worker", "agent", "delete_user"}
MCRouting == {"register", "recalculate", "remove", "worker"}

KeySymmetry == Permutations(Keys) \cup Permutations(Clients)
=============================================================================
