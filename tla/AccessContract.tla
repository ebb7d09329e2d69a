---------------------------- MODULE AccessContract ----------------------------
(***************************************************************************)
(* What the program promises about the routes of a peer when policies      *)
(* change, whatever tables the policies are kept in: a user's grant may    *)
(* change at any moment, the user is then behind until a request refreshes *)
(* the peer, and a user who is not behind has exactly the routes granted.  *)
(* The changes after which the program refreshes nobody are owed: nothing  *)
(* is promised about those users until the next refresh.                   *)
(***************************************************************************)
CONSTANTS Users, Address

VARIABLES
  grant,   \* what the policies give each user
  live,    \* users with a peer in service
  view,    \* the routes stored for it
  behind,  \* users some request has yet to refresh
  owed     \* users nobody will refresh for the change made

vars == <<grant, live, view, behind, owed>>

InSync == \A u \in live : u \notin behind \cup owed => view[u] = grant[u]

TypeOK ==
  /\ grant \in [Users -> SUBSET Address]
  /\ view \in [Users -> SUBSET Address]
  /\ live \subseteq Users /\ behind \subseteq Users /\ owed \subseteq Users

Init == TypeOK /\ InSync

\* A committed change: whoever it touches and has a peer is behind or owed.
Change ==
  /\ grant' \in [Users -> SUBSET Address]
  /\ behind' \in SUBSET Users /\ behind \subseteq behind'
  /\ owed' \in SUBSET Users /\ owed \subseteq owed'
  /\ \A u \in live : grant'[u] # grant[u] => u \in behind' \cup owed'
  /\ UNCHANGED <<live, view>>

\* The peer of u, an old one or a new one, gets what is granted now.
Refresh(u) ==
  /\ view' = [view EXCEPT ![u] = grant[u]]
  /\ live' = live \cup {u}
  /\ behind' = behind \ {u}
  /\ owed' = owed \ {u}
  /\ UNCHANGED grant

\* There is no peer to refresh.
Skip(u) ==
  /\ u \notin live
  /\ behind' = behind \ {u}
  /\ UNCHANGED <<grant, live, view, owed>>

\* The request fails before it has refreshed everybody.
Abandon ==
  \E S \in SUBSET behind :
    /\ behind' = behind \ S
    /\ owed' = owed \cup S
    /\ UNCHANGED <<grant, live, view>>

\* The peer of u is removed.
Drop(u) ==
  /\ live' = live \ {u}
  /\ UNCHANGED <<grant, view, behind, owed>>

Next ==
  \/ Change
  \/ \E u \in Users : Refresh(u) \/ Skip(u) \/ Drop(u)
  \/ Abandon

\* Nobody stays behind for ever.
Served == \A u \in Users : u \in behind ~> u \notin behind

Spec == Init /\ [][Next]_vars /\ Served

=============================================================================
