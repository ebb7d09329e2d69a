------------------------ MODULE PolicyRefinementProofs ------------------------
(***************************************************************************)
(* While requests do not overlap every step of PolicySync is one of        *)
(* AccessContract or changes nothing the contract can see; therefore       *)
(* InSync holds, for any users, groups, policies, resources and requests.  *)
(***************************************************************************)
EXTENDS PolicySyncProofs

\* One request at a time.
Serial == MaxOpen = 1 /\ IsFiniteSet(Clients)

\* At most one request is open.
OneOpen ==
  \A c, d \in Clients : c # d => req[c] = NoRequest \/ req[d] = NoRequest

AllGood == \A c \in Clients : Good(req[c])

\* The foreign keys of policies and peers hold, and a live peer has an address.
Keys ==
  /\ \A p \in Policies :
       policy[p].state \in Stored =>
         /\ policy[p].user # NoId => account[policy[p].user] = "on"
         /\ policy[p].group # NoId => group[policy[p].group] \in Stored
  /\ \A u \in live : \E a \in Pool : holder[a] = u
  /\ \A a \in Pool : holder[a] # NoId => account[holder[a]] = "on"

SerialInv == Typed /\ OneOpen /\ AllGood /\ Keys /\ InSync

(***************************************************************************)
(* Who is behind.                                                          *)
(***************************************************************************)

\* The idle request is good and owes nothing, now and after a step.
LEMMA IdleIsGood ==
  ASSUME NEW r, r = NoRequest
  PROVE  Good(r) /\ Good(r)' /\ Due(r) = {} /\ Due(r)' = {}
<1>1. r.pc = "idle" /\ r.kind = "peer"
  BY DEF NoRequest
<1> QED
  BY <1>1 DEF Good, Due

\* When no request is open nobody is behind.
LEMMA IdleBehind ==
  ASSUME \A c \in Clients : req[c] = NoRequest
  PROVE  Behind = {}
<1>1. \A c \in Clients : Due(req[c]) = {}
  BY IdleIsGood
<1> QED
  BY <1>1 DEF Behind

\* While requests do not overlap, a request starts when no other is open.
LEMMA StartsAlone ==
  ASSUME Serial, SerialInv, NEW h, MayStart(h)
  PROVE  (\A c \in Clients : req[c] = NoRequest) /\ Behind = {}
<1>1. IsFiniteSet(Open)
  BY FS_Subset DEF Serial, Open
<1>2. Cardinality(Open) \in Nat /\ Cardinality(Open) < 1
  BY <1>1, FS_CardinalityType DEF Serial, MayStart
<1>3. Cardinality(Open) = 0
  BY <1>2
<1>4. Open = {}
  BY <1>1, <1>3, FS_EmptySet
<1>5. \A c \in Clients : req[c] = NoRequest
  BY <1>4 DEF Open, SerialInv, AllGood, Good
<1> QED
  BY <1>5, IdleBehind

\* What a step of the only open request does to the others.
LEMMA OwnStep ==
  ASSUME SerialInv, NEW c \in Clients, req[c].pc # "idle",
         NEW q \in Request, req' = [req EXCEPT ![c] = q], Good(q)'
  PROVE  OneOpen' /\ AllGood' /\ Behind = Due(req[c]) /\ Behind' = Due(q)'
<1>1. \A d \in Clients \ {c} : req[d] = NoRequest /\ req'[d] = NoRequest
  <2>1. NoRequest.pc = "idle"
    BY DEF NoRequest
  <2> QED
    BY <2>1 DEF SerialInv, OneOpen, Typed, Shape
<1>2. req'[c] = q
  BY DEF SerialInv, Typed, Shape
<1>3. \A d \in Clients \ {c} : Due(req[d]) = {} /\ Due(req[d])' = {} /\ Good(req[d])'
  BY <1>1, IdleIsGood
<1>4. Good(req[c])' /\ Due(req[c])' = Due(q)'
  BY <1>2
<1>5. OneOpen'
  BY <1>1 DEF OneOpen
<1>6. AllGood'
  BY <1>3, <1>4 DEF AllGood
<1>7. Behind = Due(req[c])
  BY <1>3 DEF Behind
<1>8. Behind' = Due(req[c])'
  BY <1>3 DEF Behind
<1> QED
  BY <1>4, <1>5, <1>6, <1>7, <1>8

\* A good request stays good while the tables and the peers stay as they are.
LEMMA GoodSame ==
  ASSUME NEW r, Good(r), UNCHANGED <<member, policy, resource, live, allowed>>
  PROVE  Good(r)'
BY DEF Good, Covers, Affected, GroupsOf, Entitled

\* Whom a request has before it stays the same too.
LEMMA DueSame ==
  ASSUME NEW r, UNCHANGED <<member, policy>>
  PROVE  Due(r)' = Due(r)
BY DEF Due, AffectedNow, AffectedByResource, Affected

(***************************************************************************)
(* The steps that are no change.                                           *)
(***************************************************************************)

\* Entitled and Behind stay within their types.
LEMMA EntitledType ==
  ASSUME TypeOK, NEW u
  PROVE  Entitled(u) \in SUBSET Address
BY RoutesType DEF TypeOK, Entitled

\* The same after a step.
LEMMA EntitledTypeNext ==
  ASSUME TypeOK', NEW u
  PROVE  Entitled(u)' \in SUBSET Address
BY RoutesType DEF TypeOK, Entitled

\* The users behind are users.
LEMMA BehindType ==
  ASSUME Typed
  PROVE  Behind \in SUBSET Users
BY HeldRequest, DueType DEF Behind

\* A step that leaves the tables, the peers, Behind and owed is a stutter of the
\* contract.
LEMMA Stutters ==
  ASSUME UNCHANGED <<member, policy, resource, live, allowed, owed>>, Behind' = Behind
  PROVE  UNCHANGED Contract!vars
BY DEF Contract!vars, Entitled, GroupsOf

\* The keys stay when the tables and the peers do.
LEMMA KeysSame ==
  ASSUME Keys, UNCHANGED <<account, group, policy, live, holder>>
  PROVE  Keys'
BY DEF Keys

\* What remains of SerialInv once a step has kept the types.
Kept == OneOpen' /\ AllGood' /\ Keys'

Refines == [Contract!Next]_Contract!vars

\* Opening a request.
LEMMA OpensRefines ==
  ASSUME Serial, SerialInv, NEW c \in Clients, Opens(c)
  PROVE  Kept /\ Refines
<1>1. PICK h \in Handlers, r \in Request :
        RequestOk(r) /\ Good(r) /\ Due(r) = {} /\ r.pc # "idle" /\ Start(c, h, r)
  BY DEF Opens
<1>2. (\A d \in Clients : req[d] = NoRequest) /\ Behind = {}
  BY <1>1, StartsAlone DEF Start
<1>3. /\ req' = [req EXCEPT ![c] = r]
      /\ UNCHANGED <<account, group, member, policy, resource, live, allowed, holder, owed>>
  BY <1>1 DEF Start
<1>4. req'[c] = r /\ \A d \in Clients \ {c} : req'[d] = NoRequest
  BY <1>2, <1>3 DEF SerialInv, Typed, Shape
<1>5. Good(r)' /\ Due(r)' = {}
  BY <1>1, <1>3, GoodSame, DueSame
<1>6. \A d \in Clients : Good(req[d])' /\ Due(req[d])' = {}
  BY <1>4, <1>5, IdleIsGood
<1>7. OneOpen' /\ AllGood'
  BY <1>4, <1>6 DEF OneOpen, AllGood
<1>8. Behind' = {}
  BY <1>6 DEF Behind
<1>9. Keys'
  BY <1>3, KeysSame DEF SerialInv
<1>10. UNCHANGED Contract!vars
  BY <1>2, <1>3, <1>8, Stutters
<1> QED
  BY <1>7, <1>9, <1>10 DEF Kept, Refines

\* Giving a request up.
LEMMA FailRefines ==
  ASSUME SerialInv, NEW c \in Clients, req[c].pc # "idle", Fail(c)
  PROVE  Kept /\ Refines
<1>1. PICK q \in Request : q = NoRequest
  BY IdleRequest
<1>2. Good(q)' /\ Due(q)' = {}
  BY <1>1, IdleIsGood
<1>3. req' = [req EXCEPT ![c] = q]
  BY <1>1 DEF Fail
<1>4. OneOpen' /\ AllGood' /\ Behind = Due(req[c]) /\ Behind' = {}
  BY <1>2, <1>3, OwnStep
<1>5. /\ UNCHANGED <<account, group, member, policy, resource, live, allowed, holder>>
      /\ owed' = owed \cup Due(req[c])
  BY DEF Fail
<1>6. Keys'
  BY <1>5, KeysSame DEF SerialInv
<1>7. [u \in Users |-> Entitled(u)]' = [u \in Users |-> Entitled(u)]
  BY <1>5 DEF Entitled, GroupsOf
<1>8. /\ Behind \in SUBSET Behind /\ Behind' = Behind \ Behind
      /\ owed' = owed \cup Behind
  BY <1>4, <1>5
<1>9. Contract!Abandon
  BY <1>5, <1>7, <1>8 DEF Contract!Abandon
<1> QED
  BY <1>4, <1>6, <1>9 DEF Kept, Refines, Contract!Next

\* A step of a request that leaves the tables and the peers, and whom the
\* request has before it.
LEMMA QuietRefines ==
  ASSUME SerialInv, NEW c \in Clients, req[c].pc # "idle",
         NEW q \in Request, req' = [req EXCEPT ![c] = q],
         UNCHANGED <<account, group, member, policy, resource, live, allowed, holder, owed>>,
         Good(q), Due(q) = Due(req[c])
  PROVE  Kept /\ Refines
<1>1. Good(q)' /\ Due(q)' = Due(q)
  BY GoodSame, DueSame
<1>2. OneOpen' /\ AllGood' /\ Behind = Due(req[c]) /\ Behind' = Due(q)'
  BY <1>1, OwnStep
<1>3. Keys'
  BY KeysSame DEF SerialInv
<1>4. UNCHANGED Contract!vars
  BY <1>1, <1>2, Stutters
<1> QED
  BY <1>2, <1>3, <1>4 DEF Kept, Refines

\* The end of a request.
LEMMA FinishRefines ==
  ASSUME SerialInv, NEW c \in Clients, Finish(c)
  PROVE  Kept /\ Refines
<1>1. PICK q \in Request : q = NoRequest
  BY IdleRequest
<1>2. Good(q) /\ Due(q) = {}
  BY <1>1, IdleIsGood
<1>3. req[c].pc = "take" /\ Due(req[c]) = {}
  BY DEF Finish, Due
<1>4. req' = [req EXCEPT ![c] = q]
  BY <1>1 DEF Finish
<1> QED
  BY <1>2, <1>3, <1>4, QuietRefines DEF Finish

\* Looking for the users.
LEMMA AffectRefines ==
  ASSUME SerialInv, NEW c \in Clients, Affect(c)
  PROVE  Kept /\ Refines
<1>1. req[c] \in Request /\ Good(req[c]) /\ req[c].pc = "affect"
  BY HeldRequest DEF SerialInv, AllGood, Affect
<1>2. PICK r \in Request : r = req[c]
  BY <1>1
<1>3. PICK more \in SUBSET Users : more = AffectedNow(r)
  BY AffectedType DEF AffectedNow, AffectedByResource
<1>4. [r EXCEPT !.todo = r.todo \cup more, !.pc = "take"] \in Request
  BY <1>3 DEF Request, Pc
<1>5. PICK q \in Request : q = [r EXCEPT !.todo = r.todo \cup more, !.pc = "take"]
  BY <1>4
<1>6. /\ q.pc = "take" /\ q.todo = r.todo \cup more /\ q.kind = r.kind
      /\ q.id = r.id /\ q.new = r.new
  BY <1>5 DEF Request
<1>7. Due(q) = Due(r)
  BY <1>1, <1>2, <1>3, <1>6 DEF Due
<1>8. Good(q)
  BY <1>1, <1>2, <1>6 DEF Good
<1>9. req' = [req EXCEPT ![c] = q]
  BY <1>2, <1>3, <1>5 DEF Affect, SerialInv, Typed, Shape
<1> QED
  BY <1>1, <1>2, <1>7, <1>8, <1>9, QuietRefines DEF Affect

\* Taking the next user.
LEMMA TakeRefines ==
  ASSUME SerialInv, NEW c \in Clients, NEW u \in Users, Take(c, u)
  PROVE  Kept /\ Refines
<1>1. req[c] \in Request /\ Good(req[c]) /\ req[c].pc = "take" /\ u \in req[c].todo
  BY HeldRequest DEF SerialInv, AllGood, Take, IsNext
<1>2. PICK r \in Request : r = req[c]
  BY <1>1
<1>3. PICK pc \in Pc : pc = IF u \in live THEN "compute" ELSE "register"
  BY DEF Pc
<1>4. PICK loaded \in SUBSET Address : loaded = allowed[u]
  BY DEF SerialInv, Typed, TypeOK
<1>5. [r EXCEPT !.pc = pc, !.user = u, !.loaded = loaded] \in Request
  BY DEF Request
<1>6. PICK q \in Request : q = [r EXCEPT !.pc = pc, !.user = u, !.loaded = loaded]
  BY <1>5
<1>7. /\ q.pc = pc /\ q.todo = r.todo /\ q.kind = r.kind /\ q.id = r.id /\ q.new = r.new
      /\ q.user = u /\ q.loaded = loaded
  BY <1>6 DEF Request
<1>8. Due(q) = Due(r)
  BY <1>1, <1>2, <1>3, <1>7 DEF Due
<1>9. Good(q)
  BY <1>1, <1>2, <1>3, <1>4, <1>7 DEF Good
<1>10. req' = [req EXCEPT ![c] = q]
  BY <1>2, <1>3, <1>4, <1>6 DEF Take, SerialInv, Typed, Shape
<1> QED
  BY <1>1, <1>2, <1>8, <1>9, <1>10, QuietRefines DEF Take

\* What a request computes for a user with an account is what the user is
\* entitled to: the rows it holds are the rows stored.
LEMMA SeenIsEntitled ==
  ASSUME TypeOK, NEW r \in Request, RequestOk(r), Good(r),
         r.pc \in {"compute", "register"}, account[r.user] = "on"
  PROVE  Seen(r, r.user) = Entitled(r.user)
<1>1. r.pc \notin {"idle", "commit"} /\ r.user \in r.todo
  BY DEF Good
<1>2. CASE r.kind = "policy"
  <2>1. r.id \in Policies /\ r.new = policy[r.id] /\ r.new \in PolicyRow
    BY <1>1, <1>2 DEF Good, RequestOk
  <2>2. [r.new EXCEPT !.state = policy[r.id].state] = r.new
    BY <2>1 DEF PolicyRow
  <2>3. [policy EXCEPT ![r.id] = policy[r.id]] = policy
    BY <2>1 DEF TypeOK
  <2> QED
    BY <1>2, <2>1, <2>2, <2>3 DEF Seen, Entitled
<1>3. CASE r.kind = "resource"
  <2>1. r.id \in Resources /\ r.new = resource[r.id]
    BY <1>1, <1>3 DEF Good, RequestOk
  <2>2. [resource EXCEPT ![r.id] = resource[r.id]] = resource
    BY <2>1 DEF TypeOK
  <2> QED
    BY <1>3, <2>1, <2>2 DEF Seen, Entitled
<1>4. CASE r.kind = "user"
  <2>1. r.new = GroupsOf(r.id) /\ r.user = r.id
    BY <1>1, <1>4 DEF Good
  <2> QED
    BY <1>4, <2>1 DEF Seen, Entitled
<1>5. CASE r.kind = "peer"
  BY <1>5 DEF Seen, Entitled
<1> QED
  BY <1>2, <1>3, <1>4, <1>5 DEF Request, Kinds

\* Computing the routes, for a peer or for a registration.
LEMMA ComputeRefines ==
  ASSUME SerialInv, NEW c \in Clients, Compute(c) \/ Register(c)
  PROVE  Kept /\ Refines
<1>1. /\ req[c] \in Request /\ RequestOk(req[c]) /\ Good(req[c])
      /\ req[c].pc \in {"compute", "register"}
  BY HeldRequest DEF SerialInv, AllGood, Compute, Register
<1>2. PICK r \in Request : r = req[c]
  BY <1>1
<1>3. account[r.user] = "on"
  <2>1. CASE Compute(c)
    <3>1. r.user \in live
      BY <1>1, <1>2, <2>1 DEF Compute, Good
    <3>2. PICK a \in Pool : holder[a] = r.user
      BY <3>1 DEF SerialInv, Keys
    <3>3. r.user \in Users
      BY <3>1 DEF SerialInv, Typed, TypeOK
    <3> QED
      BY <3>2, <3>3, IdAssumption DEF SerialInv, Keys
  <2>2. CASE Register(c)
    BY <1>2, <2>2 DEF Register
  <2> QED
    BY <2>1, <2>2
<1>4. PICK routes \in SUBSET Address : routes = Seen(r, r.user)
  BY <1>1, <1>2, SeenType DEF SerialInv, Typed
<1>5. routes = Entitled(r.user)
  BY <1>1, <1>2, <1>3, <1>4, SeenIsEntitled DEF SerialInv, Typed
<1>6. PICK pc \in Pc : pc = IF r.pc = "compute" THEN "store" ELSE "insert"
  BY DEF Pc
<1>7. [r EXCEPT !.pc = pc, !.routes = routes] \in Request
  BY DEF Request
<1>8. PICK q \in Request : q = [r EXCEPT !.pc = pc, !.routes = routes]
  BY <1>7
<1>9. /\ q.pc = pc /\ q.todo = r.todo /\ q.kind = r.kind /\ q.id = r.id /\ q.new = r.new
      /\ q.user = r.user /\ q.loaded = r.loaded /\ q.routes = routes
  BY <1>8 DEF Request
<1>10. Due(q) = Due(r)
  BY <1>1, <1>2, <1>6, <1>9 DEF Due
<1>11. Good(q)
  BY <1>1, <1>2, <1>5, <1>6, <1>9 DEF Good
<1>12. req' = [req EXCEPT ![c] = q]
  BY <1>2, <1>4, <1>6, <1>8 DEF Compute, Register, SerialInv, Typed, Shape
<1>13. UNCHANGED <<account, group, member, policy, resource, live, allowed, holder, owed>>
  BY DEF Compute, Register
<1> QED
  BY <1>1, <1>2, <1>10, <1>11, <1>12, <1>13, QuietRefines

\* A user without a peer is taken off the list: Skip of the contract.
LEMMA SkipRefines ==
  ASSUME SerialInv, NEW c \in Clients, NEW u \in Users, u \notin live,
         req[c].pc \notin {"idle", "commit", "affect"},
         NEW q \in Request, q.pc = "take", q.kind = req[c].kind, q.id = req[c].id,
         q.new = req[c].new, q.todo = req[c].todo \ {u},
         req' = [req EXCEPT ![c] = q],
         UNCHANGED <<account, group, member, policy, resource, live, allowed, holder, owed>>
  PROVE  Kept /\ Refines
<1>1. Good(req[c]) /\ req[c].pc # "idle"
  BY DEF SerialInv, AllGood
<1>2. Good(q)
  BY <1>1 DEF Good
<1>3. Good(q)' /\ Due(q)' = Due(q)
  BY <1>2, GoodSame, DueSame
<1>4. OneOpen' /\ AllGood' /\ Behind = Due(req[c]) /\ Behind' = Due(q)
  BY <1>1, <1>3, OwnStep
<1>5. Due(q) = Due(req[c]) \ {u}
  <2>1. CASE q.kind = "peer"
    BY <2>1 DEF Due
  <2>2. CASE q.kind # "peer"
    BY <2>2 DEF Due
  <2> QED
    BY <2>1, <2>2
<1>6. Keys'
  BY KeysSame DEF SerialInv
<1>7. [v \in Users |-> Entitled(v)]' = [v \in Users |-> Entitled(v)]
  BY DEF Entitled, GroupsOf
<1>8. Contract!Skip(u)
  BY <1>4, <1>5, <1>7 DEF Contract!Skip
<1> QED
  BY <1>4, <1>6, <1>8 DEF Kept, Refines, Contract!Next

\* Passing over a user without a peer.
LEMMA PassOverRefines ==
  ASSUME SerialInv, NEW c \in Clients, NEW u \in Users, PassOver(c, u)
  PROVE  Kept /\ Refines
<1>1. req[c] \in Request /\ req[c].pc = "take"
  BY HeldRequest DEF SerialInv, PassOver
<1>2. PICK r \in Request : r = req[c]
  BY <1>1
<1>3. [r EXCEPT !.todo = r.todo \ {u}] \in Request
  BY DEF Request
<1>4. PICK q \in Request : q = [r EXCEPT !.todo = r.todo \ {u}]
  BY <1>3
<1>5. q.pc = r.pc /\ q.kind = r.kind /\ q.id = r.id /\ q.new = r.new /\ q.todo = r.todo \ {u}
  BY <1>4 DEF Request
<1>6. req' = [req EXCEPT ![c] = q]
  BY <1>2, <1>4 DEF PassOver, SerialInv, Typed, Shape
<1>7. /\ q.pc = "take" /\ q.kind = req[c].kind /\ q.id = req[c].id
      /\ q.new = req[c].new /\ q.todo = req[c].todo \ {u}
      /\ req[c].pc \notin {"idle", "commit", "affect"}
  BY <1>1, <1>2, <1>5
<1>8. /\ u \notin live
      /\ UNCHANGED <<account, group, member, policy, resource, live, allowed, holder, owed>>
  BY DEF PassOver
<1> QED
  BY <1>6, <1>7, <1>8, SkipRefines

\* A user the policies give nothing.
LEMMA NothingToRegisterRefines ==
  ASSUME SerialInv, NEW c \in Clients, NothingToRegister(c)
  PROVE  Kept /\ Refines
<1>1. /\ req[c] \in Request /\ RequestOk(req[c]) /\ Good(req[c])
      /\ req[c].pc = "register"
  BY HeldRequest DEF SerialInv, AllGood, NothingToRegister
<1>2. PICK r \in Request : r = req[c]
  BY <1>1
<1>3. PICK u \in Users : u = r.user
  BY <1>1, <1>2 DEF RequestOk
<1>4. u \notin live
  BY <1>1, <1>2, <1>3 DEF Good
<1>5. UserDone(r) \in Request
  BY UserDoneType, <1>1, <1>2
<1>6. PICK q \in Request : q = UserDone(r)
  BY <1>5
<1>7. q.pc = "take" /\ q.kind = r.kind /\ q.id = r.id /\ q.new = r.new /\ q.todo = r.todo \ {u}
  <2>1. q = [r EXCEPT !.pc = "take", !.todo = r.todo \ {r.user}]
    BY <1>6 DEF UserDone
  <2> QED
    BY <1>3, <2>1 DEF Request
<1>8. req' = [req EXCEPT ![c] = q]
  BY <1>2, <1>6 DEF NothingToRegister
<1> QED
  BY <1>1, <1>2, <1>4, <1>7, <1>8, SkipRefines DEF NothingToRegister

\* A user whose peer gets the routes: Refresh of the contract.
LEMMA RefreshRefines ==
  ASSUME SerialInv, NEW c \in Clients, NEW u \in Users,
         req[c].pc \in {"store", "insert"}, u = req[c].user,
         NEW q \in Request, q = UserDone(req[c]), req' = [req EXCEPT ![c] = q],
         allowed' = [allowed EXCEPT ![u] = Entitled(u)], live' = live \cup {u},
         owed' = owed \ {u},
         UNCHANGED <<account, group, member, policy, resource>>
  PROVE  OneOpen' /\ AllGood' /\ Refines
<1>1. req[c] \in Request /\ Good(req[c]) /\ req[c].pc \notin {"idle", "commit", "affect"}
  BY HeldRequest DEF SerialInv, AllGood
<1>2. PICK r \in Request : r = req[c]
  BY <1>1
<1>3. q.pc = "take" /\ q.kind = r.kind /\ q.id = r.id /\ q.new = r.new /\ q.todo = r.todo \ {u}
  <2>1. q = [r EXCEPT !.pc = "take", !.todo = r.todo \ {r.user}]
    BY <1>2 DEF UserDone
  <2> QED
    BY <1>2, <2>1 DEF Request
<1>4. Good(q)'
  BY <1>1, <1>2, <1>3 DEF Good, GroupsOf
<1>5. OneOpen' /\ AllGood' /\ Behind = Due(r) /\ Behind' = Due(q)'
  BY <1>1, <1>2, <1>4, OwnStep
<1>6. Due(q)' = Due(r) \ {u}
  <2>1. Due(q)' = Due(q)
    BY DueSame
  <2>2. Due(q) = Due(r) \ {u}
    <3>1. CASE q.kind = "peer"
      BY <1>3, <3>1 DEF Due
    <3>2. CASE q.kind # "peer"
      BY <1>1, <1>2, <1>3, <3>2 DEF Due
    <3> QED
      BY <3>1, <3>2
  <2> QED
    BY <2>1, <2>2
<1>7. [v \in Users |-> Entitled(v)]' = [v \in Users |-> Entitled(v)]
  BY DEF Entitled, GroupsOf
<1>8. allowed' = [allowed EXCEPT ![u] = [v \in Users |-> Entitled(v)][u]]
  OBVIOUS
<1>9. Contract!Refresh(u)
  BY <1>5, <1>6, <1>7, <1>8 DEF Contract!Refresh
<1> QED
  BY <1>5, <1>9 DEF Refines, Contract!Next

\* Storing the routes of a peer.
LEMMA StoreRefines ==
  ASSUME SerialInv, NEW c \in Clients, Store(c)
  PROVE  Kept /\ Refines
<1>1. /\ req[c] \in Request /\ RequestOk(req[c]) /\ Good(req[c])
      /\ req[c].pc = "store"
  BY HeldRequest DEF SerialInv, AllGood, Store
<1>2. PICK u \in Users : u = req[c].user
  BY <1>1 DEF RequestOk
<1>3. u \in live /\ req[c].loaded = allowed[u] /\ req[c].routes = Entitled(u)
  BY <1>1, <1>2 DEF Good
<1>4. PICK q \in Request : q = UserDone(req[c])
  BY <1>1, UserDoneType
<1>5. /\ req' = [req EXCEPT ![c] = q] /\ owed' = owed \ {u}
      /\ UNCHANGED <<account, group, member, policy, resource, holder>>
  BY <1>2, <1>4 DEF Store
<1>6. live' = live \cup {u}
  BY <1>2, <1>3 DEF Store
<1>7. allowed' = [allowed EXCEPT ![u] = Entitled(u)]
  <2>1. allowed' = IF req[c].routes # req[c].loaded
                   THEN [allowed EXCEPT ![u] = req[c].routes] ELSE allowed
    BY <1>2 DEF Store
  <2>2. CASE req[c].routes = req[c].loaded
    BY <1>3, <2>1, <2>2 DEF SerialInv, Typed, TypeOK
  <2>3. CASE req[c].routes # req[c].loaded
    BY <1>3, <2>1, <2>3
  <2> QED
    BY <2>2, <2>3
<1>8. OneOpen' /\ AllGood' /\ Refines
  BY <1>1, <1>2, <1>4, <1>5, <1>6, <1>7, RefreshRefines
<1>9. Keys'
  <2>1. live' = live
    BY <1>3, <1>6
  <2> QED
    BY <1>5, <2>1, KeysSame DEF SerialInv
<1> QED
  BY <1>8, <1>9 DEF Kept

\* Inserting the peer that was registered.
LEMMA InsertRefines ==
  ASSUME SerialInv, NEW c \in Clients, NEW a \in Pool, Insert(c, a)
  PROVE  Kept /\ Refines
<1>1. /\ req[c] \in Request /\ RequestOk(req[c]) /\ Good(req[c])
      /\ req[c].pc = "insert"
  BY HeldRequest DEF SerialInv, AllGood, Insert
<1>2. PICK u \in Users : u = req[c].user
  BY <1>1 DEF RequestOk
<1>3. req[c].routes = Entitled(u)
  BY <1>1, <1>2 DEF Good
<1>4. PICK q \in Request : q = UserDone(req[c])
  BY <1>1, UserDoneType
<1>5. /\ req' = [req EXCEPT ![c] = q] /\ owed' = owed \ {u} /\ live' = live \cup {u}
      /\ allowed' = [allowed EXCEPT ![u] = Entitled(u)]
      /\ UNCHANGED <<account, group, member, policy, resource>>
  BY <1>2, <1>3, <1>4 DEF Insert
<1>6. OneOpen' /\ AllGood' /\ Refines
  BY <1>1, <1>2, <1>4, <1>5, RefreshRefines
<1>7. holder' = [holder EXCEPT ![a] = u] /\ holder[a] = NoId /\ account[u] = "on"
  BY <1>2 DEF Insert, FirstFree
<1>8. \A b \in Pool : holder'[b] = IF b = a THEN u ELSE holder[b]
  BY <1>7 DEF SerialInv, Typed, TypeOK
<1>9. \A v \in live' : \E b \in Pool : holder'[b] = v
  <2>1. ASSUME NEW v \in live, v # u
        PROVE  \E b \in Pool : holder'[b] = v
    <3>1. PICK b \in Pool : holder[b] = v
      BY DEF SerialInv, Keys
    <3>2. v # NoId
      BY IdAssumption DEF SerialInv, Typed, TypeOK
    <3> QED
      BY <1>7, <1>8, <3>1, <3>2
  <2> QED
    BY <1>5, <1>8, <2>1
<1>10. \A b \in Pool : holder'[b] # NoId => account'[holder'[b]] = "on"
  BY <1>5, <1>7, <1>8 DEF SerialInv, Keys
<1>11. Keys'
  BY <1>5, <1>9, <1>10 DEF SerialInv, Keys
<1> QED
  BY <1>6, <1>11 DEF Kept

(***************************************************************************)
(* The committed changes: Change of the contract.                          *)
(***************************************************************************)

\* The policy is active and has u, or a group of u, for its subject.
Applies(u, p) == policy[p].state = "on" /\ u \in Affected(policy[p])

\* A user keeps what the policies give while the policies that apply stay the
\* same, with their resources.
LEMMA SameEntitled ==
  ASSUME TypeOK, TypeOK', NEW u \in Users,
         \A p \in Policies : Applies(u, p)' <=> Applies(u, p),
         \A p \in Policies :
           Applies(u, p) =>
             /\ policy'[p].res = policy[p].res /\ policy'[p].effect = policy[p].effect
             /\ resource'[policy[p].res] = resource[policy[p].res]
  PROVE  Entitled(u)' = Entitled(u)
<1> DEFINE Names(e) == {p \in Policies :
                          /\ policy[p].state = "on" /\ policy[p].effect = e
                          /\ policy[p].user = u \/ policy[p].group \in GroupsOf(u)
                          /\ resource[policy[p].res].state = "on"}
           Covered(e) == UNION {resource[policy[p].res].net : p \in Names(e)}
<1>1. Entitled(u) = Covered("allow") \ Covered("deny")
  BY DEF Entitled, Routes
<1>2. Entitled(u)' = Covered("allow")' \ Covered("deny")'
  BY DEF Entitled, Routes
<1>3. \A p \in Policies :
        Applies(u, p) <=> /\ policy[p].state = "on"
                          /\ policy[p].user = u \/ policy[p].group \in GroupsOf(u)
  BY DEF Applies, Affected, GroupsOf, TypeOK
<1>4. \A p \in Policies :
        Applies(u, p)' <=> /\ policy'[p].state = "on"
                           /\ policy'[p].user = u \/ policy'[p].group \in GroupsOf(u)'
  BY DEF Applies, Affected, GroupsOf, TypeOK
<1>5. ASSUME NEW e PROVE Covered(e)' = Covered(e)
  <2>1. \A p \in Policies : p \in Names(e)' <=> p \in Names(e)
    BY <1>3, <1>4
  <2>2. \A p \in Names(e) : resource'[policy'[p].res].net = resource[policy[p].res].net
    BY <1>3
  <2>3. Names(e)' = Names(e)
    BY <2>1
  <2> HIDE DEF Names
  <2>4. \A a : a \in Covered(e)' <=> a \in Covered(e)
    BY <2>2, <2>3
  <2> QED
    BY <2>4
<1> HIDE DEF Covered, Names
<1> QED
  BY <1>1, <1>2, <1>5

\* A step after which everybody whose routes should change is behind or owed is
\* a change of the contract.
LEMMA IsChange ==
  ASSUME Typed, Typed', UNCHANGED <<live, allowed>>,
         Behind \subseteq Behind', owed \subseteq owed',
         \A u \in live : u \in Behind' \cup owed' \/ Entitled(u)' = Entitled(u)
  PROVE  Contract!Change
<1>1. [u \in Users |-> Entitled(u)]' \in [Users -> SUBSET Address]
  BY EntitledTypeNext DEF Typed
<1>2. Behind' \in SUBSET Users
  <2>1. \A c \in Clients : req'[c] \in Request
    BY DEF Typed, Shape
  <2>2. ASSUME NEW r \in Request
        PROVE  Due(r)' \in SUBSET Users
    <3>1. r.todo \in SUBSET Users
      BY DEF Request
    <3>2. AffectedNow(r)' \in SUBSET Users
      BY DEF AffectedNow, AffectedByResource, Affected
    <3> QED
      BY <3>1, <3>2 DEF Due
  <2>3. \A c \in Clients : Due(req[c])' \in SUBSET Users
    BY <2>1, <2>2
  <2> QED
    BY <2>3 DEF Behind
<1>3. owed' \in SUBSET Users
  BY DEF Typed, TypeOK
<1>4. \A u \in live : [v \in Users |-> Entitled(v)]'[u] # [v \in Users |-> Entitled(v)][u]
                        => u \in Behind' \cup owed'
  BY DEF Typed, TypeOK
<1> QED
  BY <1>1, <1>2, <1>3, <1>4 DEF Contract!Change

\* A commit of a handler that read the stored row stores what it sends.
LEMMA FlushedSame ==
  ASSUME NEW old \in PolicyRow, NEW new \in PolicyRow
  PROVE  Flushed(old, new, old) = new
<1>1. DOMAIN old = {"state", "user", "group", "res", "effect"} /\ DOMAIN new = DOMAIN old
  BY DEF PolicyRow
<1>2. new = [f \in DOMAIN new |-> new[f]]
  BY DEF PolicyRow
<1>3. [f \in DOMAIN old |-> IF new[f] # old[f] THEN new[f] ELSE old[f]]
        = [f \in DOMAIN new |-> new[f]]
  BY <1>1
<1> QED
  BY <1>2, <1>3 DEF Flushed

\* The same of a resource.
LEMMA FlushedSameResource ==
  ASSUME NEW old \in ResourceRow, NEW new \in ResourceRow
  PROVE  Flushed(old, new, old) = new
<1>1. DOMAIN old = {"state", "net"} /\ DOMAIN new = DOMAIN old
  BY DEF ResourceRow
<1>2. new = [f \in DOMAIN new |-> new[f]]
  BY DEF ResourceRow
<1>3. [f \in DOMAIN old |-> IF new[f] # old[f] THEN new[f] ELSE old[f]]
        = [f \in DOMAIN new |-> new[f]]
  BY <1>1
<1> QED
  BY <1>2, <1>3 DEF Flushed

\* The commit of a policy.
LEMMA CommitPolicyRefines ==
  ASSUME SerialInv, Typed', NEW c \in Clients, CommitPolicy(c)
  PROVE  Kept /\ Refines
<1>1. /\ req[c] \in Request /\ RequestOk(req[c]) /\ Good(req[c])
      /\ req[c].pc = "commit" /\ req[c].kind = "policy"
  BY HeldRequest DEF SerialInv, AllGood, CommitPolicy
<1>2. PICK r \in Request : r = req[c]
  BY <1>1
<1>3. r.id \in Policies /\ r.old \in PolicyRow /\ r.new \in PolicyRow
  BY <1>1, <1>2 DEF RequestOk
<1>4. Covers(r)
  BY <1>1, <1>2 DEF Good
<1>5. Flushed(r.old, r.new, policy[r.id]) = r.new
  BY <1>3, <1>4, FlushedSame DEF Covers
<1>6. PICK pc \in Pc : pc = IF r.after THEN "affect" ELSE "take"
  BY DEF Pc
<1>7. [r EXCEPT !.pc = pc, !.new = r.new] \in Request
  BY DEF Request
<1>8. PICK q \in Request : q = [r EXCEPT !.pc = pc, !.new = r.new]
  BY <1>7
<1>9. q.pc = pc /\ q.kind = "policy" /\ q.id = r.id /\ q.new = r.new /\ q.todo = r.todo
  BY <1>1, <1>2, <1>8 DEF Request
<1>10. /\ policy' = [policy EXCEPT ![r.id] = r.new]
       /\ owed' = IF r.forgets THEN owed \cup (Affected(r.old) \ Affected(r.new)) ELSE owed
       /\ UNCHANGED <<account, group, member, resource, live, allowed, holder, ops>>
  BY <1>2, <1>5 DEF CommitPolicy
<1>11. req' = [req EXCEPT ![c] = q]
  <2>1. req' = [req EXCEPT ![c] = [r EXCEPT !.pc = pc, !.new = r.new]]
    BY <1>2, <1>5, <1>6 DEF CommitPolicy, SerialInv, Typed, Shape
  <2> QED
    BY <1>8, <2>1
<1>12. policy'[r.id] = r.new
  BY <1>3, <1>10 DEF SerialInv, Typed, TypeOK
<1>13. Good(q)'
  BY <1>6, <1>9, <1>12 DEF Good
<1>14. OneOpen' /\ AllGood' /\ Behind = Due(r) /\ Behind' = Due(q)'
  BY <1>1, <1>2, <1>11, <1>13, OwnStep
<1>15. Behind = {}
  BY <1>1, <1>2, <1>14 DEF Due
<1>16. Behind' = IF r.after THEN r.todo \cup Affected(r.new) ELSE r.todo
  BY <1>6, <1>9, <1>10, <1>14 DEF Due, AffectedNow, Affected
<1>17. ASSUME NEW u \in live, u \notin Behind' \cup owed'
       PROVE  Entitled(u)' = Entitled(u)
  <2>1. u \in Users
    BY DEF SerialInv, Typed, TypeOK
  <2>2. ~Applies(u, r.id)'
    BY <1>4, <1>10, <1>12, <1>16, <1>17 DEF Applies, Covers, Affected
  <2>3. ~Applies(u, r.id)
    BY <1>4, <1>10, <1>16, <1>17 DEF Applies, Covers, Affected
  <2>4. \A p \in Policies \ {r.id} : policy'[p] = policy[p]
    BY <1>10 DEF SerialInv, Typed, TypeOK
  <2>5. \A p \in Policies : Applies(u, p)' <=> Applies(u, p)
    BY <1>10, <2>2, <2>3, <2>4 DEF Applies, Affected
  <2>6. \A p \in Policies :
          Applies(u, p) =>
            /\ policy'[p].res = policy[p].res /\ policy'[p].effect = policy[p].effect
            /\ resource'[policy[p].res] = resource[policy[p].res]
    BY <1>10, <2>3, <2>4
  <2> QED
    BY <2>1, <2>5, <2>6, SameEntitled DEF SerialInv, Typed
<1>18. Contract!Change
  <2>1. owed \subseteq owed'
    BY <1>10
  <2> QED
    BY <1>10, <1>15, <1>17, <2>1, IsChange DEF SerialInv
<1>19. Keys'
  <2>1. ForeignKeysHold(r.new)
    BY <1>2, <1>5 DEF CommitPolicy, PolicyHolds
  <2>2. \A p \in Policies : policy'[p] = IF p = r.id THEN r.new ELSE policy[p]
    BY <1>3, <1>10 DEF SerialInv, Typed, TypeOK
  <2> QED
    BY <1>10, <2>1, <2>2 DEF SerialInv, Keys, ForeignKeysHold
<1> QED
  BY <1>14, <1>18, <1>19 DEF Kept, Refines, Contract!Next

\* The commit of a resource.
LEMMA CommitResourceRefines ==
  ASSUME SerialInv, Typed', NEW c \in Clients, CommitResource(c)
  PROVE  Kept /\ Refines
<1>1. /\ req[c] \in Request /\ RequestOk(req[c]) /\ Good(req[c])
      /\ req[c].pc = "commit" /\ req[c].kind = "resource"
  BY HeldRequest DEF SerialInv, AllGood, CommitResource
<1>2. PICK r \in Request : r = req[c]
  BY <1>1
<1>3. r.id \in Resources /\ r.old \in ResourceRow /\ r.new \in ResourceRow
  BY <1>1, <1>2 DEF RequestOk
<1>4. r.old = resource[r.id]
  BY <1>1, <1>2 DEF Good
<1>5. Flushed(r.old, r.new, resource[r.id]) = r.new
  BY <1>3, <1>4, FlushedSameResource
<1>6. [r EXCEPT !.pc = "affect", !.new = r.new] \in Request
  BY DEF Request, Pc
<1>7. PICK q \in Request : q = [r EXCEPT !.pc = "affect", !.new = r.new]
  BY <1>6
<1>8. /\ q.pc = "affect" /\ q.kind = "resource" /\ q.id = r.id /\ q.new = r.new
      /\ q.todo = r.todo
  BY <1>1, <1>2, <1>7 DEF Request
<1>9. /\ resource' = [resource EXCEPT ![r.id] = r.new]
      /\ UNCHANGED <<account, group, member, policy, live, allowed, holder, owed, ops>>
  BY <1>2, <1>5 DEF CommitResource
<1>10. req' = [req EXCEPT ![c] = q]
  BY <1>2, <1>5, <1>7 DEF CommitResource, SerialInv, Typed, Shape
<1>11. resource'[r.id] = r.new /\ \A x \in Resources \ {r.id} : resource'[x] = resource[x]
  BY <1>3, <1>9 DEF SerialInv, Typed, TypeOK
<1>12. Good(q)'
  BY <1>8, <1>11 DEF Good
<1>13. OneOpen' /\ AllGood' /\ Behind = Due(r) /\ Behind' = Due(q)'
  BY <1>1, <1>2, <1>10, <1>12, OwnStep
<1>14. Behind = {}
  BY <1>1, <1>2, <1>13 DEF Due
<1>15. Behind' = r.todo \cup AffectedByResource(r.id)
  BY <1>8, <1>9, <1>13 DEF Due, AffectedNow, AffectedByResource, Affected
<1>16. ASSUME NEW u \in live, u \notin Behind' \cup owed'
       PROVE  Entitled(u)' = Entitled(u)
  <2>1. u \in Users
    BY DEF SerialInv, Typed, TypeOK
  <2>2. \A p \in Policies : Applies(u, p) => policy[p].res # r.id
    BY <1>15, <1>16 DEF Applies, AffectedByResource
  <2>3. \A p \in Policies : policy[p].res \in Resources
    BY DEF SerialInv, Typed, TypeOK, PolicyRow
  <2>4. \A p \in Policies : Applies(u, p)' <=> Applies(u, p)
    BY <1>9 DEF Applies, Affected
  <2>5. \A p \in Policies :
          Applies(u, p) =>
            /\ policy'[p].res = policy[p].res /\ policy'[p].effect = policy[p].effect
            /\ resource'[policy[p].res] = resource[policy[p].res]
    BY <1>9, <1>11, <2>2, <2>3
  <2> QED
    BY <2>1, <2>4, <2>5, SameEntitled DEF SerialInv, Typed
<1>17. Contract!Change
  BY <1>9, <1>14, <1>16, IsChange DEF SerialInv
<1>18. Keys'
  BY <1>9, KeysSame DEF SerialInv
<1> QED
  BY <1>13, <1>17, <1>18 DEF Kept, Refines, Contract!Next

\* A user whose memberships stay keeps what the policies give, if they stay.
LEMMA SameMembership ==
  ASSUME TypeOK, TypeOK', NEW u \in Users, UNCHANGED <<policy, resource>>,
         \A g \in Groups : <<u, g>> \in member' <=> <<u, g>> \in member
  PROVE  Entitled(u)' = Entitled(u)
<1>1. \A p \in Policies : u \in Affected(policy[p])' <=> u \in Affected(policy[p])
  BY DEF Affected, TypeOK
<1> QED
  BY <1>1, SameEntitled DEF Applies

\* The commit of a user.
LEMMA CommitUserRefines ==
  ASSUME SerialInv, Typed', NEW c \in Clients, CommitUser(c)
  PROVE  Kept /\ Refines
<1>1. /\ req[c] \in Request /\ RequestOk(req[c]) /\ Good(req[c])
      /\ req[c].pc = "commit" /\ req[c].kind = "user"
  BY HeldRequest DEF SerialInv, AllGood, CommitUser
<1>2. PICK r \in Request : r = req[c]
  BY <1>1
<1>3. r.id \in Users /\ r.old \subseteq Groups /\ r.new \subseteq Groups
  BY <1>1, <1>2 DEF RequestOk
<1>4. r.old = GroupsOf(r.id) /\ r.todo = {r.id}
  BY <1>1, <1>2 DEF Good
<1>5. [r EXCEPT !.pc = "take"] \in Request
  BY DEF Request, Pc
<1>6. PICK q \in Request : q = [r EXCEPT !.pc = "take"]
  BY <1>5
<1>7. q.pc = "take" /\ q.kind = "user" /\ q.id = r.id /\ q.new = r.new /\ q.todo = {r.id}
  BY <1>1, <1>2, <1>4, <1>6 DEF Request
<1>8. /\ member' = (member \ {<<r.id, g>> : g \in r.old \ r.new})
                     \cup {<<r.id, g>> : g \in r.new \ r.old}
      /\ UNCHANGED <<account, group, policy, resource, live, allowed, holder, owed, ops>>
  BY <1>2 DEF CommitUser
<1>9. req' = [req EXCEPT ![c] = q]
  BY <1>2, <1>6 DEF CommitUser, SerialInv, Typed, Shape
<1>10. GroupsOf(r.id)' = r.new
  BY <1>3, <1>4, <1>8 DEF GroupsOf
<1>11. Good(q)'
  BY <1>7, <1>10 DEF Good
<1>12. OneOpen' /\ AllGood' /\ Behind = Due(r) /\ Behind' = Due(q)'
  BY <1>1, <1>2, <1>9, <1>11, OwnStep
<1>13. Behind = {} /\ Behind' = {r.id}
  BY <1>1, <1>2, <1>7, <1>12 DEF Due
<1>14. ASSUME NEW u \in live, u \notin Behind' \cup owed'
       PROVE  Entitled(u)' = Entitled(u)
  <2>1. u \in Users /\ u # r.id
    BY <1>13, <1>14 DEF SerialInv, Typed, TypeOK
  <2>2. \A g \in Groups : <<u, g>> \in member' <=> <<u, g>> \in member
    BY <1>8, <2>1
  <2> QED
    BY <1>8, <2>1, <2>2, SameMembership DEF SerialInv, Typed
<1>15. Contract!Change
  BY <1>8, <1>13, <1>14, IsChange DEF SerialInv
<1>16. Keys'
  BY <1>8, KeysSame DEF SerialInv
<1> QED
  BY <1>12, <1>15, <1>16 DEF Kept, Refines, Contract!Next

(***************************************************************************)
(* The handlers that commit at once.                                       *)
(***************************************************************************)

\* Such a handler finds no open request and leaves none.
LEMMA AtOnceAlone ==
  ASSUME Serial, SerialInv, NEW h, AtOnce(h)
  PROVE  OneOpen' /\ AllGood' /\ Behind = {} /\ Behind' = {}
<1>1. (\A c \in Clients : req[c] = NoRequest) /\ Behind = {}
  BY StartsAlone DEF AtOnce
<1>2. \A c \in Clients : req'[c] = NoRequest
  BY <1>1 DEF AtOnce
<1>3. \A c \in Clients : Good(req[c])' /\ Due(req[c])' = {}
  BY <1>2, IdleIsGood
<1> QED
  BY <1>1, <1>2, <1>3 DEF OneOpen, AllGood, Behind

\* A change at once refines Change when whoever it touches is owed.
LEMMA AtOnceRefines ==
  ASSUME Serial, SerialInv, Typed', Keys', NEW h, AtOnce(h), UNCHANGED <<live, allowed>>,
         owed \subseteq owed',
         \A u \in live : u \in owed' \/ Entitled(u)' = Entitled(u)
  PROVE  Kept /\ Refines
<1>1. OneOpen' /\ AllGood' /\ Behind = {} /\ Behind' = {}
  BY AtOnceAlone
<1>2. Contract!Change
  BY <1>1, IsChange DEF SerialInv
<1> QED
  BY <1>1, <1>2 DEF Kept, Refines, Contract!Next

\* Permanent deletion: the resource was not active.
LEMMA PermanentlyDeleteRefines ==
  ASSUME Serial, SerialInv, Typed', NEW x \in Resources, PermanentlyDeleteResource(x)
  PROVE  Kept /\ Refines
<1>1. /\ AtOnce("permanently_delete_resource") /\ resource[x].state = "off" /\ ~Used(x)
      /\ resource' = [resource EXCEPT ![x].state = "gone"]
      /\ UNCHANGED <<account, group, member, policy, live, allowed, holder, owed>>
  BY DEF PermanentlyDeleteResource
<1>2. Keys'
  BY <1>1, KeysSame DEF SerialInv
<1>3. ASSUME NEW u \in live
      PROVE  Entitled(u)' = Entitled(u)
  <2>1. u \in Users
    BY DEF SerialInv, Typed, TypeOK
  <2>2. \A p \in Policies : Applies(u, p)' <=> Applies(u, p)
    BY <1>1 DEF Applies, Affected
  <2>3. \A p \in Policies : Applies(u, p) => policy[p].res # x
    BY <1>1 DEF Applies, Used, Stored
  <2>4. \A y \in Resources \ {x} : resource'[y] = resource[y]
    BY <1>1 DEF SerialInv, Typed, TypeOK
  <2>5. \A p \in Policies : policy[p].res \in Resources
    BY DEF SerialInv, Typed, TypeOK, PolicyRow
  <2> QED
    BY <1>1, <2>1, <2>2, <2>3, <2>4, <2>5, SameEntitled DEF SerialInv, Typed
<1> QED
  BY <1>1, <1>2, <1>3, AtOnceRefines

\* A change of memberships of g, or of its row, is one for those it owes.
LEMMA GroupChangeRefines ==
  ASSUME Serial, SerialInv, Typed', NEW g \in Groups, NEW h, AtOnce(h),
         UNCHANGED <<account, policy, resource, live, allowed, holder>>,
         owed \subseteq owed',
         \A k \in Groups \ {g} : group'[k] = group[k],
         group[g] \in Stored => group'[g] \in Stored,
         \A u \in Users, k \in Groups :
           (<<u, k>> \in member' <=> <<u, k>> \in member) \/ (k = g /\ u \in owed')
  PROVE  Kept /\ Refines
<1>1. Keys'
  <2>1. \A k \in Groups : group[k] \in Stored => group'[k] \in Stored
    OBVIOUS
  <2>2. \A p \in Policies : policy[p].group # NoId => policy[p].group \in Groups
    BY DEF SerialInv, Typed, TypeOK, PolicyRow
  <2> QED
    BY <2>1, <2>2 DEF SerialInv, Keys
<1>2. ASSUME NEW u \in live, u \notin owed'
      PROVE  Entitled(u)' = Entitled(u)
  <2>1. u \in Users
    BY DEF SerialInv, Typed, TypeOK
  <2> QED
    BY <1>2, <2>1, SameMembership DEF SerialInv, Typed
<1> QED
  BY <1>1, <1>2, AtOnceRefines

\* A new group has no policy, so its first members gain nothing.
LEMMA UiCreateGroupRefines ==
  ASSUME Serial, SerialInv, Typed', NEW g \in Groups, NEW S \in SUBSET Users,
         UiCreateGroup(g, S)
  PROVE  Kept /\ Refines
<1>1. /\ AtOnce("create_group") /\ group[g] = "none"
      /\ group' = [group EXCEPT ![g] = "on"]
      /\ member' = member \cup {<<u, g>> : u \in {u \in S : account[u] = "on"}}
      /\ UNCHANGED <<account, policy, resource, live, allowed, holder, owed>>
  BY DEF UiCreateGroup
<1>2. Keys'
  <2>1. \A k \in Groups : group[k] \in Stored => group'[k] \in Stored
    BY <1>1 DEF SerialInv, Typed, TypeOK, Stored
  <2>2. \A p \in Policies : policy[p].group # NoId => policy[p].group \in Groups
    BY DEF SerialInv, Typed, TypeOK, PolicyRow
  <2> QED
    BY <1>1, <2>1, <2>2 DEF SerialInv, Keys
<1>3. ASSUME NEW u \in live
      PROVE  Entitled(u)' = Entitled(u)
  <2>1. u \in Users
    BY DEF SerialInv, Typed, TypeOK
  <2>2. g # NoId
    BY IdAssumption
  <2>3. \A p \in Policies : policy[p].state = "on" => policy[p].group # g
    BY <1>1, <2>2 DEF SerialInv, Keys, Stored
  <2>4. \A k : k # g => (<<u, k>> \in member' <=> <<u, k>> \in member)
    BY <1>1
  <2>5. \A p \in Policies : Applies(u, p)' <=> Applies(u, p)
    BY <1>1, <2>3, <2>4 DEF Applies, Affected
  <2> QED
    BY <1>1, <2>1, <2>5, SameEntitled DEF SerialInv, Typed
<1> QED
  BY <1>1, <1>2, <1>3, AtOnceRefines

\* A policy of a deleted group applies to nobody any more.
LEMMA GroupGoneRefines ==
  ASSUME Serial, SerialInv, Typed', NEW g \in Groups, DeleteGroup(g) \/ UiDeleteGroup(g)
  PROVE  Kept /\ Refines
<1>1. /\ AtOnce("delete_group") /\ group' = [group EXCEPT ![g] = "gone"]
      /\ member' = {m \in member : m[2] # g}
      /\ policy' = [p \in Policies |-> Orphaned(policy[p], "group", g)]
      /\ UNCHANGED <<account, resource, live, allowed, holder>>
  BY DEF DeleteGroup, UiDeleteGroup, GroupGone
<1>2. g # NoId
  BY IdAssumption
<1>3. \A p \in Policies :
        /\ policy'[p].state = policy[p].state /\ policy'[p].user = policy[p].user
        /\ policy'[p].res = policy[p].res /\ policy'[p].effect = policy[p].effect
        /\ policy'[p].group = IF policy[p].group = g THEN NoId ELSE policy[p].group
  BY <1>1 DEF Orphaned, SerialInv, Typed, TypeOK, PolicyRow
<1>4. Keys'
  <2>1. \A k \in Groups \ {g} : group'[k] = group[k]
    BY <1>1 DEF SerialInv, Typed, TypeOK
  <2>2. \A p \in Policies : policy[p].group # NoId => policy[p].group \in Groups
    BY DEF SerialInv, Typed, TypeOK, PolicyRow
  <2> QED
    BY <1>1, <1>3, <2>1, <2>2 DEF SerialInv, Keys
<1>5. owed \subseteq owed'
  BY DEF DeleteGroup, UiDeleteGroup
<1>6. ASSUME NEW u \in live, u \notin owed'
      PROVE  Entitled(u)' = Entitled(u)
  <2>1. u \in Users
    BY DEF SerialInv, Typed, TypeOK
  <2>2. <<u, NoId>> \notin member
    BY IdAssumption DEF SerialInv, Typed, TypeOK
  <2>3. \A p \in Policies : Applies(u, p) /\ policy[p].group = g => policy[p].user = u
    <3>1. CASE DeleteGroup(g)
      BY <1>6, <2>1, <3>1 DEF DeleteGroup, Members, Applies, Affected
    <3>2. CASE UiDeleteGroup(g)
      BY <3>2 DEF UiDeleteGroup, Applies, Stored
    <3> QED
      BY <3>1, <3>2
  <2>4. \A k : k # g => (<<u, k>> \in member' <=> <<u, k>> \in member)
    BY <1>1
  <2>5. \A p \in Policies : Applies(u, p)' <=> Applies(u, p)
    BY <1>2, <1>3, <2>2, <2>3, <2>4 DEF Applies, Affected
  <2> QED
    BY <1>1, <1>3, <2>1, <2>5, SameEntitled DEF SerialInv, Typed
<1> QED
  BY <1>1, <1>4, <1>5, <1>6, AtOnceRefines

\* The handlers of groups.
LEMMA GroupHandlerRefines ==
  ASSUME Serial, SerialInv, Typed', GroupHandler
  PROVE  Kept /\ Refines
<1>1. PICK g \in Groups :
        \/ CreateGroup(g) \/ EnableGroup(g) \/ DisableGroup(g)
        \/ \E S \in SUBSET Users :
             UiCreateGroup(g, S) \/ \E state \in Stored : EditGroup(g, S, state)
        \/ \E u \in Users : AddMember(u, g) \/ RemoveMember(u, g)
        \/ DeleteGroup(g) \/ UiDeleteGroup(g)
  BY DEF GroupHandler
<1>2. CASE CreateGroup(g) \/ EnableGroup(g) \/ DisableGroup(g)
  <2>1. PICK h : AtOnce(h)
    BY <1>2 DEF CreateGroup, EnableGroup, DisableGroup
  <2>2. /\ UNCHANGED <<account, member, policy, resource, live, allowed, holder, owed>>
        /\ group' \in {[group EXCEPT ![g] = "on"], [group EXCEPT ![g] = "off"]}
    BY <1>2 DEF CreateGroup, EnableGroup, DisableGroup
  <2>3. group'[g] \in Stored /\ \A k \in Groups \ {g} : group'[k] = group[k]
    BY <2>2 DEF SerialInv, Typed, TypeOK, Stored
  <2>4. /\ \A u \in Users, k \in Groups :
             (<<u, k>> \in member' <=> <<u, k>> \in member) \/ (k = g /\ u \in owed')
        /\ owed \subseteq owed'
    BY <2>2
  <2> QED
    BY <2>1, <2>2, <2>3, <2>4, GroupChangeRefines
<1>3. ASSUME NEW S \in SUBSET Users, NEW state \in Stored, EditGroup(g, S, state)
      PROVE  Kept /\ Refines
  <2>1. PICK new \in SUBSET Users : new = {u \in S : account[u] = "on"}
    OBVIOUS
  <2>2. /\ AtOnce("edit_group") /\ group' = [group EXCEPT ![g] = state]
        /\ member' = {m \in member : m[2] # g} \cup {<<u, g>> : u \in new}
        /\ owed' = owed \cup (Members(g) \ new) \cup (new \ Members(g))
        /\ UNCHANGED <<account, policy, resource, live, allowed, holder>>
    BY <1>3, <2>1 DEF EditGroup
  <2>3. group'[g] \in Stored /\ \A k \in Groups \ {g} : group'[k] = group[k]
    BY <2>2 DEF SerialInv, Typed, TypeOK
  <2>4. \A u \in Users, k \in Groups :
          (<<u, k>> \in member' <=> <<u, k>> \in member) \/ (k = g /\ u \in owed')
    <3>1. \A u \in Users : <<u, g>> \in member => u \in Members(g)
      BY DEF Members
    <3>2. \A u \in Members(g) : <<u, g>> \in member
      BY DEF Members
    <3>3. \A u \in Users : <<u, g>> \in member' => u \in new
      BY <2>2
    <3>4. \A u \in new : <<u, g>> \in member'
      BY <2>2
    <3>5. \A u \in Users, k \in Groups \ {g} : <<u, k>> \in member' <=> <<u, k>> \in member
      BY <2>2
    <3>6. \A u \in Users : u \notin owed' => (u \in new <=> u \in Members(g))
      BY <2>2
    <3> QED
      BY <3>1, <3>2, <3>3, <3>4, <3>5, <3>6
  <2>5. owed \subseteq owed'
    BY <2>2
  <2> QED
    BY <2>2, <2>3, <2>4, <2>5, GroupChangeRefines
<1>4. ASSUME NEW v \in Users, AddMember(v, g) \/ RemoveMember(v, g)
      PROVE  Kept /\ Refines
  <2>1. PICK h : AtOnce(h)
    BY <1>4 DEF AddMember, RemoveMember
  <2>2. /\ UNCHANGED <<account, group, policy, resource, live, allowed, holder>>
        /\ owed \subseteq owed'
    BY <1>4 DEF AddMember, RemoveMember
  <2>3. \A u \in Users, k \in Groups :
          (<<u, k>> \in member' <=> <<u, k>> \in member) \/ (k = g /\ u \in owed')
    <3>1. /\ member' \in {member \cup {<<v, g>>}, member \ {<<v, g>>}}
          /\ v \in owed' \/ member' = member
      <4>1. CASE AddMember(v, g)
        BY <4>1 DEF AddMember, Members
      <4>2. CASE RemoveMember(v, g)
        BY <4>2 DEF RemoveMember, Members
      <4> QED
        BY <1>4, <4>1, <4>2
    <3>2. \A u \in Users, k \in Groups :
            u # v \/ k # g => (<<u, k>> \in member' <=> <<u, k>> \in member)
      BY <3>1
    <3> QED
      BY <3>1, <3>2
  <2> QED
    BY <2>1, <2>2, <2>3, GroupChangeRefines
<1> QED
  BY <1>1, <1>2, <1>3, <1>4, UiCreateGroupRefines, GroupGoneRefines

\* The policies of a deleted user apply to nobody else, and the user has no peer.
LEMMA UserGoneRefines ==
  ASSUME Serial, SerialInv, Typed', NEW v \in Users, DeleteUser(v) \/ UiDeleteUser(v)
  PROVE  Kept /\ Refines
<1>1. /\ AtOnce("delete_user") /\ account' = [account EXCEPT ![v] = "gone"]
      /\ member' = {m \in member : m[1] # v}
      /\ policy' = [p \in Policies |-> Orphaned(policy[p], "user", v)]
      /\ UNCHANGED <<group, resource, live, allowed, owed>>
  BY DEF DeleteUser, UiDeleteUser, UserGone
<1>2. v # NoId /\ NoId \notin Users
  BY IdAssumption
<1>3. \A p \in Policies :
        /\ policy'[p].state = policy[p].state /\ policy'[p].group = policy[p].group
        /\ policy'[p].res = policy[p].res /\ policy'[p].effect = policy[p].effect
        /\ policy'[p].user = IF policy[p].user = v THEN NoId ELSE policy[p].user
  BY <1>1 DEF Orphaned, SerialInv, Typed, TypeOK, PolicyRow
<1>4. v \notin live
  BY DEF DeleteUser, UiDeleteUser, SerialInv, Keys
<1>5. \A a \in Pool : holder'[a] = IF holder[a] = v THEN NoId ELSE holder[a]
  BY DEF DeleteUser, UiDeleteUser
<1>6. Keys'
  <2>1. \A u : u # v /\ u \in Users => account'[u] = account[u]
    BY <1>1 DEF SerialInv, Typed, TypeOK
  <2>2. \A p \in Policies : policy[p].user # NoId => policy[p].user \in Users
    BY DEF SerialInv, Typed, TypeOK, PolicyRow
  <2>3. \A a \in Pool : holder[a] # NoId => holder[a] \in Users
    BY DEF SerialInv, Typed, TypeOK
  <2>4. \A u \in live' : \E a \in Pool : holder'[a] = u
    BY <1>1, <1>4, <1>5 DEF SerialInv, Keys
  <2>5. \A a \in Pool : holder'[a] # NoId => account'[holder'[a]] = "on"
    BY <1>5, <2>1, <2>3 DEF SerialInv, Keys
  <2>6. \A p \in Policies :
          policy'[p].state \in Stored =>
            /\ policy'[p].user # NoId => account'[policy'[p].user] = "on"
            /\ policy'[p].group # NoId => group'[policy'[p].group] \in Stored
    BY <1>1, <1>3, <2>1, <2>2 DEF SerialInv, Keys
  <2> QED
    BY <2>4, <2>5, <2>6 DEF Keys
<1>7. ASSUME NEW u \in live
      PROVE  Entitled(u)' = Entitled(u)
  <2>1. u \in Users /\ u # v
    BY <1>4 DEF SerialInv, Typed, TypeOK
  <2>2. \A k : <<u, k>> \in member' <=> <<u, k>> \in member
    BY <1>1, <2>1
  <2>3. \A p \in Policies : Applies(u, p)' <=> Applies(u, p)
    BY <1>2, <1>3, <2>1, <2>2 DEF Applies, Affected
  <2> QED
    BY <1>1, <1>3, <2>1, <2>3, SameEntitled DEF SerialInv, Typed
<1> QED
  BY <1>1, <1>6, <1>7, AtOnceRefines

\* The handlers of users and of their peers.
LEMMA UserHandlerRefines ==
  ASSUME Serial, SerialInv, Typed', NEW c \in Clients, UserHandler(c)
  PROVE  Kept /\ Refines
<1>1. ASSUME NEW u \in Users, CreateUser(u)
      PROVE  Kept /\ Refines
  <2>1. /\ AtOnce("create_user") /\ account[u] = "none"
        /\ account' = [account EXCEPT ![u] = "on"]
        /\ UNCHANGED <<group, member, policy, resource, live, allowed, holder, owed>>
    BY <1>1 DEF CreateUser
  <2>2. \A v \in Users : account[v] = "on" => account'[v] = "on"
    BY <2>1 DEF SerialInv, Typed, TypeOK
  <2>3. /\ \A p \in Policies : policy[p].user # NoId => policy[p].user \in Users
        /\ \A a \in Pool : holder[a] # NoId => holder[a] \in Users
    BY DEF SerialInv, Typed, TypeOK, PolicyRow
  <2>4. Keys'
    BY <2>1, <2>2, <2>3 DEF SerialInv, Keys
  <2>5. \A v \in live : Entitled(v)' = Entitled(v)
    BY <2>1 DEF Entitled, GroupsOf
  <2> QED
    BY <2>1, <2>4, <2>5, AtOnceRefines
<1>2. ASSUME NEW u \in Users, DropPeer(u)
      PROVE  Kept /\ Refines
  <2>1. /\ AtOnce("drop_peer") /\ live' = live \ {u}
        /\ UNCHANGED <<account, group, member, policy, resource, allowed, holder, owed>>
    BY <1>2 DEF DropPeer
  <2>2. OneOpen' /\ AllGood' /\ Behind = {} /\ Behind' = {}
    BY <2>1, AtOnceAlone
  <2>3. Keys'
    BY <2>1 DEF SerialInv, Keys
  <2>4. [v \in Users |-> Entitled(v)]' = [v \in Users |-> Entitled(v)]
    BY <2>1 DEF Entitled, GroupsOf
  <2>5. Contract!Drop(u)
    BY <2>1, <2>2, <2>4 DEF Contract!Drop
  <2> QED
    BY <2>2, <2>3, <2>5 DEF Kept, Refines, Contract!Next
<1>3. ASSUME NEW u \in Users, NEW gs \in SUBSET Groups, EditUser(c, u, gs)
      PROVE  Kept /\ Refines
  BY <1>3, EditUserOpens, OpensRefines DEF SerialInv, Typed
<1>4. ASSUME NEW u \in Users, Enroll(c, u)
      PROVE  Kept /\ Refines
  BY <1>4, EnrollOpens, OpensRefines DEF SerialInv, Typed
<1> QED
  BY <1>1, <1>2, <1>3, <1>4, UserGoneRefines DEF UserHandler

(***************************************************************************)
(* All steps.                                                              *)
(***************************************************************************)

\* The steps of an open request.
LEMMA StepRefines ==
  ASSUME SerialInv, Typed', NEW c \in Clients, Step(c)
  PROVE  Kept /\ Refines
<1>1. CASE CommitFails(c) \/ RegistrationFails(c)
  <2>1. Fail(c) /\ req[c].pc # "idle"
    BY <1>1 DEF CommitFails, RegistrationFails
  <2> QED
    BY <2>1, FailRefines
<1> QED
  BY <1>1, CommitPolicyRefines, CommitResourceRefines, CommitUserRefines, AffectRefines,
     TakeRefines, PassOverRefines, ComputeRefines, StoreRefines, InsertRefines,
     NothingToRegisterRefines, FinishRefines DEF Step

\* Every step of the program.
LEMMA NextRefines ==
  ASSUME Serial, SerialInv, [Next]_vars
  PROVE  Typed' /\ Kept /\ Refines
<1>1. Typed'
  BY NextType DEF SerialInv
<1>2. ASSUME NEW c \in Clients, Crash(c)
      PROVE  Kept /\ Refines
  BY <1>2, FailRefines DEF Crash
<1>3. ASSUME NEW c \in Clients, PolicyHandler(c)
      PROVE  Kept /\ Refines
  BY <1>3, PolicyHandlerOpens, OpensRefines DEF SerialInv, Typed
<1>4. ASSUME NEW c \in Clients, ResourceHandler(c)
      PROVE  Kept /\ Refines
  BY <1>1, <1>4, ResourceHandlerOpens, OpensRefines, PermanentlyDeleteRefines
     DEF SerialInv, Typed
<1>5. CASE UNCHANGED vars
  <2>1. OneOpen'
    BY <1>5 DEF vars, SerialInv, OneOpen
  <2>2. \A c \in Clients : Good(req[c])' /\ Due(req[c])' = Due(req[c])
    BY <1>5 DEF vars, SerialInv, AllGood, Good, Covers, Affected, GroupsOf, Entitled,
                Due, AffectedNow, AffectedByResource
  <2>3. Keys'
    BY <1>5, KeysSame DEF vars, SerialInv
  <2>4. Behind' = Behind
    BY <2>2 DEF Behind
  <2>5. UNCHANGED Contract!vars
    BY <1>5, <2>4, Stutters DEF vars
  <2> QED
    <3>1. Kept
      BY <2>1, <2>2, <2>3 DEF Kept, AllGood
    <3>2. Refines
      BY <2>5 DEF Refines
    <3> QED
      BY <1>1, <3>1, <3>2
<1> QED
  BY <1>1, <1>2, <1>3, <1>4, <1>5, StepRefines, UserHandlerRefines, GroupHandlerRefines
     DEF Next

\* A step of the contract keeps everybody who is not behind in sync.
LEMMA ContractKeepsSync ==
  ASSUME Typed, InSync, Refines
  PROVE  InSync'
<1> DEFINE grant == [u \in Users |-> Entitled(u)]
<1>1. live \subseteq Users /\ allowed \in [Users -> SUBSET Address]
  BY DEF Typed, TypeOK
<1>2. \A u \in live : u \notin Behind \cup owed => allowed[u] = grant[u]
  BY DEF InSync, Contract!InSync
<1>3. CASE Contract!Change
  <2>1. \A u \in live' : u \notin Behind' \cup owed' => allowed'[u] = grant'[u]
    BY <1>2, <1>3 DEF Contract!Change
  <2> QED
    BY <2>1 DEF InSync, Contract!InSync
<1>4. ASSUME NEW u \in Users, Contract!Refresh(u)
      PROVE  InSync'
  <2>1. /\ allowed' = [allowed EXCEPT ![u] = grant[u]] /\ live' = live \cup {u}
        /\ Behind' = Behind \ {u} /\ owed' = owed \ {u} /\ grant' = grant
    BY <1>4 DEF Contract!Refresh
  <2> HIDE DEF grant
  <2>2. \A v \in live' : v \notin Behind' \cup owed' => allowed'[v] = grant'[v]
    BY <1>1, <1>2, <2>1
  <2> QED
    BY <2>2 DEF grant, InSync, Contract!InSync
<1>5. ASSUME NEW u \in Users, Contract!Skip(u) \/ Contract!Drop(u)
      PROVE  InSync'
  <2>1. /\ allowed' = allowed /\ live' \subseteq live /\ u \notin live'
        /\ Behind \subseteq Behind' \cup {u} /\ owed' = owed /\ grant' = grant
    BY <1>5 DEF Contract!Skip, Contract!Drop
  <2> HIDE DEF grant
  <2>2. \A v \in live' : v \notin Behind' \cup owed' => allowed'[v] = grant'[v]
    BY <1>2, <2>1
  <2> QED
    BY <2>2 DEF grant, InSync, Contract!InSync
<1>6. CASE Contract!Abandon
  <2>1. /\ allowed' = allowed /\ live' = live /\ grant' = grant
        /\ Behind \cup owed \subseteq Behind' \cup owed'
    BY <1>6 DEF Contract!Abandon
  <2> HIDE DEF grant
  <2>2. \A v \in live' : v \notin Behind' \cup owed' => allowed'[v] = grant'[v]
    BY <1>2, <2>1
  <2> QED
    BY <2>2 DEF grant, InSync, Contract!InSync
<1>7. CASE UNCHANGED Contract!vars
  <2>1. /\ allowed' = allowed /\ live' = live /\ grant' = grant
        /\ Behind' = Behind /\ owed' = owed
    BY <1>7 DEF Contract!vars
  <2> HIDE DEF grant
  <2>2. \A v \in live' : v \notin Behind' \cup owed' => allowed'[v] = grant'[v]
    BY <1>2, <2>1
  <2> QED
    BY <2>2 DEF grant, InSync, Contract!InSync
<1> QED
  BY <1>3, <1>4, <1>5, <1>6, <1>7 DEF Refines, Contract!Next

\* The tables at the start satisfy the invariant.
LEMMA InitSerial == Init => SerialInv
<1> SUFFICES ASSUME Init PROVE SerialInv
  OBVIOUS
<1>1. Typed
  BY InitType
<1>2. \A c \in Clients : req[c] = NoRequest
  BY DEF Init
<1>3. OneOpen /\ AllGood
  BY <1>2, IdleIsGood DEF OneOpen, AllGood
<1>4. Keys
  BY DataAssumption DEF Init, Keys
<1>5. InSync
  BY <1>1 DEF Init, InSync, Contract!InSync, Typed, TypeOK
<1> QED
  BY <1>1, <1>3, <1>4, <1>5 DEF SerialInv

\* Every step keeps the invariant.
LEMMA NextSerial ==
  ASSUME Serial
  PROVE  SerialInv /\ [Next]_vars => SerialInv'
<1> SUFFICES ASSUME SerialInv, [Next]_vars PROVE SerialInv'
  OBVIOUS
<1>1. Typed' /\ Kept /\ Refines
  BY NextRefines
<1>2. InSync'
  BY <1>1, ContractKeepsSync DEF SerialInv
<1> QED
  BY <1>1, <1>2 DEF Kept, SerialInv

\* While requests do not overlap, a live peer whose owner nobody has yet to
\* refresh, and who is not owed a refresh, has exactly the routes the policies
\* give: resource_service.py, policy_service.py and the handlers find everybody
\* a change of theirs affects.
THEOREM PeersStayInSync ==
  ASSUME Serial
  PROVE  Spec => []InSync
<1>1. SerialInv => InSync
  BY DEF SerialInv
<1> QED
  BY <1>1, InitSerial, NextSerial, PTL DEF Spec

\* While requests do not overlap, the program keeps the contract: it starts in
\* one of its initial states and every step is one of its steps or a stutter.
\* Served, the liveness half of KeepsContract, is checked by TLC.
THEOREM ImplementsContract ==
  ASSUME Serial
  PROVE  Spec => Contract!Init /\ [][Contract!Next]_Contract!vars
<1>1. SerialInv => Contract!Init
  <2> SUFFICES ASSUME SerialInv PROVE Contract!Init
    OBVIOUS
  <2>1. [u \in Users |-> Entitled(u)] \in [Users -> SUBSET Address]
    BY EntitledType DEF SerialInv, Typed
  <2>2. Contract!TypeOK
    BY <2>1, BehindType DEF SerialInv, Typed, TypeOK, Contract!TypeOK
  <2> QED
    BY <2>2 DEF SerialInv, InSync, Contract!Init
<1>2. SerialInv /\ [Next]_vars => [Contract!Next]_Contract!vars
  BY NextRefines DEF Refines
<1> QED
  BY <1>1, <1>2, InitSerial, NextSerial, PTL DEF Spec

(***************************************************************************)
(* Who is left without a peer.                                             *)
(***************************************************************************)

\* The user is still on the list, is owed, has a peer or has nothing to route.
Settled(c, u) ==
  \/ u \in Due(req[c])' \cup owed' \cup live'
  \/ Entitled(u)' = {}

\* A step of the request of c settles the users before it.
LEMMA StepSettles ==
  ASSUME SerialInv, NEW c \in Clients, NEW u \in Due(req[c]), req[c].registers,
         Step(c) \/ Crash(c)
  PROVE  Settled(c, u)
<1>1. /\ req[c] \in Request /\ RequestOk(req[c]) /\ Good(req[c])
      /\ req \in [Clients -> Request]
  BY HeldRequest DEF SerialInv, AllGood, Typed, Shape
<1>2. PICK r \in Request : r = req[c]
  BY <1>1
<1>3. u \in Due(r) /\ r.pc # "commit" /\ r.kind # "peer"
  BY <1>2 DEF Due
<1>4. CASE Fail(c)
  BY <1>4 DEF Fail, Settled
<1>5. CASE Affect(c)
  <2>1. PICK more \in SUBSET Users : more = AffectedNow(r)
    BY AffectedType DEF AffectedNow, AffectedByResource
  <2>2. [r EXCEPT !.todo = r.todo \cup more, !.pc = "take"] \in Request
    BY DEF Request, Pc
  <2>3. PICK q \in Request : q = [r EXCEPT !.todo = r.todo \cup more, !.pc = "take"]
    BY <2>2
  <2>4. q.pc = "take" /\ q.todo = r.todo \cup more /\ q.kind = r.kind
    BY <2>3 DEF Request
  <2>5. u \in Due(q)'
    BY <1>2, <1>3, <1>5, <2>1, <2>4 DEF Affect, Due
  <2>6. req'[c] = q
    BY <1>1, <1>2, <1>5, <2>1, <2>3 DEF Affect
  <2> QED
    BY <2>5, <2>6 DEF Settled
<1>6. ASSUME NEW v \in Users, Take(c, v) \/ PassOver(c, v)
      PROVE  Settled(c, u)
  <2>1. r.pc = "take" /\ Take(c, v)
    BY <1>2, <1>6 DEF Take, PassOver
  <2>2. PICK pc \in Pc \ {"idle", "commit", "affect"} :
          pc = IF v \in live THEN "compute" ELSE "register"
    BY DEF Pc
  <2>3. PICK loaded \in SUBSET Address : loaded = allowed[v]
    BY DEF SerialInv, Typed, TypeOK
  <2>4. [r EXCEPT !.pc = pc, !.user = v, !.loaded = loaded] \in Request
    BY DEF Request
  <2>5. PICK q \in Request : q = [r EXCEPT !.pc = pc, !.user = v, !.loaded = loaded]
    BY <2>4
  <2>6. q.pc = pc /\ q.todo = r.todo /\ q.kind = r.kind
    BY <2>5 DEF Request
  <2>7. u \in Due(q)'
    BY <1>3, <2>1, <2>2, <2>6 DEF Due
  <2>8. req'[c] = q
    BY <1>1, <1>2, <2>1, <2>2, <2>3, <2>5 DEF Take
  <2> QED
    BY <2>7, <2>8 DEF Settled
<1>7. CASE Compute(c) \/ Register(c)
  <2>1. PICK routes \in SUBSET Address : routes = Seen(r, r.user)
    BY <1>1, <1>2, SeenType DEF SerialInv, Typed
  <2>2. PICK pc \in Pc \ {"idle", "commit", "affect"} :
          pc = IF r.pc = "compute" THEN "store" ELSE "insert"
    BY DEF Pc
  <2>3. [r EXCEPT !.pc = pc, !.routes = routes] \in Request
    BY DEF Request
  <2>4. PICK q \in Request : q = [r EXCEPT !.pc = pc, !.routes = routes]
    BY <2>3
  <2>5. q.pc = pc /\ q.todo = r.todo /\ q.kind = r.kind
    BY <2>4 DEF Request
  <2>6. r.pc \in {"compute", "register"}
    BY <1>2, <1>7 DEF Compute, Register
  <2>7. u \in Due(q)'
    BY <1>3, <2>2, <2>5, <2>6 DEF Due
  <2>8. req'[c] = q
    BY <1>1, <1>2, <1>7, <2>1, <2>2, <2>4 DEF Compute, Register
  <2> QED
    BY <2>7, <2>8 DEF Settled
<1>8. ASSUME req' = [req EXCEPT ![c] = UserDone(r)],
             r.pc \in {"store", "register", "insert"}, u # r.user
      PROVE  Settled(c, u)
  <2>1. PICK q \in Request : q = UserDone(r)
    BY <1>1, <1>2, UserDoneType
  <2>2. q = [r EXCEPT !.pc = "take", !.todo = r.todo \ {r.user}]
    BY <2>1 DEF UserDone
  <2>3. q.pc = "take" /\ q.todo = r.todo \ {r.user} /\ q.kind = r.kind
    BY <2>2 DEF Request
  <2>4. u \in Due(q)'
    BY <1>3, <1>8, <2>3 DEF Due
  <2>5. req'[c] = q
    BY <1>1, <1>8, <2>1
  <2> QED
    BY <2>4, <2>5 DEF Settled
<1>9. CASE Store(c)
  <2>1. u = r.user => u \in live'
    BY <1>1, <1>2, <1>9 DEF Store, Good
  <2> QED
    BY <1>2, <1>8, <1>9, <2>1 DEF Store, Settled
<1>10. ASSUME NEW a \in Pool, Insert(c, a)
       PROVE  Settled(c, u)
  BY <1>2, <1>8, <1>10 DEF Insert, Settled
<1>11. CASE NothingToRegister(c)
  <2>1. account[r.user] = "on" /\ Seen(r, r.user) = {} /\ r.pc = "register"
    BY <1>2, <1>11 DEF NothingToRegister
  <2>2. Entitled(r.user) = {}
    BY <1>1, <1>2, <2>1, SeenIsEntitled DEF SerialInv, Typed
  <2>3. Entitled(r.user)' = Entitled(r.user)
    BY <1>2, <1>11 DEF NothingToRegister, Entitled, GroupsOf
  <2> QED
    BY <1>2, <1>8, <1>11, <2>2, <2>3 DEF NothingToRegister, Settled
<1>12. CASE Finish(c)
  BY <1>2, <1>3, <1>12 DEF Finish, Due
<1>13. ~CommitPolicy(c) /\ ~CommitResource(c) /\ ~CommitUser(c)
  BY <1>2, <1>3 DEF CommitPolicy, CommitResource, CommitUser
<1> QED
  BY <1>4, <1>5, <1>6, <1>7, <1>9, <1>10, <1>11, <1>12, <1>13
     DEF Step, Crash, CommitFails, RegistrationFails

\* So does any step while requests do not overlap.
LEMMA NextSettles ==
  ASSUME Serial, SerialInv, Next, NEW c \in Clients, NEW u \in Due(req[c]),
         req[c].registers
  PROVE  Settled(c, u)
<1>1. req[c] # NoRequest
  BY IdleIsGood
<1>2. ASSUME NEW h
      PROVE  ~MayStart(h)
  BY <1>1, StartsAlone
<1>3. ASSUME NEW d \in Clients, Step(d) \/ Crash(d)
      PROVE  d = c
  <2>1. req[d].pc # "idle"
    BY <1>3 DEF Step, Crash, CommitPolicy, CommitResource, CommitUser, CommitFails, Affect,
                Take, PassOver, Compute, Store, Register, NothingToRegister, Insert,
                RegistrationFails, Finish
  <2>2. NoRequest.pc = "idle"
    BY DEF NoRequest
  <2> QED
    BY <1>1, <2>1, <2>2 DEF SerialInv, OneOpen
<1>4. ASSUME NEW d \in Clients, Opens(d)
      PROVE  FALSE
  BY <1>2, <1>4 DEF Opens, Start
<1>5. ASSUME NEW d \in Clients
      PROVE  ~PolicyHandler(d)
  BY <1>4, <1>5, PolicyHandlerOpens DEF SerialInv, Typed
<1>6. ASSUME NEW d \in Clients
      PROVE  ~ResourceHandler(d)
  BY <1>2, <1>4, <1>6, ResourceHandlerOpens
     DEF SerialInv, Typed, PermanentlyDeleteResource, AtOnce
<1>7. ASSUME NEW d \in Clients
      PROVE  ~UserHandler(d)
  BY <1>2 DEF UserHandler, CreateUser, EditUser, DeleteUser, UiDeleteUser, UserGone,
              DropPeer, Enroll, AtOnce, Start
<1>8. ~GroupHandler
  BY <1>2 DEF GroupHandler, CreateGroup, UiCreateGroup, EditGroup, EnableGroup,
              DisableGroup, AddMember, RemoveMember, DeleteGroup, UiDeleteGroup,
              GroupGone, AtOnce
<1>9. Step(c) \/ Crash(c)
  BY <1>3, <1>5, <1>6, <1>7, <1>8 DEF Next
<1> QED
  BY <1>9, StepSettles

\* While requests do not overlap, a change of a policy in the admin UI leaves
\* nobody it affects without a peer who has something to route: the comment in
\* recalculate_users_after_policy_change, with the pool and the database able
\* to refuse.
THEOREM EntitledUsersGetPeers ==
  ASSUME Serial
  PROVE  Spec => EntitledGetsPeer
<1> DEFINE Settles ==
      \A c \in Clients, u \in Users :
        req[c].kind = "policy" /\ req[c].registers /\ u \in Due(req[c]) =>
          \/ u \in Due(req[c])' \cup owed' \cup live'
          \/ Entitled(u)' = {}
<1>1. SerialInv /\ [Next]_vars => [Settles]_vars
  BY NextSettles DEF Settled
<1>2. Spec => [][Settles]_vars
  BY <1>1, InitSerial, NextSerial, PTL DEF Spec
<1> QED
  BY <1>2 DEF EntitledGetsPeer

===============================================================================
