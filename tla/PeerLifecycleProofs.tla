------------------------- MODULE PeerLifecycleProofs -------------------------
(***************************************************************************)
(* Theorems about PeerLifecycle for every value of its constants.          *)
(***************************************************************************)
EXTENDS PeerLifecycle, FiniteSetTheorems, TLAPS

-----------------------------------------------------------------------------
(* Types of the values the actions are built from.                         *)

\* A process between two requests holds a request record too.
LEMMA IdleType == Idle \in Request
BY DEF Idle, Request, NoRow, Row, Status, PC

\* So does one that goes on with a session of its own.
LEMMA ResumeType ==
  ASSUME NEW op \in AllOps \cup {"none", "revoke"}, NEW pc \in PC,
         NEW S \in SUBSET Peers, NEW k \in Keys \cup {NoKey}
  PROVE  Resume(op, pc, S, k) \in Request
BY IdleType DEF Resume, Idle, Request, NoRow, Row, Status

\* So does one that has loaded rows.
LEMMA LoadedType ==
  ASSUME TypeOK, NEW op \in AllOps \cup {"none", "revoke"},
         NEW S \in SUBSET Peers, NEW k \in Keys \cup {NoKey}
  PROVE  Loaded(op, S, k) \in Request
<1>1. [q \in Peers |-> IF q \in S THEN row[q] ELSE NoRow] \in [Peers -> Row]
  BY DEF TypeOK, NoRow, Row, Status
<1>2. "loaded" \in PC
  BY DEF PC
<1> QED
  BY <1>1, <1>2, IdleType DEF Loaded, Idle, Request

\* What the flush writes is a row.
LEMMA FlushType ==
  ASSUME NEW cur \in Row, NEW old \in Row, NEW new \in Row
  PROVE  Flush(cur, old, new) \in Row
BY DEF Flush, Column, Row

\* What an operation makes of a row is a row.
LEMMA TargetType ==
  ASSUME NEW r \in Row, NEW k \in Keys \cup {NoKey}, NEW ok \in BOOLEAN, NEW op
  PROVE  Target(op, r, k, ok) \in Row
BY DEF Target, Recalculated, Provisioned, Revoked, Retried, RemoveRequested,
       Patched, Regenerated, Row, Status

\* A command of wg-gateway leaves a table of keys and addresses.
LEMMA ExecuteType ==
  ASSUME TypeOK, NEW m \in Message
  PROVE  Execute(m) \in [Keys -> Hosts \cup {NoIp}]
BY DEF TypeOK, Execute, Message

\* The call a session makes is a message.
LEMMA CallType ==
  ASSUME TypeOK, NEW s \in Procs, NEW p \in Peers
  PROVE  Call(s, p) \in Message
BY DEF TypeOK, Call, Message, Request, Row

-----------------------------------------------------------------------------
(* Every step keeps the types.                                             *)

\* The empty tables are well typed.
LEMMA InitType == Init => TypeOK
<1> SUFFICES ASSUME Init PROVE TypeOK
  OBVIOUS
<1>1. row \in [Peers -> Row]
  BY DEF Init, NoRow, Row, Status
<1>2. req \in [Procs -> Request]
  BY IdleType DEF Init
<1> QED
  BY <1>1, <1>2 DEF Init, TypeOK

\* Loading rows keeps the types.
LEMMA LoadTypeStep ==
  ASSUME TypeOK, NEW s \in Procs, NEW op \in AllOps,
         NEW S \in SUBSET Peers, NEW k \in Keys \cup {NoKey}, Load(s, op, S, k)
  PROVE  TypeOK'
<1>1. Loaded(op, S, k) \in Request
  BY LoadedType
<1> QED
  BY <1>1 DEF Load, TypeOK

\* Beginning a registration keeps the types.
LEMMA BeginTypeStep ==
  ASSUME TypeOK, NEW s \in Procs, NEW op \in AllOps, NEW u \in Users,
         NEW k \in Keys, Begin(s, op, u, k)
  PROVE  TypeOK'
<1>1. [Idle EXCEPT !.op = op, !.pc = "allocate", !.user = u, !.key = k] \in Request
  BY IdleType DEF Idle, Request, PC
<1> QED
  BY <1>1 DEF Begin, TypeOK

\* So does every first step of a request.
LEMMA StartTypeStep ==
  ASSUME TypeOK, NEW s \in Clients, Start(s)
  PROVE  TypeOK'
<1>0. s \in Procs
  BY DEF Procs
<1>1. ASSUME NEW p \in Peers, Recalculate(s, p) PROVE TypeOK'
  BY <1>0, <1>1, LoadTypeStep DEF Recalculate, AllOps
<1>2. ASSUME NEW p \in Peers, Provision(s, p) PROVE TypeOK'
  BY <1>0, <1>2, LoadTypeStep DEF Provision, AllOps
<1>3. ASSUME NEW p \in Peers, Retry(s, p) PROVE TypeOK'
  BY <1>0, <1>3, LoadTypeStep DEF Retry, AllOps
<1>4. ASSUME NEW p \in Peers, Remove(s, p) PROVE TypeOK'
  BY <1>0, <1>4, LoadTypeStep DEF Remove, AllOps
<1>5. ASSUME NEW p \in Peers, DebugProvision(s, p) PROVE TypeOK'
  BY <1>0, <1>5, LoadTypeStep DEF DebugProvision, AllOps
<1>6. ASSUME NEW p \in Peers, Patch(s, p) PROVE TypeOK'
  BY <1>0, <1>6, LoadTypeStep DEF Patch, AllOps
<1>7. ASSUME NEW p \in Peers, Regenerate(s, p) PROVE TypeOK'
  BY <1>0, <1>7, LoadTypeStep DEF Regenerate, AllOps, FreshKeys
<1>8. ASSUME NEW p \in Peers, RegisterKnown(s, p) PROVE TypeOK'
  BY <1>0, <1>8, LoadTypeStep DEF RegisterKnown, AllOps
<1>9. ASSUME NEW u \in Users, RecalculateUser(s, u) PROVE TypeOK'
  BY <1>0, <1>9, LoadTypeStep DEF RecalculateUser, AllOps
<1>10. ASSUME NEW u \in Users, DeleteUser(s, u) PROVE TypeOK'
  <2> DEFINE S == {p \in Peers : Owner[p] = u /\ Exists(p)}
  <2>1. Loaded("delete_user", S, NoKey) \in Request
    BY LoadedType DEF AllOps
  <2>2. [Loaded("delete_user", S, NoKey) EXCEPT !.user = u] \in Request
    BY <2>1 DEF Request
  <2> QED
    BY <1>0, <1>10, <2>2 DEF DeleteUser, TypeOK
<1>11. ASSUME NEW u \in Users, RegisterNew(s, u) PROVE TypeOK'
  BY <1>0, <1>11, BeginTypeStep DEF RegisterNew, AllOps
<1>12. ASSUME NEW u \in Users, Create(s, u) PROVE TypeOK'
  BY <1>0, <1>12, BeginTypeStep DEF Create, AllOps, FreshKeys
<1>13. ASSUME NEW u \in Users, Enroll(s, u) PROVE TypeOK'
  BY <1>0, <1>13, BeginTypeStep DEF Enroll, AllOps, FreshKeys
<1> QED
  BY <1>1, <1>2, <1>3, <1>4, <1>5, <1>6, <1>7, <1>8, <1>9, <1>10, <1>11,
     <1>12, <1>13 DEF Start

\* So does a commit, whether or not it fails.
LEMMA CommitTypeStep ==
  ASSUME TypeOK, NEW s \in Procs, Commit(s)
  PROVE  TypeOK'
<1>1. \A p \in Peers : Committed(s, p) \in Row
  <2> SUFFICES ASSUME NEW p \in Peers PROVE Committed(s, p) \in Row
    OBVIOUS
  <2>1. row[p] \in Row /\ req[s].obj[p] \in Row /\ req[s].key \in Keys \cup {NoKey}
    BY DEF TypeOK, Request
  <2>2. NewRow(s, p) \in Row
    BY <2>1, TargetType DEF NewRow
  <2> QED
    BY <2>1, <2>2, FlushType DEF Committed
<1>2. CASE CommitFails(s)
  BY <1>2, IdleType DEF Commit, TypeOK
<1>3. CASE ~CommitFails(s)
  <2>1. row' \in [Peers -> Row]
    BY <1>1, <1>3 DEF Commit
  <2>2. held' \subseteq Peers \X (Keys \cup {NoKey})
    <3>1. req[s].peers \subseteq Peers
      BY DEF TypeOK, Request
    <3>2. \A p \in Peers : row'[p].key \in Keys \cup {NoKey}
      BY <2>1 DEF Row
    <3> QED
      BY <1>3, <3>1, <3>2 DEF Commit, TypeOK
  <2>3. Continuation(s) \in Request
    <3>1. req[s].peers \in SUBSET Peers
      BY DEF TypeOK, Request
    <3>2. Resume("recalculate", "reload", req[s].peers, NoKey) \in Request
      BY <3>1, ResumeType DEF AllOps, PC
    <3>3. Resume("provision", "reload", req[s].peers, NoKey) \in Request
      BY <3>1, ResumeType DEF AllOps, PC
    <3> QED
      BY <3>2, <3>3, IdleType DEF Continuation
  <2> QED
    BY <1>3, <2>1, <2>2, <2>3 DEF Commit, TypeOK
<1> QED
  BY <1>2, <1>3

\* So does every later step of a session.
LEMMA ContinueTypeStep ==
  ASSUME TypeOK, NEW s \in Procs, Continue(s)
  PROVE  TypeOK'
<1>0. req[s] \in Request
  BY DEF TypeOK
<1>1. CASE AllocateVpnIp(s)
  <2>1. \A ip \in Hosts : [req[s] EXCEPT !.pc = "insert", !.ip = ip] \in Request
    BY <1>0 DEF Request, PC
  <2>2. req' \in [Procs -> Request]
    BY <1>1, <2>1, IdleType DEF AllocateVpnIp, TypeOK
  <2> QED
    BY <1>1, <2>2 DEF AllocateVpnIp, TypeOK
<1>2. CASE Insert(s)
  <2>1. PICK p \in Peers :
          /\ row' = [row EXCEPT ![p] = [status |-> "pending", key |-> req[s].key,
                                        priv |-> NoKey, ip |-> req[s].ip]]
          /\ held' = held \cup {<<p, req[s].key>>}
          /\ req' = [req EXCEPT ![s] =
                       IF req[s].op = "register" THEN Idle
                       ELSE Resume(req[s].op, "private", {p}, req[s].key)]
    BY <1>2 DEF Insert
  <2>2. Resume(req[s].op, "private", {p}, req[s].key) \in Request
    <3>1. /\ req[s].op \in AllOps \cup {"none", "revoke"}
          /\ req[s].key \in Keys \cup {NoKey}
      BY <1>0 DEF Request
    <3>2. "private" \in PC
      BY DEF PC
    <3> QED
      BY <3>1, <3>2, ResumeType
  <2>3. row' \in [Peers -> Row]
    BY <1>0, <2>1 DEF TypeOK, Row, Status, Request
  <2>4. req' \in [Procs -> Request]
    BY <2>1, <2>2, IdleType DEF TypeOK
  <2>5. held' \subseteq Peers \X (Keys \cup {NoKey})
    BY <1>0, <2>1 DEF TypeOK, Request
  <2> QED
    BY <1>2, <2>3, <2>4, <2>5 DEF Insert, TypeOK
<1>3. CASE InsertFails(s)
  BY <1>3, IdleType DEF InsertFails, TypeOK
<1>4. CASE StorePrivateKey(s)
  <2>1. PICK p \in req[s].peers :
          IF Exists(p)
          THEN /\ row' = [row EXCEPT ![p] = [@ EXCEPT !.priv = req[s].key]]
               /\ req' = [req EXCEPT ![s] =
                            IF req[s].op = "create" THEN Idle
                            ELSE Resume("enroll", "reload", {p}, NoKey)]
          ELSE row' = row /\ req' = [req EXCEPT ![s] = Idle]
    BY <1>4 DEF StorePrivateKey
  <2>2. p \in Peers
    BY <1>0 DEF Request
  <2>3. Resume("enroll", "reload", {p}, NoKey) \in Request
    BY <2>2, ResumeType DEF AllOps, PC
  <2>4. row' \in [Peers -> Row]
    <3>1. row[p] \in Row /\ req[s].key \in Keys \cup {NoKey}
      BY <1>0, <2>2 DEF TypeOK, Request
    <3>2. \A r \in Row, k \in Keys \cup {NoKey} : [r EXCEPT !.priv = k] \in Row
      BY DEF Row
    <3>3. [row[p] EXCEPT !.priv = req[s].key] \in Row
      BY <3>1, <3>2
    <3> QED
      BY <2>1, <2>2, <3>3 DEF TypeOK
  <2>5. req' \in [Procs -> Request]
    BY <2>1, <2>3, IdleType DEF TypeOK
  <2> QED
    BY <1>4, <2>4, <2>5 DEF StorePrivateKey, TypeOK
<1>5. CASE Reload(s)
  <2>1. Loaded(req[s].op, req[s].peers, NoKey) \in Request
    BY <1>0, LoadedType DEF Request
  <2> QED
    BY <1>5, <2>1, IdleType DEF Reload, TypeOK
<1>6. CASE Commit(s)
  BY <1>6, CommitTypeStep
<1>7. CASE CommitDeleteUser(s)
  <2>1. row' \in [Peers -> Row]
    BY <1>7 DEF CommitDeleteUser, TypeOK, Row, Status
  <2> QED
    BY <1>7, <2>1, IdleType DEF CommitDeleteUser, TypeOK
<1>8. ASSUME NEW p \in Peers, NEW pc \in {"ok", "failed"}, Answered(s, pc)
      PROVE  req' \in [Procs -> Request]
  BY <1>0, <1>8, IdleType DEF Answered, TypeOK, Request, PC
<1>9. ASSUME NEW p \in Peers, GatewayOk(s, p) PROVE TypeOK'
  BY <1>8, <1>9, CallType, ExecuteType DEF GatewayOk, TypeOK
<1>10. ASSUME NEW p \in Peers, GatewayRefuses(s, p) PROVE TypeOK'
  BY <1>8, <1>10 DEF GatewayRefuses, TypeOK
<1>11. ASSUME NEW p \in Peers, AnswerLost(s, p) PROVE TypeOK'
  BY <1>8, <1>11, CallType, ExecuteType DEF AnswerLost, TypeOK
<1>12. ASSUME NEW p \in Peers, CallDelayed(s, p) PROVE TypeOK'
  BY <1>8, <1>12, CallType DEF CallDelayed, TypeOK
<1> QED
  BY <1>1, <1>2, <1>3, <1>4, <1>5, <1>6, <1>7, <1>9, <1>10, <1>11, <1>12 DEF Continue

\* So do the worker, the script, late calls, crashes and reboots.
LEMMA BackgroundTypeStep ==
  ASSUME TypeOK,
         \/ DelayedCall \/ WorkerList \/ AgentList
         \/ \E p \in Peers : WorkerTake(p) \/ AgentUpdate(p)
         \/ \E s \in Procs : Crash(s)
         \/ Reboot
  PROVE  TypeOK'
<1>1. CASE DelayedCall
  BY <1>1, ExecuteType DEF DelayedCall, TypeOK
<1>2. CASE WorkerList
  BY <1>2 DEF WorkerList, NextPhase, TypeOK
<1>3. CASE AgentList
  <2> DEFINE S == {p \in Peers : row[p].status = "pending_revoke"}
  <2>1. Loaded("agent", S, NoKey) \in Request
    BY LoadedType DEF AllOps
  <2> QED
    BY <1>3, <2>1 DEF AgentList, TypeOK
<1>4. ASSUME NEW p \in Peers, WorkerTake(p) PROVE TypeOK'
  <2> DEFINE op == IF worker.phase = "pending" THEN "provision" ELSE "revoke"
  <2>1. Loaded(op, {p}, NoKey) \in Request
    BY LoadedType DEF AllOps
  <2> QED
    BY <1>4, <2>1 DEF WorkerTake, TypeOK
<1>5. ASSUME NEW p \in Peers, AgentUpdate(p) PROVE TypeOK'
  <2>1. Agent \in Procs /\ req[Agent] \in Request
    BY DEF Procs, TypeOK
  <2>2. row' \in [Peers -> Row]
    <3>1. \A ok \in BOOLEAN : Revoked(row[p], ok) \in Row
      BY DEF TypeOK, Revoked, Row, Status
    <3> QED
      BY <1>5, <3>1 DEF AgentUpdate, TypeOK
  <2>3. [req[Agent] EXCEPT !.pc = "loaded", !.peers = req[Agent].peers \ {p},
                           !.obj[p] = NoRow] \in Request
    BY <2>1 DEF Request, PC, NoRow, Row, Status
  <2> QED
    BY <1>5, <2>2, <2>3, IdleType DEF AgentUpdate, TypeOK
<1>6. ASSUME NEW s \in Procs, Crash(s) PROVE TypeOK'
  BY <1>6, IdleType DEF Crash, TypeOK
<1>7. CASE Reboot
  BY <1>7 DEF Reboot, TypeOK
<1> QED
  BY <1>1, <1>2, <1>3, <1>4, <1>5, <1>6, <1>7

\* So does every step.
LEMMA NextType == TypeOK /\ [Next]_vars => TypeOK'
<1> SUFFICES ASSUME TypeOK, [Next]_vars PROVE TypeOK'
  OBVIOUS
<1>1. CASE UNCHANGED vars
  BY <1>1 DEF vars, TypeOK
<1>2. CASE Next
  BY <1>2, StartTypeStep, ContinueTypeStep, BackgroundTypeStep DEF Next
<1> QED
  BY <1>1, <1>2

\* Every variable of the model keeps its type, for all values of the constants
\* and whatever sessions, late gateway calls, crashes and reboots do.
THEOREM TypeCorrect == Spec => []TypeOK
BY InitType, NextType, PTL DEF Spec

-----------------------------------------------------------------------------
(***************************************************************************)
(* Identity.  UniqueIdentity is inductive once it is known that an address *)
(* about to be inserted is not the gateway's, and that the operations that *)
(* write a key work on one row: the flush then changes at most one key,    *)
(* which the unique constraint has just checked, and no address.           *)
(***************************************************************************)
WellFormed(r) ==
  /\ r.pc = "insert" => r.ip \in Hosts \ {GatewayIp}
  /\ r.op \in {"patch", "regenerate"} => \A p, q \in r.peers : p = q

IdentityInv ==
  /\ TypeOK
  /\ UniqueIdentity
  /\ \A s \in Procs : WellFormed(req[s])

\* A step that leaves every live row its key and address, and adds none, keeps
\* UniqueIdentity.
LEMMA UniqueIdentityFrame ==
  ASSUME UniqueIdentity,
         \A p \in Peers : Exists(p)' => /\ Exists(p)
                                        /\ row'[p].key = row[p].key
                                        /\ row'[p].ip = row[p].ip
  PROVE  UniqueIdentity'
BY DEF UniqueIdentity

\* What an operation makes of a row: it stays in the table, keeps its address,
\* and keeps its key unless the operation is one of the two that write it.
LEMMA TargetFacts ==
  ASSUME NEW r \in Row, NEW k \in Keys \cup {NoKey}, NEW ok \in BOOLEAN, NEW op
  PROVE  /\ Target(op, r, k, ok).status # r.status => InTable(Target(op, r, k, ok))
         /\ op \notin {"patch", "regenerate"} => Target(op, r, k, ok).key = r.key
BY DEF Target, Recalculated, Provisioned, Revoked, Retried, RemoveRequested,
       Patched, Regenerated, Row, InTable

\* The flush decides column by column and never writes the address.
LEMMA FlushFacts ==
  ASSUME NEW cur \in Row, NEW old \in Row, NEW new \in Row
  PROVE  /\ Flush(cur, old, new).status = Column(cur.status, old.status, new.status)
         /\ Flush(cur, old, new).key = Column(cur.key, old.key, new.key)
         /\ Flush(cur, old, new).priv = Column(cur.priv, old.priv, new.priv)
         /\ Flush(cur, old, new).ip = cur.ip
BY DEF Flush, Row

\* A commit gives no row a key another row has.
LEMMA CommitIdentityStep ==
  ASSUME IdentityInv, NEW s \in Procs, Commit(s)
  PROVE  UniqueIdentity'
<1>1. TypeOK /\ UniqueIdentity
  BY DEF IdentityInv
<1>2. CASE CommitFails(s)
  BY <1>1, <1>2, UniqueIdentityFrame DEF Commit, Exists
<1>3. CASE ~CommitFails(s)
  <2>1. \A p \in Peers : row'[p] = Committed(s, p)
    BY <1>3 DEF Commit
  <2>2. ASSUME NEW p \in Peers, p \in req[s].peers, Exists(p)'
        PROVE  /\ Exists(p)
               /\ row'[p].ip = row[p].ip
               /\ row'[p].key # row[p].key
                    => /\ req[s].op \in {"patch", "regenerate"}
                       /\ ~KeyTaken(row'[p].key, p)
    <3>1. /\ row[p] \in Row /\ req[s].obj[p] \in Row
          /\ req[s].key \in Keys \cup {NoKey}
      BY <1>1 DEF TypeOK, Request
    <3>2. NewRow(s, p) \in Row
      BY <3>1, TargetType DEF NewRow
    <3>3. row'[p] = Flush(row[p], req[s].obj[p], NewRow(s, p))
      BY <2>1, <2>2 DEF Committed
    <3>4. /\ row'[p].status = Column(row[p].status, req[s].obj[p].status,
                                     NewRow(s, p).status)
          /\ row'[p].key = Column(row[p].key, req[s].obj[p].key, NewRow(s, p).key)
          /\ row'[p].ip = row[p].ip
      BY <3>1, <3>2, <3>3, FlushFacts
    <3>5. NewRow(s, p) # req[s].obj[p] => Exists(p)
      BY <1>3, <2>2 DEF CommitFails
    <3>6. Exists(p)
      BY <2>2, <3>4, <3>5 DEF Exists, InTable, Column
    <3>7. NewRow(s, p).key # req[s].obj[p].key
            => /\ ~KeyTaken(NewRow(s, p).key, p)
               /\ req[s].op \in {"patch", "regenerate"}
      <4>1. req[s].op \notin {"patch", "regenerate"}
              => NewRow(s, p).key = req[s].obj[p].key
        BY <3>1 DEF NewRow, Target, Recalculated, Provisioned, Revoked, Retried,
                    RemoveRequested, Row
      <4>2. NewRow(s, p).key # req[s].obj[p].key => ~KeyTaken(NewRow(s, p).key, p)
        BY <1>3, <2>2 DEF CommitFails
      <4> QED
        BY <4>1, <4>2
    <3> QED
      BY <3>4, <3>6, <3>7 DEF Column
  <2>3. ASSUME NEW p \in Peers, p \notin req[s].peers
        PROVE  row'[p] = row[p]
    BY <2>1, <2>3 DEF Committed
  <2>4. CASE req[s].op \in {"patch", "regenerate"}
    <3>1. \A p, q \in req[s].peers : p = q
      BY <2>4 DEF IdentityInv, WellFormed
    <3>2. SUFFICES ASSUME NEW p \in Peers, NEW q \in Peers, Exists(p)'
                   PROVE  /\ row'[p].ip # GatewayIp
                          /\ (p # q /\ Exists(q)') =>
                               row'[p].key # row'[q].key /\ row'[p].ip # row'[q].ip
      BY DEF UniqueIdentity
    <3>3. Exists(p) /\ row'[p].ip = row[p].ip
      BY <2>2, <2>3, <3>2 DEF Exists
    <3>4. row'[p].ip # GatewayIp
      BY <1>1, <3>3 DEF UniqueIdentity
    <3>5. ASSUME p # q, Exists(q)'
          PROVE  row'[p].key # row'[q].key /\ row'[p].ip # row'[q].ip
      <4>1. Exists(q) /\ row'[q].ip = row[q].ip
        BY <2>2, <2>3, <3>5 DEF Exists
      <4>2. row[p].key # row[q].key /\ row[p].ip # row[q].ip
        BY <1>1, <3>3, <3>5, <4>1 DEF UniqueIdentity
      <4>3. row'[p].key # row'[q].key
        <5>1. CASE p \in req[s].peers
          <6>1. row'[q] = row[q]
            BY <2>3, <3>1, <3>5, <5>1
          <6>2. row'[p].key # row[p].key => ~KeyTaken(row'[p].key, p)
            BY <2>2, <3>2, <5>1
          <6> QED
            BY <3>5, <4>1, <4>2, <6>1, <6>2 DEF KeyTaken
        <5>2. CASE q \in req[s].peers
          <6>1. row'[p] = row[p]
            BY <2>3, <3>1, <3>5, <5>2
          <6>2. row'[q].key # row[q].key => ~KeyTaken(row'[q].key, q)
            BY <2>2, <3>5, <5>2
          <6> QED
            BY <3>3, <3>5, <4>2, <6>1, <6>2 DEF KeyTaken
        <5>3. CASE p \notin req[s].peers /\ q \notin req[s].peers
          BY <2>3, <4>2, <5>3
        <5> QED
          BY <5>1, <5>2, <5>3
      <4> QED
        BY <3>3, <4>1, <4>2, <4>3
    <3> QED
      BY <3>4, <3>5
  <2>5. CASE req[s].op \notin {"patch", "regenerate"}
    <3>1. ASSUME NEW p \in Peers, Exists(p)'
          PROVE  /\ Exists(p)
                 /\ row'[p].key = row[p].key
                 /\ row'[p].ip = row[p].ip
      BY <2>2, <2>3, <2>5, <3>1 DEF Exists
    <3> QED
      BY <1>1, <3>1, UniqueIdentityFrame
  <2> QED
    BY <2>4, <2>5
<1> QED
  BY <1>2, <1>3

\* An INSERT brings a key and an address no row has.
LEMMA InsertIdentityStep ==
  ASSUME IdentityInv, NEW s \in Procs, Insert(s)
  PROVE  UniqueIdentity'
<1>1. PICK n \in Peers :
        /\ CanInsert(s, n)
        /\ row' = [row EXCEPT ![n] = [status |-> "pending", key |-> req[s].key,
                                      priv |-> NoKey, ip |-> req[s].ip]]
  BY DEF Insert
<1>2. /\ row'[n].key = req[s].key /\ row'[n].ip = req[s].ip
      /\ \A p \in Peers \ {n} : row'[p] = row[p]
  BY <1>1 DEF IdentityInv, TypeOK
<1>3. req[s].ip # GatewayIp
  BY DEF IdentityInv, Insert, WellFormed
<1>4. \A p \in Peers \ {n} : Exists(p) => row[p].key # req[s].key /\ row[p].ip # req[s].ip
  BY <1>1 DEF CanInsert, KeyTaken, IpTaken, UsedIps
<1> QED
  BY <1>2, <1>3, <1>4 DEF IdentityInv, UniqueIdentity, Exists
-----------------------------------------------------------------------------
(* The other steps, and what a process remembers.                          *)

\* A process that holds nothing inserts nothing.
LEMMA IdleWellFormed == WellFormed(Idle)
BY DEF WellFormed, Idle

\* A session that goes on does not insert.
LEMMA ResumeWellFormed ==
  ASSUME NEW op, NEW pc, NEW S, NEW k, pc # "insert",
         op \in {"patch", "regenerate"} => \A p, q \in S : p = q
  PROVE  WellFormed(Resume(op, pc, S, k))
BY DEF WellFormed, Resume, Idle

\* A session that changes a key has loaded one row.
LEMMA LoadedWellFormed ==
  ASSUME NEW op, NEW S, NEW k,
         op \in {"patch", "regenerate"} => \A p, q \in S : p = q
  PROVE  WellFormed(Loaded(op, S, k))
BY DEF WellFormed, Loaded, Idle

\* A step that leaves the table alone and changes what one process remembers.
LEMMA RequestIdentityStep ==
  ASSUME IdentityInv, TypeOK', row' = row, NEW s \in Procs, NEW r,
         req' = [req EXCEPT ![s] = r], WellFormed(r)
  PROVE  IdentityInv'
<1>1. UniqueIdentity'
  BY UniqueIdentityFrame DEF IdentityInv, Exists
<1>2. \A t \in Procs : req'[t] = IF t = s THEN r ELSE req[t]
  BY DEF IdentityInv, TypeOK
<1> QED
  BY <1>1, <1>2 DEF IdentityInv, WellFormed

\* Loading rows keeps the identity invariant.
LEMMA LoadIdentityStep ==
  ASSUME IdentityInv, TypeOK', NEW s \in Procs, NEW op, NEW S, NEW k, Load(s, op, S, k),
         op \in {"patch", "regenerate"} => \A p, q \in S : p = q
  PROVE  IdentityInv'
<1>1. WellFormed(Loaded(op, S, k))
  BY LoadedWellFormed
<1> QED
  BY <1>1, RequestIdentityStep DEF Load

\* Beginning a registration keeps it.
LEMMA BeginIdentityStep ==
  ASSUME IdentityInv, TypeOK', NEW s \in Procs, NEW op, NEW u, NEW k, Begin(s, op, u, k)
  PROVE  IdentityInv'
<1> DEFINE r == [Idle EXCEPT !.op = op, !.pc = "allocate", !.user = u, !.key = k]
<1>1. WellFormed(r)
  BY DEF WellFormed, Idle
<1> QED
  BY <1>1, RequestIdentityStep DEF Begin

\* So does every first step of a request.
LEMMA StartIdentityStep ==
  ASSUME IdentityInv, TypeOK', NEW s \in Clients, Start(s)
  PROVE  IdentityInv'
<1>0. s \in Procs
  BY DEF Procs
<1>1. ASSUME NEW p \in Peers, Recalculate(s, p) PROVE IdentityInv'
  BY <1>0, <1>1, LoadIdentityStep DEF Recalculate
<1>2. ASSUME NEW p \in Peers, Provision(s, p) PROVE IdentityInv'
  BY <1>0, <1>2, LoadIdentityStep DEF Provision
<1>3. ASSUME NEW p \in Peers, Retry(s, p) PROVE IdentityInv'
  BY <1>0, <1>3, LoadIdentityStep DEF Retry
<1>4. ASSUME NEW p \in Peers, Remove(s, p) PROVE IdentityInv'
  BY <1>0, <1>4, LoadIdentityStep DEF Remove
<1>5. ASSUME NEW p \in Peers, DebugProvision(s, p) PROVE IdentityInv'
  BY <1>0, <1>5, LoadIdentityStep DEF DebugProvision
<1>6. ASSUME NEW p \in Peers, Patch(s, p) PROVE IdentityInv'
  BY <1>0, <1>6, LoadIdentityStep DEF Patch
<1>7. ASSUME NEW p \in Peers, Regenerate(s, p) PROVE IdentityInv'
  BY <1>0, <1>7, LoadIdentityStep DEF Regenerate
<1>8. ASSUME NEW p \in Peers, RegisterKnown(s, p) PROVE IdentityInv'
  BY <1>0, <1>8, LoadIdentityStep DEF RegisterKnown
<1>9. ASSUME NEW u \in Users, RecalculateUser(s, u) PROVE IdentityInv'
  BY <1>0, <1>9, LoadIdentityStep DEF RecalculateUser
<1>10. ASSUME NEW u \in Users, DeleteUser(s, u) PROVE IdentityInv'
  <2> DEFINE S == {p \in Peers : Owner[p] = u /\ Exists(p)}
             r == [Loaded("delete_user", S, NoKey) EXCEPT !.user = u]
  <2>1. WellFormed(r)
    BY DEF WellFormed, Loaded, Idle
  <2>2. row' = row /\ req' = [req EXCEPT ![s] = r]
    BY <1>10 DEF DeleteUser
  <2> QED
    BY <1>0, <2>1, <2>2, RequestIdentityStep
<1>11. ASSUME NEW u \in Users, RegisterNew(s, u) PROVE IdentityInv'
  BY <1>0, <1>11, BeginIdentityStep DEF RegisterNew
<1>12. ASSUME NEW u \in Users, Create(s, u) PROVE IdentityInv'
  BY <1>0, <1>12, BeginIdentityStep DEF Create
<1>13. ASSUME NEW u \in Users, Enroll(s, u) PROVE IdentityInv'
  BY <1>0, <1>13, BeginIdentityStep DEF Enroll
<1> QED
  BY <1>1, <1>2, <1>3, <1>4, <1>5, <1>6, <1>7, <1>8, <1>9, <1>10, <1>11,
     <1>12, <1>13 DEF Start

\* So does every later step of a session.
LEMMA ContinueIdentityStep ==
  ASSUME IdentityInv, TypeOK', NEW s \in Procs, Continue(s)
  PROVE  IdentityInv'
<1>0. TypeOK /\ UniqueIdentity /\ WellFormed(req[s])
  BY DEF IdentityInv
<1>1. ASSUME UniqueIdentity', NEW r, req' = [req EXCEPT ![s] = r], WellFormed(r)
      PROVE  IdentityInv'
  <2>1. \A t \in Procs : req'[t] = IF t = s THEN r ELSE req[t]
    BY <1>0, <1>1 DEF TypeOK
  <2> QED
    BY <1>1, <2>1 DEF IdentityInv, WellFormed
<1>2. CASE AllocateVpnIp(s)
  <2>1. \A ip \in Hosts \ (UsedIps \cup {GatewayIp}) :
          WellFormed([req[s] EXCEPT !.pc = "insert", !.ip = ip])
    BY <1>0 DEF WellFormed, TypeOK, Request
  <2> QED
    BY <1>0, <1>2, <2>1, IdleWellFormed, RequestIdentityStep DEF AllocateVpnIp
<1>3. CASE Insert(s)
  <2>1. UniqueIdentity'
    BY <1>3, InsertIdentityStep
  <2>2. PICK p \in Peers :
          req' = [req EXCEPT ![s] = IF req[s].op = "register" THEN Idle
                                    ELSE Resume(req[s].op, "private", {p}, req[s].key)]
    BY <1>3 DEF Insert
  <2>3. WellFormed(Resume(req[s].op, "private", {p}, req[s].key))
    BY ResumeWellFormed
  <2> QED
    BY <1>1, <2>1, <2>2, <2>3, IdleWellFormed
<1>4. CASE InsertFails(s)
  BY <1>4, IdleWellFormed, RequestIdentityStep DEF InsertFails
<1>5. CASE StorePrivateKey(s)
  <2>1. PICK p \in req[s].peers :
          IF Exists(p)
          THEN /\ row' = [row EXCEPT ![p] = [@ EXCEPT !.priv = req[s].key]]
               /\ req' = [req EXCEPT ![s] =
                            IF req[s].op = "create" THEN Idle
                            ELSE Resume("enroll", "reload", {p}, NoKey)]
          ELSE row' = row /\ req' = [req EXCEPT ![s] = Idle]
    BY <1>5 DEF StorePrivateKey
  <2>2. p \in Peers
    BY <1>0 DEF TypeOK, Request
  <2>3. \A q \in Peers : /\ row'[q].status = row[q].status
                         /\ row'[q].key = row[q].key
                         /\ row'[q].ip = row[q].ip
    BY <1>0, <2>1, <2>2 DEF TypeOK, Row
  <2>4. UniqueIdentity'
    BY <1>0, <2>3, UniqueIdentityFrame DEF Exists, InTable
  <2>5. WellFormed(Resume("enroll", "reload", {p}, NoKey))
    BY ResumeWellFormed
  <2> QED
    BY <1>1, <2>1, <2>4, <2>5, IdleWellFormed
<1>6. CASE Reload(s)
  <2>1. WellFormed(Loaded(req[s].op, req[s].peers, NoKey))
    BY <1>0, LoadedWellFormed DEF WellFormed
  <2> QED
    BY <1>6, <2>1, IdleWellFormed, RequestIdentityStep DEF Reload
<1>7. CASE Commit(s)
  <2>1. UniqueIdentity'
    BY <1>7, CommitIdentityStep
  <2>2. WellFormed(Continuation(s))
    BY ResumeWellFormed, IdleWellFormed DEF Continuation
  <2> QED
    BY <1>1, <1>7, <2>1, <2>2, IdleWellFormed DEF Commit
<1>8. CASE CommitDeleteUser(s)
  <2>1. \A q \in Peers : /\ row'[q].status \in {row[q].status, "deleted"}
                         /\ row'[q].key = row[q].key
                         /\ row'[q].ip = row[q].ip
    BY <1>0, <1>8 DEF CommitDeleteUser, TypeOK, Row
  <2>2. UniqueIdentity'
    BY <1>0, <2>1, UniqueIdentityFrame DEF Exists, InTable
  <2> QED
    BY <1>1, <1>8, <2>2, IdleWellFormed DEF CommitDeleteUser
<1>9. ASSUME NEW pc \in {"ok", "failed"}, Answered(s, pc), row' = row
      PROVE  IdentityInv'
  <2>1. WellFormed([req[s] EXCEPT !.pc = pc])
    BY <1>0 DEF WellFormed, TypeOK, Request
  <2> QED
    BY <1>9, <2>1, IdleWellFormed, RequestIdentityStep DEF Answered
<1>10. ASSUME NEW p \in Peers,
              GatewayOk(s, p) \/ GatewayRefuses(s, p) \/ AnswerLost(s, p) \/ CallDelayed(s, p)
       PROVE  IdentityInv'
  BY <1>9, <1>10 DEF GatewayOk, GatewayRefuses, AnswerLost, CallDelayed
<1> QED
  BY <1>2, <1>3, <1>4, <1>5, <1>6, <1>7, <1>8, <1>10 DEF Continue

\* So do the steps that belong to no request.
LEMMA BackgroundIdentityStep ==
  ASSUME IdentityInv, TypeOK',
         \/ DelayedCall \/ WorkerList \/ AgentList
         \/ \E p \in Peers : WorkerTake(p) \/ AgentUpdate(p)
         \/ \E s \in Procs : Crash(s)
         \/ Reboot
  PROVE  IdentityInv'
<1>0. TypeOK /\ UniqueIdentity /\ Worker \in Procs /\ Agent \in Procs
  BY DEF IdentityInv, Procs
<1>1. ASSUME row' = row, req' = req PROVE IdentityInv'
  BY <1>0, <1>1, UniqueIdentityFrame DEF IdentityInv, Exists
<1>2. CASE DelayedCall
  BY <1>1, <1>2 DEF DelayedCall
<1>3. CASE WorkerList
  BY <1>1, <1>3 DEF WorkerList
<1>4. CASE AgentList
  BY <1>0, <1>4, LoadedWellFormed, RequestIdentityStep DEF AgentList
<1>5. ASSUME NEW p \in Peers, WorkerTake(p) PROVE IdentityInv'
  BY <1>0, <1>1, <1>5, LoadedWellFormed, RequestIdentityStep DEF WorkerTake
<1>6. ASSUME NEW p \in Peers, AgentUpdate(p) PROVE IdentityInv'
  <2> DEFINE r == IF req[Agent].peers \ {p} = {} THEN Idle
                  ELSE [req[Agent] EXCEPT !.pc = "loaded",
                          !.peers = req[Agent].peers \ {p}, !.obj[p] = NoRow]
  <2>1. req[Agent].op = "agent" /\ req' = [req EXCEPT ![Agent] = r]
    BY <1>6 DEF AgentUpdate
  <2>2. WellFormed(r)
    BY <1>0, <2>1, IdleWellFormed DEF WellFormed, TypeOK, Request
  <2>3. \A q \in Peers : Exists(q)' => /\ Exists(q)
                                       /\ row'[q].key = row[q].key
                                       /\ row'[q].ip = row[q].ip
    <3>1. \A ok \in BOOLEAN : /\ InTable(Revoked(row[p], ok))
                             /\ Revoked(row[p], ok).key = row[p].key
                             /\ Revoked(row[p], ok).ip = row[p].ip
      BY <1>0 DEF Revoked, InTable, TypeOK, Row
    <3>2. row' = IF Exists(p)
                 THEN [row EXCEPT ![p] = Revoked(row[p], req[Agent].pc = "ok")]
                 ELSE row
      BY <1>6 DEF AgentUpdate
    <3> QED
      BY <1>0, <3>1, <3>2 DEF Exists, TypeOK
  <2>4. UniqueIdentity'
    BY <1>0, <2>3, UniqueIdentityFrame
  <2>5. \A t \in Procs : req'[t] = IF t = Agent THEN r ELSE req[t]
    BY <1>0, <2>1 DEF TypeOK
  <2> QED
    BY <2>2, <2>4, <2>5 DEF IdentityInv, WellFormed
<1>7. ASSUME NEW s \in Procs, Crash(s) PROVE IdentityInv'
  BY <1>7, IdleWellFormed, RequestIdentityStep DEF Crash
<1>8. CASE Reboot
  BY <1>1, <1>8 DEF Reboot
<1> QED
  BY <1>2, <1>3, <1>4, <1>5, <1>6, <1>7, <1>8

\* An empty table has no duplicates.
LEMMA InitIdentity == Init => IdentityInv
<1> SUFFICES ASSUME Init PROVE IdentityInv
  OBVIOUS
<1>1. UniqueIdentity
  BY DEF Init, UniqueIdentity, Exists, InTable, NoRow
<1>2. \A s \in Procs : WellFormed(req[s])
  BY IdleWellFormed DEF Init
<1> QED
  BY <1>1, <1>2, InitType DEF IdentityInv

\* No step makes two rows share a key or an address.
LEMMA NextIdentity == IdentityInv /\ [Next]_vars => IdentityInv'
<1> SUFFICES ASSUME IdentityInv, [Next]_vars PROVE IdentityInv'
  OBVIOUS
<1>1. TypeOK'
  BY NextType DEF IdentityInv
<1>2. CASE UNCHANGED vars
  BY <1>1, <1>2, UniqueIdentityFrame DEF IdentityInv, vars, Exists
<1>3. CASE Next
  BY <1>1, <1>3, StartIdentityStep, ContinueIdentityStep, BackgroundIdentityStep DEF Next
<1> QED
  BY <1>2, <1>3

\* No two rows of the table ever share a key or an address, and none has the
\* gateway's address: allocation, insertion and key changes of any number of
\* sessions may interleave in every way.
THEOREM IdentityIsUnique == Spec => []UniqueIdentity
<1>1. IdentityInv => UniqueIdentity
  BY DEF IdentityInv
<1> QED
  BY <1>1, InitIdentity, NextIdentity, PTL DEF Spec

-----------------------------------------------------------------------------
(***************************************************************************)
(* Revival.  A session acts on the rows as it loaded them, and it loaded   *)
(* them under the guard of its operation; no guard but PATCH's lets a row  *)
(* that is removed, or waits to be revoked, through to pending or          *)
(* provisioned.  So whoever takes such a row back had loaded another one.  *)
(***************************************************************************)
Guarded(r) ==
  r.pc \in {"loaded", "ok", "failed"} /\ r.op \notin {"delete_user", "debug", "agent"}
    => \A p \in r.peers : Guard(r.op, r.obj[p])

GuardInv ==
  /\ TypeOK
  /\ \A s \in Procs : Guarded(req[s])

\* A process that has loaded nothing has nothing to guard.
LEMMA UnloadedGuarded ==
  /\ Guarded(Idle)
  /\ \A op, pc, S, k : pc \notin {"loaded", "ok", "failed"} => Guarded(Resume(op, pc, S, k))
BY DEF Guarded, Idle, Resume

\* Rows that pass the guard are guarded as they are loaded.
LEMMA LoadedGuarded ==
  ASSUME NEW op, NEW S \in SUBSET Peers, NEW k,
         op \notin {"delete_user", "debug", "agent"} => \A p \in S : Guard(op, row[p])
  PROVE  Guarded(Loaded(op, S, k))
BY DEF Guarded, Loaded, Idle

\* A step that changes what one process remembers.
LEMMA RequestGuardStep ==
  ASSUME GuardInv, TypeOK', NEW s \in Procs, NEW r, req' = [req EXCEPT ![s] = r], Guarded(r)
  PROVE  GuardInv'
<1>1. \A t \in Procs : req'[t] = IF t = s THEN r ELSE req[t]
  BY DEF GuardInv, TypeOK
<1> QED
  BY <1>1 DEF GuardInv

\* The first step of a request loads rows under its guard, or none.
LEMMA StartGuardStep ==
  ASSUME GuardInv, TypeOK', NEW s \in Clients, Start(s)
  PROVE  GuardInv'
<1>0. s \in Procs
  BY DEF Procs
<1>1. ASSUME NEW op, NEW S \in SUBSET Peers, NEW k, Load(s, op, S, k) PROVE GuardInv'
  BY <1>0, <1>1, LoadedGuarded, RequestGuardStep DEF Load
<1>2. ASSUME NEW op, NEW u, NEW k, Begin(s, op, u, k) PROVE GuardInv'
  <2> DEFINE r == [Idle EXCEPT !.op = op, !.pc = "allocate", !.user = u, !.key = k]
  <2>1. Guarded(r)
    BY DEF Guarded, Idle
  <2> QED
    BY <1>0, <1>2, <2>1, RequestGuardStep DEF Begin
<1>3. ASSUME NEW p \in Peers,
             \/ Recalculate(s, p) \/ Provision(s, p) \/ Retry(s, p) \/ Remove(s, p)
             \/ DebugProvision(s, p) \/ RegisterKnown(s, p) \/ Patch(s, p) \/ Regenerate(s, p)
      PROVE  GuardInv'
  BY <1>1, <1>3 DEF Recalculate, Provision, Retry, Remove, DebugProvision, RegisterKnown,
                    Patch, Regenerate
<1>4. ASSUME NEW u \in Users, RecalculateUser(s, u) PROVE GuardInv'
  BY <1>1, <1>4 DEF RecalculateUser
<1>5. ASSUME NEW u \in Users, DeleteUser(s, u) PROVE GuardInv'
  <2> DEFINE S == {p \in Peers : Owner[p] = u /\ Exists(p)}
             r == [Loaded("delete_user", S, NoKey) EXCEPT !.user = u]
  <2>1. Guarded(r)
    BY DEF Guarded, Loaded, Idle
  <2> QED
    BY <1>0, <1>5, <2>1, RequestGuardStep DEF DeleteUser
<1>6. ASSUME NEW u \in Users, RegisterNew(s, u) \/ Create(s, u) \/ Enroll(s, u)
      PROVE  GuardInv'
  BY <1>2, <1>6 DEF RegisterNew, Create, Enroll
<1> QED
  BY <1>3, <1>4, <1>5, <1>6 DEF Start

\* A session that goes on keeps its rows, loads them again under its guard, or
\* lets go of them.
LEMMA ContinueGuardStep ==
  ASSUME GuardInv, TypeOK', NEW s \in Procs, Continue(s)
  PROVE  GuardInv'
<1>0. TypeOK /\ req[s] \in Request /\ Guarded(req[s])
  BY DEF GuardInv, TypeOK
<1>1. CASE AllocateVpnIp(s)
  <2>1. \A ip \in Hosts : Guarded([req[s] EXCEPT !.pc = "insert", !.ip = ip])
    BY <1>0 DEF Guarded, Request
  <2> QED
    BY <1>1, <2>1, UnloadedGuarded, RequestGuardStep DEF AllocateVpnIp
<1>2. CASE Insert(s) \/ InsertFails(s) \/ StorePrivateKey(s)
  <2>1. PICK r \in {Idle} \cup {Resume(req[s].op, "private", {p}, req[s].key) : p \in Peers}
                       \cup {Resume("enroll", "reload", {p}, NoKey) : p \in req[s].peers} :
          req' = [req EXCEPT ![s] = r]
    BY <1>2 DEF Insert, InsertFails, StorePrivateKey
  <2>2. Guarded(r)
    BY UnloadedGuarded
  <2> QED
    BY <2>1, <2>2, RequestGuardStep
<1>3. CASE Reload(s)
  <2>1. (\A p \in req[s].peers : Guard(req[s].op, row[p]))
          => Guarded(Loaded(req[s].op, req[s].peers, NoKey))
    BY <1>0, LoadedGuarded DEF Request
  <2> QED
    BY <1>3, <2>1, UnloadedGuarded, RequestGuardStep DEF Reload
<1>4. CASE Commit(s)
  <2>1. Guarded(Continuation(s))
    BY UnloadedGuarded DEF Continuation
  <2> QED
    BY <1>4, <2>1, UnloadedGuarded, RequestGuardStep DEF Commit
<1>5. CASE CommitDeleteUser(s)
  BY <1>5, UnloadedGuarded, RequestGuardStep DEF CommitDeleteUser
<1>6. ASSUME NEW p \in Peers,
             GatewayOk(s, p) \/ GatewayRefuses(s, p) \/ AnswerLost(s, p) \/ CallDelayed(s, p)
      PROVE  GuardInv'
  <2>1. PICK pc \in {"ok", "failed"} : Answered(s, pc)
    BY <1>6 DEF GatewayOk, GatewayRefuses, AnswerLost, CallDelayed
  <2>2. Guarded([req[s] EXCEPT !.pc = pc])
    <3>1. req[s].pc = "loaded"
      BY <1>6 DEF GatewayOk, GatewayRefuses, AnswerLost, CallDelayed, Calling
    <3> QED
      BY <1>0, <3>1 DEF Guarded, Request
  <2> QED
    BY <2>1, <2>2, UnloadedGuarded, RequestGuardStep DEF Answered
<1> QED
  BY <1>1, <1>2, <1>3, <1>4, <1>5, <1>6 DEF Continue

\* The worker takes a row under its guard; the script has none.
LEMMA BackgroundGuardStep ==
  ASSUME GuardInv, TypeOK',
         \/ DelayedCall \/ WorkerList \/ AgentList
         \/ \E p \in Peers : WorkerTake(p) \/ AgentUpdate(p)
         \/ \E s \in Procs : Crash(s)
         \/ Reboot
  PROVE  GuardInv'
<1>0. Worker \in Procs /\ Agent \in Procs /\ TypeOK /\ req[Agent] \in Request
  BY DEF Procs, GuardInv, TypeOK
<1>1. ASSUME req' = req PROVE GuardInv'
  BY <1>1 DEF GuardInv
<1>2. CASE DelayedCall \/ WorkerList \/ Reboot
  BY <1>1, <1>2 DEF DelayedCall, WorkerList, Reboot
<1>3. CASE AgentList
  BY <1>0, <1>3, LoadedGuarded, RequestGuardStep DEF AgentList
<1>4. ASSUME NEW p \in Peers, WorkerTake(p) PROVE GuardInv'
  BY <1>0, <1>1, <1>4, LoadedGuarded, RequestGuardStep DEF WorkerTake
<1>5. ASSUME NEW p \in Peers, AgentUpdate(p) PROVE GuardInv'
  <2>1. req[Agent].op = "agent"
    BY <1>5 DEF AgentUpdate
  <2>2. Guarded([req[Agent] EXCEPT !.pc = "loaded", !.peers = req[Agent].peers \ {p},
                                   !.obj[p] = NoRow])
    BY <1>0, <2>1 DEF Guarded, Request
  <2> QED
    BY <1>0, <1>5, <2>2, UnloadedGuarded, RequestGuardStep DEF AgentUpdate
<1>6. ASSUME NEW s \in Procs, Crash(s) PROVE GuardInv'
  BY <1>6, UnloadedGuarded, RequestGuardStep DEF Crash
<1> QED
  BY <1>2, <1>3, <1>4, <1>5, <1>6

\* What a session holds has passed its guard, at every step.
LEMMA NextGuard == GuardInv /\ [Next]_vars => GuardInv'
<1> SUFFICES ASSUME GuardInv, [Next]_vars PROVE GuardInv'
  OBVIOUS
<1>1. TypeOK'
  BY NextType DEF GuardInv
<1>2. CASE UNCHANGED vars
  BY <1>1, <1>2 DEF GuardInv, vars
<1>3. CASE Next
  BY <1>1, <1>3, StartGuardStep, ContinueGuardStep, BackgroundGuardStep DEF Next
<1> QED
  BY <1>2, <1>3

OutOfUse == {"pending_revoke", "removed"}
InUse == {"pending", "provisioned"}

\* Only a commit takes a row back into use.
LEMMA OnlyCommitsRevive ==
  ASSUME TypeOK, Next, NEW p \in Peers, row[p].status \in OutOfUse, row'[p].status \in InUse
  PROVE  \E s \in Procs : Commit(s)
<1>0. row \in [Peers -> Row] /\ req \in [Procs -> Request]
  BY DEF TypeOK
<1>1. row' # row
  BY DEF OutOfUse, InUse
<1>2. ASSUME NEW s \in Procs, Insert(s) PROVE FALSE
  <2>1. PICK n \in Peers :
          /\ row[n].status = "absent"
          /\ row' = [row EXCEPT ![n] = [status |-> "pending", key |-> req[s].key,
                                        priv |-> NoKey, ip |-> req[s].ip]]
    BY <1>2 DEF Insert, CanInsert
  <2> QED
    BY <1>0, <2>1 DEF OutOfUse, InUse
<1>3. ASSUME NEW s \in Procs, StorePrivateKey(s) PROVE FALSE
  <2>1. PICK n \in Peers : row' = [row EXCEPT ![n] = [row[n] EXCEPT !.priv = req[s].key]]
    BY <1>0, <1>1, <1>3 DEF StorePrivateKey, Request
  <2>2. row'[p].status = row[p].status
    BY <1>0, <2>1 DEF Row
  <2> QED
    BY <2>2 DEF OutOfUse, InUse
<1>4. ASSUME NEW s \in Procs, CommitDeleteUser(s) PROVE FALSE
  <2>1. row'[p].status \in {row[p].status, "deleted"}
    BY <1>0, <1>4 DEF CommitDeleteUser, Row
  <2> QED
    BY <2>1 DEF OutOfUse, InUse
<1>5. ASSUME NEW q \in Peers, AgentUpdate(q) PROVE FALSE
  <2>1. row'[p].status \in {row[p].status, "removed", "error"}
    BY <1>0, <1>5 DEF AgentUpdate, Revoked, Row
  <2> QED
    BY <2>1 DEF OutOfUse, InUse
<1>6. ASSUME NEW s \in Clients, Start(s) PROVE FALSE
  <2>1. \A op, S, k : ~Load(s, op, S, k)
    BY <1>1 DEF Load
  <2>2. \A op, u, k : ~Begin(s, op, u, k)
    BY <1>1 DEF Begin
  <2>3. \A q \in Peers : /\ ~Recalculate(s, q) /\ ~Provision(s, q) /\ ~Retry(s, q)
                        /\ ~Remove(s, q) /\ ~DebugProvision(s, q) /\ ~Patch(s, q)
                        /\ ~Regenerate(s, q) /\ ~RegisterKnown(s, q)
    BY <2>1 DEF Recalculate, Provision, Retry, Remove, DebugProvision, Patch, Regenerate,
                RegisterKnown
  <2>4. \A u \in Users : ~RecalculateUser(s, u) /\ ~DeleteUser(s, u)
    BY <1>1, <2>1 DEF RecalculateUser, DeleteUser
  <2>5. \A u \in Users : ~RegisterNew(s, u) /\ ~Create(s, u) /\ ~Enroll(s, u)
    BY <2>2 DEF RegisterNew, Create, Enroll
  <2> QED
    BY <1>6, <2>3, <2>4, <2>5 DEF Start
<1>7. /\ \A s \in Procs : /\ ~AllocateVpnIp(s) /\ ~InsertFails(s) /\ ~Reload(s) /\ ~Crash(s)
                          /\ \A q \in Peers : /\ ~GatewayOk(s, q) /\ ~GatewayRefuses(s, q)
                                              /\ ~AnswerLost(s, q) /\ ~CallDelayed(s, q)
      /\ ~DelayedCall /\ ~WorkerList /\ ~AgentList /\ ~Reboot
      /\ \A q \in Peers : ~WorkerTake(q)
  BY <1>1 DEF AllocateVpnIp, InsertFails, Reload, Crash, GatewayOk, GatewayRefuses, AnswerLost,
     CallDelayed, DelayedCall, WorkerList, AgentList, Reboot, WorkerTake
<1> QED
  BY <1>2, <1>3, <1>4, <1>5, <1>6, <1>7 DEF Next, Continue

\* And the session that commits it had loaded another row than the one it takes
\* back, unless it is PATCH.
LEMMA RevivalStep ==
  ASSUME GuardInv, [Next]_vars, NEW p \in Peers,
         row[p].status \in OutOfUse, row'[p].status \in InUse
  PROVE  \E s \in Procs : /\ p \in req[s].peers /\ req'[s] # req[s]
                          /\ req[s].op = "patch" \/ req[s].obj[p].status \notin OutOfUse
<1>0. TypeOK /\ row' # row
  BY DEF GuardInv, OutOfUse, InUse
<1>1. PICK s \in Procs : Commit(s)
  BY <1>0, OnlyCommitsRevive DEF vars
<1>2. req[s] \in Request /\ req \in [Procs -> Request] /\ Guarded(req[s])
  BY DEF GuardInv, TypeOK
<1>3. row' = [q \in Peers |-> Committed(s, q)] /\ req' = [req EXCEPT ![s] = Continuation(s)]
  BY <1>0, <1>1 DEF Commit
<1>4. p \in req[s].peers /\ row'[p] = Flush(row[p], req[s].obj[p], NewRow(s, p))
  BY <1>3 DEF Committed, OutOfUse, InUse
<1>5. /\ row[p] \in Row /\ req[s].obj[p] \in Row /\ req[s].key \in Keys \cup {NoKey}
      /\ NewRow(s, p) \in Row
  BY <1>0, <1>2, TargetType DEF TypeOK, Request, NewRow
<1>6. NewRow(s, p).status \in InUse /\ NewRow(s, p).status # req[s].obj[p].status
  BY <1>4, <1>5, FlushFacts DEF Column, OutOfUse, InUse
<1>7. /\ req[s].pc \in {"loaded", "ok", "failed"}
      /\ req[s].op \notin {"delete_user", "agent"}
  BY <1>1 DEF Commit, ReadyToCommit, GatewayOps
<1>8. req'[s] # req[s]
  <2>1. Continuation(s).pc \in {"idle", "reload"}
    BY DEF Continuation, Resume, Idle
  <2> QED
    BY <1>2, <1>3, <1>7, <2>1
<1>9. ASSUME req[s].op # "patch", req[s].obj[p].status \in OutOfUse
      PROVE  FALSE
  <2> DEFINE o == req[s].obj[p]
  <2>1. req[s].op # "debug"
    BY <1>6 DEF NewRow, Target
  <2>2. Guard(req[s].op, o)
    BY <1>2, <1>4, <1>7, <2>1 DEF Guarded
  <2>3. req[s].op \notin {"recalculate", "enroll", "recalculate_user", "provision", "retry",
                         "remove", "regenerate"}
    BY <1>9, <2>2 DEF Guard, CanRecalculate, CanProvision, CanRetry, CanRemove, CanRegenerate,
                      OutOfUse
  <2>4. req[s].op = "revoke"
    BY <1>6, <1>9, <2>3 DEF NewRow, Target
  <2>5. NewRow(s, p).status \in {"removed", "error"}
    BY <1>5, <2>4 DEF NewRow, Target, Revoked, Row
  <2> QED
    BY <1>6, <2>5 DEF InUse
<1> QED
  BY <1>4, <1>8, <1>9

\* However sessions interleave, crash and lose answers, and whatever the worker
\* and the script do: a removal is undone only by a session that had loaded the
\* row before the removal, or by PATCH.
THEOREM RevivalsAreStale == Spec => OnlyStaleSessionsRevive
<1>1. Init => GuardInv
  <2> SUFFICES ASSUME Init PROVE GuardInv
    OBVIOUS
  <2> QED
    BY InitType, UnloadedGuarded DEF Init, GuardInv
<1>2. GuardInv /\ [Next]_vars => GuardInv'
  BY NextGuard
<1>3. GuardInv /\ [Next]_vars
        => [\A p \in Peers :
              row[p].status \in {"pending_revoke", "removed"} /\ row'[p].status \in {"pending", "provisioned"}
                => \E s \in Procs :
                     /\ p \in req[s].peers /\ req'[s] # req[s]
                     /\ \/ req[s].op = "patch"
                        \/ req[s].obj[p].status \notin {"pending_revoke", "removed"}]_row
  BY RevivalStep DEF OutOfUse, InUse
<1> QED
  BY <1>1, <1>2, <1>3, PTL DEF Spec, OnlyStaleSessionsRevive
=============================================================================
