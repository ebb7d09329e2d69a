-------------------------- MODULE PeerAddressProofs --------------------------
(***************************************************************************)
(* While no account is deleted, an address of the VPN is only ever         *)
(* forwarded to a key of the row that has the address.  The invariant      *)
(* follows a key and an address along the way from the table through the   *)
(* snapshot of a session and a call in flight to wg0: wherever the pair    *)
(* is, a live row with that address has had that key.  Rows stay and keep  *)
(* their addresses, and held only grows, so the pair stays backed however  *)
(* late the gateway executes the call.                                     *)
(***************************************************************************)
EXTENDS PeerLifecycleProofs

\* In the table rows with the history h, key k and address ip were together.
Backed(k, ip, rows, h) ==
  \E p \in Peers : InTable(rows[p]) /\ rows[p].ip = ip /\ <<p, k>> \in h

\* What session r will send to the gateway is backed.
SessionBacked(r, rows, h) ==
  /\ r.op # "delete_user"
  /\ r.pc \in {"loaded", "ok", "failed"} =>
       \A p \in r.peers : /\ InTable(rows[p])
                          /\ <<p, r.obj[p].key>> \in h
                          /\ r.obj[p].ip = rows[p].ip

RowsRecorded(rows, h) ==
  \A p \in Peers : InTable(rows[p]) => <<p, rows[p].key>> \in h /\ rows[p].ip \in Hosts

HolderInv ==
  /\ IdentityInv
  /\ RowsRecorded(row, held)
  /\ \A s \in Procs : SessionBacked(req[s], row, held)
  /\ \A k \in Keys : gw[k] # NoIp => Backed(k, gw[k], row, held)
  /\ \A m \in wire : m.kind = "apply" => Backed(m.key, m.ip, row, held)

\* Rows stay in the table with their addresses, and the history grows.
Keeps ==
  /\ held \subseteq held'
  /\ \A p \in Peers : InTable(row[p]) => InTable(row'[p]) /\ row'[p].ip = row[p].ip

\* The invariant says of wg0 what the property says.
LEMMA HolderGivesProperty == HolderInv => AddressBelongsToHolder
<1> SUFFICES ASSUME HolderInv, NEW k \in Keys, NEW p \in Peers,
                    Exists(p), gw[k] = row[p].ip
             PROVE  <<p, k>> \in held
  BY DEF AddressBelongsToHolder
<1>1. gw[k] # NoIp
  BY HostsAssumption DEF HolderInv, RowsRecorded, Exists
<1>2. PICK q \in Peers : InTable(row[q]) /\ row[q].ip = gw[k] /\ <<q, k>> \in held
  BY <1>1 DEF HolderInv, Backed
<1>3. q = p
  BY <1>2 DEF HolderInv, IdentityInv, UniqueIdentity, Exists
<1> QED
  BY <1>2, <1>3

-----------------------------------------------------------------------------
(* One lemma for every step: what it has to show.                          *)

\* Keys a row was of are never taken from its history.
LEMMA BackedKept ==
  ASSUME Keeps, NEW k, NEW ip, Backed(k, ip, row, held)
  PROVE  Backed(k, ip, row', held')
BY DEF Keeps, Backed

\* What a session carries stays backed while other rows change.
LEMMA SessionKept ==
  ASSUME TypeOK, Keeps, NEW t \in Procs, SessionBacked(req[t], row, held)
  PROVE  SessionBacked(req[t], row', held')
<1>1. req[t].peers \subseteq Peers
  BY DEF TypeOK, Request
<1> QED
  BY <1>1 DEF Keeps, SessionBacked

\* A step keeps the invariant if what it adds to wg0, wire and req is backed.
LEMMA HolderStep ==
  ASSUME HolderInv, IdentityInv', Keeps, RowsRecorded(row', held'),
         NEW s \in Procs, NEW r,
         req' = [req EXCEPT ![s] = r], SessionBacked(r, row', held'),
         \A k \in Keys : gw'[k] # NoIp => gw'[k] = gw[k] \/ Backed(k, gw'[k], row, held),
         \A m \in wire' : m.kind = "apply" => m \in wire \/ Backed(m.key, m.ip, row, held)
  PROVE  HolderInv'
<1>0. TypeOK
  BY DEF HolderInv, IdentityInv
<1>1. \A t \in Procs : req'[t] = IF t = s THEN r ELSE req[t]
  BY <1>0 DEF TypeOK
<1>2. \A t \in Procs : SessionBacked(req'[t], row', held')
  BY <1>0, <1>1, SessionKept DEF HolderInv
<1>3. ASSUME NEW k \in Keys, gw'[k] # NoIp PROVE Backed(k, gw'[k], row', held')
  BY <1>3, BackedKept DEF HolderInv
<1>4. ASSUME NEW m \in wire', m.kind = "apply" PROVE Backed(m.key, m.ip, row', held')
  BY <1>4, BackedKept DEF HolderInv
<1> QED
  BY <1>2, <1>3, <1>4 DEF HolderInv

\* A step that changes only what one process remembers, and the worker's list.
LEMMA QuietHolderStep ==
  ASSUME HolderInv, IdentityInv', row' = row, held' = held, gw' = gw, wire' = wire,
         NEW s \in Procs, NEW r,
         req' = [req EXCEPT ![s] = r], SessionBacked(r, row, held)
  PROVE  HolderInv'
<1>1. Keeps /\ RowsRecorded(row', held')
  BY DEF Keeps, HolderInv
<1> QED
  BY <1>1, HolderStep

\* A process that holds nothing carries no address.
LEMMA IdleBacked == \A rows, h : SessionBacked(Idle, rows, h)
BY DEF SessionBacked, Idle

\* A session that has loaded nothing yet carries no address.
LEMMA ResumeBacked ==
  ASSUME NEW op, NEW pc, NEW S, NEW k, NEW rows, NEW h,
         op # "delete_user", pc \notin {"loaded", "ok", "failed"}
  PROVE  SessionBacked(Resume(op, pc, S, k), rows, h)
BY DEF SessionBacked, Resume, Idle

\* A row just loaded is backed by itself.
LEMMA LoadedBacked ==
  ASSUME HolderInv, NEW op, NEW S \in SUBSET Peers, NEW k,
         op # "delete_user", \A p \in S : InTable(row[p])
  PROVE  SessionBacked(Loaded(op, S, k), row, held)
BY DEF SessionBacked, Loaded, Idle, HolderInv, RowsRecorded

\* The flush of an up-to-date snapshot writes the new row as it is.
LEMMA FlushExact ==
  ASSUME NEW cur \in Row, NEW new \in Row, new.ip = cur.ip
  PROVE  Flush(cur, cur, new) = new
BY DEF Flush, Column, Row

\* Every guard rejects a row that is not in the table.
LEMMA GuardInTable ==
  ASSUME NEW op, NEW r, Guard(op, r)
  PROVE  InTable(r)
BY DEF Guard, CanRecalculate, CanProvision, CanRetry, CanRemove, CanRegenerate,
       CanRevoke, CanPatch, InTable

-----------------------------------------------------------------------------
(* The steps.                                                              *)

\* Loading rows keeps the invariant.
LEMMA LoadHolderStep ==
  ASSUME HolderInv, IdentityInv', NEW s \in Procs, NEW op, NEW S \in SUBSET Peers, NEW k,
         Load(s, op, S, k), op # "delete_user"
  PROVE  HolderInv'
<1>1. \A p \in S : InTable(row[p])
  BY GuardInTable DEF Load
<1>2. SessionBacked(Loaded(op, S, k), row, held)
  BY <1>1, LoadedBacked
<1> QED
  BY <1>2, QuietHolderStep DEF Load

\* Beginning a registration keeps it.
LEMMA BeginHolderStep ==
  ASSUME HolderInv, IdentityInv', NEW s \in Procs, NEW op, NEW u, NEW k,
         Begin(s, op, u, k), op # "delete_user"
  PROVE  HolderInv'
<1> DEFINE r == [Idle EXCEPT !.op = op, !.pc = "allocate", !.user = u, !.key = k]
<1>1. SessionBacked(r, row, held)
  BY DEF SessionBacked, Idle
<1> QED
  BY <1>1, QuietHolderStep DEF Begin

\* So does every first step of a request, account deletion apart.
LEMMA StartHolderStep ==
  ASSUME HolderInv, IdentityInv', "delete_user" \notin Ops, NEW s \in Clients, Start(s)
  PROVE  HolderInv'
<1>0. s \in Procs
  BY DEF Procs
<1>1. ASSUME NEW p \in Peers, Recalculate(s, p) PROVE HolderInv'
  BY <1>0, <1>1, LoadHolderStep DEF Recalculate
<1>2. ASSUME NEW p \in Peers, Provision(s, p) PROVE HolderInv'
  BY <1>0, <1>2, LoadHolderStep DEF Provision
<1>3. ASSUME NEW p \in Peers, Retry(s, p) PROVE HolderInv'
  BY <1>0, <1>3, LoadHolderStep DEF Retry
<1>4. ASSUME NEW p \in Peers, Remove(s, p) PROVE HolderInv'
  BY <1>0, <1>4, LoadHolderStep DEF Remove
<1>5. ASSUME NEW p \in Peers, DebugProvision(s, p) PROVE HolderInv'
  BY <1>0, <1>5, LoadHolderStep DEF DebugProvision
<1>6. ASSUME NEW p \in Peers, Patch(s, p) PROVE HolderInv'
  BY <1>0, <1>6, LoadHolderStep DEF Patch
<1>7. ASSUME NEW p \in Peers, Regenerate(s, p) PROVE HolderInv'
  BY <1>0, <1>7, LoadHolderStep DEF Regenerate
<1>8. ASSUME NEW p \in Peers, RegisterKnown(s, p) PROVE HolderInv'
  BY <1>0, <1>8, LoadHolderStep DEF RegisterKnown
<1>9. ASSUME NEW u \in Users, RecalculateUser(s, u) PROVE HolderInv'
  <2> DEFINE S == {p \in Peers : Owner[p] = u /\ CanRecalculate(row[p])}
  <2>1. Load(s, "recalculate_user", S, NoKey)
    BY <1>9 DEF RecalculateUser
  <2> QED
    BY <1>0, <2>1, LoadHolderStep
<1>10. ASSUME NEW u \in Users, DeleteUser(s, u) PROVE HolderInv'
  BY <1>10 DEF DeleteUser
<1>11. ASSUME NEW u \in Users, RegisterNew(s, u) PROVE HolderInv'
  BY <1>0, <1>11, BeginHolderStep DEF RegisterNew
<1>12. ASSUME NEW u \in Users, Create(s, u) PROVE HolderInv'
  BY <1>0, <1>12, BeginHolderStep DEF Create
<1>13. ASSUME NEW u \in Users, Enroll(s, u) PROVE HolderInv'
  BY <1>0, <1>13, BeginHolderStep DEF Enroll
<1> QED
  BY <1>1, <1>2, <1>3, <1>4, <1>5, <1>6, <1>7, <1>8, <1>9, <1>10, <1>11,
     <1>12, <1>13 DEF Start

\* So does a commit: it leaves addresses alone and records the new key.
LEMMA CommitHolderStep ==
  ASSUME HolderInv, IdentityInv', NEW s \in Procs, Commit(s)
  PROVE  HolderInv'
<1>1. TypeOK /\ req[s] \in Request /\ SessionBacked(req[s], row, held)
  BY DEF HolderInv, IdentityInv, TypeOK
<1>2. CASE CommitFails(s)
  BY <1>2, IdleBacked, QuietHolderStep DEF Commit
<1>3. CASE ~CommitFails(s)
  <2>1. /\ \A p \in Peers : row'[p] = Committed(s, p)
        /\ held' = held \cup {<<p, row'[p].key>> : p \in {q \in req[s].peers : Exists(q)}}
        /\ req' = [req EXCEPT ![s] = Continuation(s)]
        /\ gw' = gw /\ wire' = wire
    BY <1>3 DEF Commit
  <2>2. ASSUME NEW p \in Peers, p \in req[s].peers
        PROVE  /\ row'[p].ip = row[p].ip
               /\ InTable(row[p]) <=> InTable(row'[p])
    <3>1. /\ row[p] \in Row /\ req[s].obj[p] \in Row
          /\ req[s].key \in Keys \cup {NoKey}
      BY <1>1 DEF TypeOK, Request
    <3>2. NewRow(s, p) \in Row
      BY <3>1, TargetType DEF NewRow
    <3>3. row'[p] = Flush(row[p], req[s].obj[p], NewRow(s, p))
      BY <2>1, <2>2 DEF Committed
    <3>4. /\ row'[p].status = Column(row[p].status, req[s].obj[p].status,
                                     NewRow(s, p).status)
          /\ row'[p].ip = row[p].ip
      BY <3>1, <3>2, <3>3, FlushFacts
    <3>5. NewRow(s, p).status # req[s].obj[p].status
            => InTable(NewRow(s, p)) /\ InTable(row[p])
      BY <1>3, <2>2, <3>1, TargetFacts DEF CommitFails, NewRow, Exists
    <3> QED
      BY <3>4, <3>5 DEF InTable, Column
  <2>3. ASSUME NEW p \in Peers, p \notin req[s].peers
        PROVE  row'[p] = row[p]
    BY <2>1, <2>3 DEF Committed
  <2>4. Keeps
    BY <2>1, <2>2, <2>3 DEF Keeps
  <2>5. RowsRecorded(row', held')
    <3> SUFFICES ASSUME NEW p \in Peers, InTable(row'[p])
                 PROVE  <<p, row'[p].key>> \in held' /\ row'[p].ip \in Hosts
      BY DEF RowsRecorded
    <3>1. CASE p \in req[s].peers
      BY <2>1, <2>2, <3>1 DEF HolderInv, RowsRecorded, Exists
    <3>2. CASE p \notin req[s].peers
      BY <2>1, <2>3, <3>2 DEF HolderInv, RowsRecorded
    <3> QED
      BY <3>1, <3>2
  <2>6. SessionBacked(Continuation(s), row', held')
    BY ResumeBacked, IdleBacked DEF Continuation
  <2> QED
    BY <2>1, <2>4, <2>5, <2>6, HolderStep
<1> QED
  BY <1>2, <1>3

\* So does an INSERT, which records its key.
LEMMA InsertHolderStep ==
  ASSUME HolderInv, IdentityInv', NEW s \in Procs, Insert(s)
  PROVE  HolderInv'
<1>1. TypeOK /\ WellFormed(req[s]) /\ SessionBacked(req[s], row, held)
  BY DEF HolderInv, IdentityInv
<1>2. PICK n \in Peers :
        /\ CanInsert(s, n)
        /\ row' = [row EXCEPT ![n] = [status |-> "pending", key |-> req[s].key,
                                      priv |-> NoKey, ip |-> req[s].ip]]
        /\ held' = held \cup {<<n, req[s].key>>}
        /\ req' = [req EXCEPT ![s] =
                     IF req[s].op = "register" THEN Idle
                     ELSE Resume(req[s].op, "private", {n}, req[s].key)]
  BY DEF Insert
<1>3. /\ ~InTable(row[n])
      /\ row'[n] = [status |-> "pending", key |-> req[s].key,
                    priv |-> NoKey, ip |-> req[s].ip]
      /\ \A p \in Peers \ {n} : row'[p] = row[p]
  BY <1>1, <1>2 DEF CanInsert, InTable, TypeOK
<1>4. Keeps
  BY <1>2, <1>3 DEF Keeps
<1>5. req[s].ip \in Hosts
  BY <1>1 DEF Insert, WellFormed
<1>6. RowsRecorded(row', held')
  BY <1>2, <1>3, <1>5 DEF HolderInv, RowsRecorded
<1>7. SessionBacked(Resume(req[s].op, "private", {n}, req[s].key), row', held')
  <2>1. req[s].op # "delete_user"
    BY <1>1 DEF SessionBacked
  <2> QED
    BY <2>1 DEF SessionBacked, Resume, Idle
<1>8. gw' = gw /\ wire' = wire
  BY DEF Insert
<1> QED
  BY <1>2, <1>4, <1>6, <1>7, <1>8, IdleBacked, HolderStep

\* So does the commit of the private key.
LEMMA StoreHolderStep ==
  ASSUME HolderInv, IdentityInv', NEW s \in Procs, StorePrivateKey(s)
  PROVE  HolderInv'
<1>1. TypeOK /\ req[s].peers \subseteq Peers
  BY DEF HolderInv, IdentityInv, TypeOK, Request
<1>2. PICK p \in req[s].peers :
        IF Exists(p)
        THEN /\ row' = [row EXCEPT ![p] = [@ EXCEPT !.priv = req[s].key]]
             /\ req' = [req EXCEPT ![s] =
                          IF req[s].op = "create" THEN Idle
                          ELSE Resume("enroll", "reload", {p}, NoKey)]
        ELSE row' = row /\ req' = [req EXCEPT ![s] = Idle]
  BY DEF StorePrivateKey
<1>3. \A q \in Peers : /\ row'[q].status = row[q].status
                       /\ row'[q].key = row[q].key
                       /\ row'[q].ip = row[q].ip
  BY <1>1, <1>2 DEF TypeOK, Row
<1>4. held' = held /\ gw' = gw /\ wire' = wire
  BY DEF StorePrivateKey
<1>5. Keeps /\ RowsRecorded(row', held')
  BY <1>3, <1>4 DEF Keeps, HolderInv, RowsRecorded, InTable
<1>6. SessionBacked(Resume("enroll", "reload", {p}, NoKey), row', held')
  BY ResumeBacked
<1> QED
  BY <1>2, <1>4, <1>5, <1>6, IdleBacked, HolderStep

\* A call that applies a key carries the pair that the snapshot holds.
LEMMA CallBacked ==
  ASSUME HolderInv, NEW s \in Procs, NEW p \in Peers, Calling(s, p)
  PROVE  Backed(Call(s, p).key, Call(s, p).ip, row, held)
BY DEF HolderInv, SessionBacked, Calling, IsFirst, Call, Backed

\* wg-gateway takes an address from a message or from its table.
LEMMA ExecuteBacked ==
  ASSUME HolderInv, NEW m, m.kind = "apply" => Backed(m.key, m.ip, row, held),
         gw' = Execute(m)
  PROVE  \A k \in Keys : gw'[k] # NoIp => gw'[k] = gw[k] \/ Backed(k, gw'[k], row, held)
BY DEF Execute

\* So does every outcome of a gateway call.
LEMMA GatewayHolderStep ==
  ASSUME HolderInv, IdentityInv', NEW s \in Procs, NEW p \in Peers,
         GatewayOk(s, p) \/ GatewayRefuses(s, p) \/ AnswerLost(s, p) \/ CallDelayed(s, p)
  PROVE  HolderInv'
<1>1. TypeOK /\ req[s] \in Request /\ SessionBacked(req[s], row, held)
  BY DEF HolderInv, IdentityInv, TypeOK
<1>2. Calling(s, p) /\ row' = row /\ held' = held
  BY DEF GatewayOk, GatewayRefuses, AnswerLost, CallDelayed
<1>3. Keeps /\ RowsRecorded(row', held')
  BY <1>2 DEF Keeps, HolderInv
<1>4. \A k \in Keys : gw'[k] # NoIp => gw'[k] = gw[k] \/ Backed(k, gw'[k], row, held)
  BY <1>2, CallBacked, ExecuteBacked DEF GatewayOk, GatewayRefuses, AnswerLost, CallDelayed
<1>5. \A m \in wire' : m.kind = "apply" => m \in wire \/ Backed(m.key, m.ip, row, held)
  BY <1>2, CallBacked DEF GatewayOk, GatewayRefuses, AnswerLost, CallDelayed
<1>6. PICK pc \in {"ok", "failed"} : Answered(s, pc)
  BY DEF GatewayOk, GatewayRefuses, AnswerLost, CallDelayed
<1>7. SessionBacked([req[s] EXCEPT !.pc = pc], row', held')
  BY <1>1, <1>2 DEF SessionBacked, Calling, Request
<1> QED
  BY <1>3, <1>4, <1>5, <1>6, <1>7, IdleBacked, HolderStep DEF Answered

\* So does every later step of a session.
LEMMA ContinueHolderStep ==
  ASSUME HolderInv, IdentityInv', NEW s \in Procs, Continue(s)
  PROVE  HolderInv'
<1>1. TypeOK /\ req[s] \in Request /\ SessionBacked(req[s], row, held)
  BY DEF HolderInv, IdentityInv, TypeOK
<1>2. CASE AllocateVpnIp(s)
  <2>1. \A ip \in Hosts : SessionBacked([req[s] EXCEPT !.pc = "insert", !.ip = ip], row, held)
    BY <1>1 DEF SessionBacked, Request
  <2> QED
    BY <1>2, <2>1, IdleBacked, QuietHolderStep DEF AllocateVpnIp
<1>3. CASE Insert(s)
  BY <1>3, InsertHolderStep
<1>4. CASE InsertFails(s)
  BY <1>4, IdleBacked, QuietHolderStep DEF InsertFails
<1>5. CASE StorePrivateKey(s)
  BY <1>5, StoreHolderStep
<1>6. CASE Reload(s)
  <2>1. (\A p \in req[s].peers : Guard(req[s].op, row[p]))
          => SessionBacked(Loaded(req[s].op, req[s].peers, NoKey), row, held)
    BY <1>1, GuardInTable, LoadedBacked DEF SessionBacked, Request
  <2> QED
    BY <1>6, <2>1, IdleBacked, QuietHolderStep DEF Reload
<1>7. CASE Commit(s)
  BY <1>7, CommitHolderStep
<1>8. CASE CommitDeleteUser(s)
  BY <1>1, <1>8 DEF CommitDeleteUser, SessionBacked
<1>9. ASSUME NEW p \in Peers,
             GatewayOk(s, p) \/ GatewayRefuses(s, p) \/ AnswerLost(s, p) \/ CallDelayed(s, p)
      PROVE  HolderInv'
  BY <1>9, GatewayHolderStep
<1> QED
  BY <1>2, <1>3, <1>4, <1>5, <1>6, <1>7, <1>8, <1>9 DEF Continue

\* So does the UPDATE of the script.
LEMMA AgentUpdateHolderStep ==
  ASSUME HolderInv, IdentityInv', NEW p \in Peers, AgentUpdate(p)
  PROVE  HolderInv'
<1>1. /\ TypeOK /\ Agent \in Procs /\ req[Agent] \in Request
      /\ SessionBacked(req[Agent], row, held)
  BY DEF HolderInv, IdentityInv, TypeOK, Procs
<1> DEFINE rest == req[Agent].peers \ {p}
           r == IF rest = {} THEN Idle
                ELSE [req[Agent] EXCEPT !.pc = "loaded", !.peers = rest, !.obj[p] = NoRow]
<1>2. /\ req[Agent].pc \in {"ok", "failed"}
      /\ req' = [req EXCEPT ![Agent] = r]
      /\ row' = IF Exists(p)
                THEN [row EXCEPT ![p] = Revoked(row[p], req[Agent].pc = "ok")] ELSE row
      /\ held' = held /\ gw' = gw /\ wire' = wire
  BY DEF AgentUpdate
<1>3. \A ok \in BOOLEAN : /\ InTable(Revoked(row[p], ok))
                          /\ Revoked(row[p], ok).key = row[p].key
                          /\ Revoked(row[p], ok).ip = row[p].ip
  BY <1>1 DEF Revoked, InTable, TypeOK, Row
<1>4. \A q \in Peers : /\ InTable(row'[q]) <=> InTable(row[q])
                       /\ row'[q].key = row[q].key
                       /\ row'[q].ip = row[q].ip
  BY <1>1, <1>2, <1>3 DEF Exists, TypeOK
<1>5. Keeps /\ RowsRecorded(row', held')
  BY <1>2, <1>4 DEF Keeps, HolderInv, RowsRecorded
<1>6. \A q \in rest : [req[Agent] EXCEPT !.pc = "loaded", !.peers = rest, !.obj[p] = NoRow].obj[q]
                        = req[Agent].obj[q]
  BY <1>1 DEF Request
<1>7. SessionBacked(r, row', held')
  <2> DEFINE more == [req[Agent] EXCEPT !.pc = "loaded", !.peers = rest, !.obj[p] = NoRow]
  <2>1. more.op = req[Agent].op /\ more.peers = rest /\ rest \subseteq Peers
    BY <1>1 DEF Request
  <2>2. ASSUME NEW q \in rest
        PROVE  /\ InTable(row'[q])
               /\ <<q, more.obj[q].key>> \in held'
               /\ more.obj[q].ip = row'[q].ip
    <3>1. q \in req[Agent].peers /\ q \in Peers
      BY <2>1
    <3>2. /\ InTable(row[q])
          /\ <<q, req[Agent].obj[q].key>> \in held
          /\ req[Agent].obj[q].ip = row[q].ip
      BY <1>1, <1>2, <3>1 DEF SessionBacked
    <3> QED
      BY <1>2, <1>4, <1>6, <3>1, <3>2
  <2>3. SessionBacked(more, row', held')
    BY <1>1, <2>1, <2>2 DEF SessionBacked
  <2> QED
    BY <2>3, IdleBacked
<1> QED
  BY <1>1, <1>2, <1>5, <1>7, HolderStep

\* So do the steps that belong to no request.
LEMMA BackgroundHolderStep ==
  ASSUME HolderInv, IdentityInv',
         \/ DelayedCall \/ WorkerList \/ AgentList
         \/ \E p \in Peers : WorkerTake(p) \/ AgentUpdate(p)
         \/ \E s \in Procs : Crash(s)
         \/ Reboot
  PROVE  HolderInv'
<1>0. TypeOK /\ Worker \in Procs /\ Agent \in Procs
  BY DEF HolderInv, IdentityInv, Procs
<1>1. ASSUME row' = row, held' = held, req' = req,
             \A k \in Keys : gw'[k] # NoIp => gw'[k] = gw[k] \/ Backed(k, gw'[k], row, held),
             wire' \subseteq wire
      PROVE  HolderInv'
  <2>1. Keeps /\ RowsRecorded(row', held') /\ SessionBacked(req[Worker], row', held')
    BY <1>0, <1>1 DEF Keeps, HolderInv
  <2>2. req' = [req EXCEPT ![Worker] = req[Worker]]
    BY <1>0, <1>1 DEF TypeOK
  <2> QED
    BY <1>0, <1>1, <2>1, <2>2, HolderStep
<1>2. CASE DelayedCall
  <2>1. PICK m \in wire : gw' = Execute(m) /\ wire' = wire \ {m}
    BY <1>2 DEF DelayedCall
  <2>2. m.kind = "apply" => Backed(m.key, m.ip, row, held)
    BY DEF HolderInv
  <2> QED
    BY <1>1, <1>2, <2>1, <2>2, ExecuteBacked DEF DelayedCall
<1>3. CASE WorkerList
  BY <1>1, <1>3 DEF WorkerList
<1>4. CASE AgentList
  <2> DEFINE S == {p \in Peers : row[p].status = "pending_revoke"}
  <2>1. SessionBacked(Loaded("agent", S, NoKey), row, held)
    BY LoadedBacked DEF InTable
  <2> QED
    BY <1>0, <1>4, <2>1, QuietHolderStep DEF AgentList
<1>5. ASSUME NEW p \in Peers, WorkerTake(p) PROVE HolderInv'
  <2> DEFINE op == IF worker.phase = "pending" THEN "provision" ELSE "revoke"
  <2>1. CASE Guard(op, row[p])
    <3>1. SessionBacked(Loaded(op, {p}, NoKey), row, held)
      BY <2>1, GuardInTable, LoadedBacked
    <3> QED
      BY <1>0, <1>5, <2>1, <3>1, QuietHolderStep DEF WorkerTake
  <2>2. CASE ~Guard(op, row[p])
    BY <1>1, <1>5, <2>2 DEF WorkerTake
  <2> QED
    BY <2>1, <2>2
<1>6. ASSUME NEW p \in Peers, AgentUpdate(p) PROVE HolderInv'
  BY <1>6, AgentUpdateHolderStep
<1>7. ASSUME NEW s \in Procs, Crash(s) PROVE HolderInv'
  BY <1>7, IdleBacked, QuietHolderStep DEF Crash
<1>8. CASE Reboot
  BY <1>1, <1>8 DEF Reboot
<1> QED
  BY <1>2, <1>3, <1>4, <1>5, <1>6, <1>7, <1>8

\* An empty wg0 forwards nothing.
LEMMA InitHolder == Init => HolderInv
<1> SUFFICES ASSUME Init PROVE HolderInv
  OBVIOUS
<1>1. RowsRecorded(row, held)
  BY DEF Init, RowsRecorded, InTable, NoRow
<1>2. \A s \in Procs : SessionBacked(req[s], row, held)
  BY IdleBacked DEF Init
<1> QED
  BY <1>1, <1>2, InitIdentity DEF Init, HolderInv

\* Without account deletion no step gives an address to a key its row was not of.
LEMMA NextHolder ==
  ASSUME "delete_user" \notin Ops
  PROVE  HolderInv /\ [Next]_vars => HolderInv'
<1> SUFFICES ASSUME HolderInv, [Next]_vars PROVE HolderInv'
  OBVIOUS
<1>1. IdentityInv'
  BY NextIdentity DEF HolderInv
<1>2. CASE UNCHANGED vars
  BY <1>1, <1>2 DEF HolderInv, vars
<1>3. CASE Next
  BY <1>1, <1>3, StartHolderStep, ContinueHolderStep, BackgroundHolderStep DEF Next
<1> QED
  BY <1>2, <1>3

\* As long as accounts are not deleted, the gateway never forwards the address
\* of a row to a key that was not that row's, for any number of overlapping
\* sessions, of gateway calls executed late, of crashes and of reboots.
THEOREM AddressIsHeld ==
  ASSUME "delete_user" \notin Ops
  PROVE  Spec => []AddressBelongsToHolder
BY InitHolder, NextHolder, HolderGivesProperty, PTL DEF Spec
=============================================================================
