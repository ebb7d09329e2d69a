--------------------------- MODULE PeerRemovalProofs ---------------------------
(***************************************************************************)
(* A removed row gives no access, while no operation takes a row back to   *)
(* pending once the gateway may have its key.  remove_peer trusts the      *)
(* status: it marks a pending row removed with no call to the gateway, so  *)
(* what has to be shown is that wg0 has nothing for a pending row.         *)
(*                                                                         *)
(* The host's script, account deletion, refused calls, lost answers and    *)
(* reboots of the host are all in play, and sessions run side by side on   *)
(* different rows.                                                         *)
(***************************************************************************)
EXTENDS PeerAddressProofs

CoreOps == {"create", "enroll", "provision", "remove", "worker", "agent", "delete_user"}

\* One session per row, no late call and no crash, and none of the operations that
\* take a row back to pending once the gateway may have its key.
NeverRequeued ==
  /\ ~Overlap
  /\ MaxLate = 0 /\ MaxCrashes = 0
  /\ Ops \subseteq CoreOps

Unrouted(p, rows, g) == g[rows[p].key] = NoIp

Working == {"loaded", "ok", "failed"}

\* What session r knows about the rows it holds, unless it deletes an account.
Knows(r, p, rows, g) ==
  /\ InTable(rows[p]) /\ rows[p].status # "removed"
  /\ r.pc \in Working => r.obj[p] = rows[p]
  /\ r.op \in {"create", "enroll"} \/ (r.op = "provision" /\ r.pc = "reload") =>
       rows[p].status = "pending"
  /\ r.op = "remove" => CanRemove(rows[p])
  /\ r.op \in {"revoke", "agent"} /\ r.pc = "ok" /\ IsFirst(p, r.peers) =>
       Unrouted(p, rows, g)

SessionRemoval(r, rows, g) ==
  /\ r.op \in (CoreOps \ {"worker"}) \cup {"none", "revoke"}
  /\ r.pc = "idle" => r.peers = {}
  /\ r.pc \in {"allocate", "insert", "private"} => r.op \in {"create", "enroll"} /\ r.key \in Keys
  /\ r.pc = "reload" => r.op \in {"enroll", "provision"}
  /\ r.op \in {"enroll", "provision", "revoke"} => \A p, q \in r.peers : p = q
  /\ \A p \in r.peers :
       /\ rows[p].status # "absent"
       /\ r.op # "delete_user" => Knows(r, p, rows, g)

\* Session r has called the gateway for row p and is yet to commit the answer.
Provisioning(r, p) ==
  r.op = "provision" /\ r.pc \in {"ok", "failed"} /\ p \in r.peers

RowRemoval(p, rows, g, rq) ==
  InTable(rows[p]) =>
    /\ rows[p].key \in Keys
    /\ rows[p].status = "removed" => Unrouted(p, rows, g)
    /\ rows[p].status = "pending" =>
         Unrouted(p, rows, g) \/ \E s \in Procs : Provisioning(rq[s], p)

\* wg0 forwards to keys of the table only.
GatewayKnown(rows, g) ==
  \A k \in Keys : g[k] # NoIp => \E p \in Peers : InTable(rows[p]) /\ rows[p].key = k

RemovalInv ==
  /\ IdentityInv
  /\ \A s, t \in Procs : s # t => req[s].peers \cap req[t].peers = {}
  /\ \A s \in Procs : SessionRemoval(req[s], row, gw)
  /\ \A p \in Peers : RowRemoval(p, row, gw, req)
  /\ GatewayKnown(row, gw)
  /\ wire = {}

\* What the invariant says of rows that no session works on.
LEMMA RemovalGivesProperty == RemovalInv => RemovedIsUnrouted
BY DEF RemovalInv, RowRemoval, Unrouted, InTable, RemovedIsUnrouted
-----------------------------------------------------------------------------
(* What every step has to show.                                            *)

\* The types behind the invariant, as the steps use them.
LEMMA RemovalTypes ==
  ASSUME RemovalInv
  PROVE  /\ row \in [Peers -> Row] /\ gw \in [Keys -> Hosts \cup {NoIp}]
         /\ req \in [Procs -> Request]
         /\ \A s \in Procs : req[s].peers \subseteq Peers /\ SessionRemoval(req[s], row, gw)
BY DEF RemovalInv, IdentityInv, TypeOK, Request

\* What one session knows stays true while the others leave its rows alone and
\* call the gateway for rows of their own.
LEMMA KnowsKept ==
  ASSUME NEW r, NEW p, NEW rows, NEW g, NEW rows2, NEW g2,
         Knows(r, p, rows, g), rows2[p] = rows[p],
         Unrouted(p, rows, g) => Unrouted(p, rows2, g2)
  PROVE  Knows(r, p, rows2, g2)
BY DEF Knows

\* A step keeps the invariant if the session it moves is in order, the others
\* keep their rows, and the rows and wg0 are in order afterwards.
LEMMA RemovalStep ==
  ASSUME RemovalInv, IdentityInv', NEW s \in Procs, NEW r,
         req' = [req EXCEPT ![s] = r],
         \A t \in Procs \ {s} : r.peers \cap req[t].peers = {},
         SessionRemoval(r, row', gw'),
         \A t \in Procs \ {s} : \A p \in req[t].peers :
           /\ row'[p].status # "absent"
           /\ req[t].op # "delete_user" =>
                row'[p] = row[p] /\ (Unrouted(p, row, gw) => Unrouted(p, row', gw')),
         \A p \in Peers : RowRemoval(p, row', gw', req'),
         GatewayKnown(row', gw'), wire' = {}
  PROVE  RemovalInv'
<1>1. \A t \in Procs : req'[t] = IF t = s THEN r ELSE req[t]
  BY RemovalTypes
<1>2. ASSUME NEW t \in Procs \ {s} PROVE SessionRemoval(req[t], row', gw')
  <2>1. SessionRemoval(req[t], row, gw)
    BY RemovalTypes
  <2>2. ASSUME NEW p \in req[t].peers, req[t].op # "delete_user"
        PROVE  Knows(req[t], p, row', gw')
    BY <2>1, <2>2, KnowsKept DEF SessionRemoval
  <2> QED
    BY <2>1, <2>2 DEF SessionRemoval
<1>3. \A t \in Procs : SessionRemoval(req'[t], row', gw')
  BY <1>1, <1>2
<1>4. \A t, u \in Procs : t # u => req'[t].peers \cap req'[u].peers = {}
  BY <1>1 DEF RemovalInv
<1> QED
  BY <1>3, <1>4 DEF RemovalInv

\* A step that changes only what process s remembers, before its gateway call.
LEMMA QuietRemovalStep ==
  ASSUME RemovalInv, IdentityInv', NEW s \in Procs, NEW r,
         req' = [req EXCEPT ![s] = r], row' = row, gw' = gw, wire' = wire,
         req[s].pc \notin {"ok", "failed"},
         \A t \in Procs \ {s} : r.peers \cap req[t].peers = {},
         SessionRemoval(r, row, gw)
  PROVE  RemovalInv'
<1>1. ASSUME NEW p \in Peers PROVE RowRemoval(p, row', gw', req')
  <2>1. RowRemoval(p, row, gw, req)
    BY DEF RemovalInv
  <2>2. ASSUME NEW t \in Procs, Provisioning(req[t], p) PROVE Provisioning(req'[t], p)
    <3>1. t # s
      BY <2>2 DEF Provisioning
    <3> QED
      BY <2>2, <3>1, RemovalTypes
  <2> QED
    BY <2>1, <2>2 DEF RowRemoval
<1>2. GatewayKnown(row', gw') /\ wire' = {}
  BY DEF RemovalInv
<1>3. ASSUME NEW t \in Procs \ {s}, NEW p \in req[t].peers
      PROVE  row'[p].status # "absent"
  BY RemovalTypes DEF SessionRemoval
<1> QED
  BY <1>1, <1>2, <1>3, RemovalStep

\* A process that holds nothing works on no row.
LEMMA IdleRemoval ==
  /\ Idle.op = "none" /\ Idle.peers = {}
  /\ \A rows, g : SessionRemoval(Idle, rows, g)
BY DEF Idle, SessionRemoval

\* A process that gives up before its gateway call forgets its snapshot.
LEMMA IdleRemovalStep ==
  ASSUME RemovalInv, IdentityInv', NEW s \in Procs, req' = [req EXCEPT ![s] = Idle],
         row' = row, gw' = gw, wire' = wire, req[s].pc \notin {"ok", "failed"}
  PROVE  RemovalInv'
BY IdleRemoval, QuietRemovalStep

\* A session that has just loaded its rows has them as they are.
LEMMA LoadedRemoval ==
  ASSUME NEW op \in {"enroll", "provision", "remove", "revoke", "agent"},
         NEW S \in SUBSET Peers, NEW k,
         op \in {"enroll", "provision", "revoke"} => \A p, q \in S : p = q,
         \A p \in S : row[p].status # "absent" /\ InTable(row[p]) /\ row[p].status # "removed",
         op = "remove" => \A p \in S : CanRemove(row[p]),
         op = "enroll" => \A p \in S : row[p].status = "pending"
  PROVE  /\ SessionRemoval(Loaded(op, S, k), row, gw)
         /\ Loaded(op, S, k).op = op /\ Loaded(op, S, k).peers = S
<1>1. /\ Loaded(op, S, k).op = op /\ Loaded(op, S, k).peers = S
      /\ Loaded(op, S, k).pc = "loaded" /\ Loaded(op, S, k).key = k
      /\ \A p \in S : Loaded(op, S, k).obj[p] = row[p]
  BY DEF Loaded, Idle
<1> HIDE DEF Loaded
<1> DEFINE r == Loaded(op, S, k)
<1>2. ASSUME NEW p \in S PROVE Knows(r, p, row, gw)
  BY <1>1 DEF Knows
<1> QED
  BY <1>1, <1>2 DEF SessionRemoval, CoreOps

\* The guards admit no removed row to work that is neither patch nor debug.
LEMMA GuardNotRemoved ==
  ASSUME NEW op \in {"enroll", "provision", "remove", "revoke"}, NEW r, Guard(op, r)
  PROVE  InTable(r) /\ r.status # "removed" /\ r.status # "absent"
BY DEF Guard, CanRecalculate, CanProvision, CanRemove, CanRevoke, InTable

-----------------------------------------------------------------------------
(* Requests that start.                                                    *)

\* Loading rows nobody works on keeps the invariant.
LEMMA LoadRemovalStep ==
  ASSUME RemovalInv, IdentityInv', ~Overlap, NEW s \in Clients,
         NEW op \in {"provision", "remove"}, NEW p \in Peers, Load(s, op, {p}, NoKey)
  PROVE  RemovalInv'
<1> DEFINE r == Loaded(op, {p}, NoKey)
<1>1. s \in Procs
  BY DEF Procs
<1>2. /\ row' = row /\ gw' = gw /\ wire' = wire /\ req' = [req EXCEPT ![s] = r]
      /\ req[s].pc = "idle" /\ Guard(op, row[p])
      /\ \A t \in Procs \ {s} : {p} \cap req[t].peers = {}
  BY DEF Load, Free
<1>3. InTable(row[p]) /\ row[p].status # "removed" /\ row[p].status # "absent"
  BY <1>2, GuardNotRemoved
<1>4. op = "remove" => CanRemove(row[p])
  BY <1>2 DEF Guard
<1>5. SessionRemoval(r, row, gw) /\ r.peers = {p}
  BY <1>3, <1>4, LoadedRemoval
<1> HIDE DEF r
<1> QED
  BY <1>1, <1>2, <1>5, QuietRemovalStep

\* So does loading the removed rows of an account that is to be deleted.
LEMMA DeleteUserRemovalStep ==
  ASSUME RemovalInv, IdentityInv', ~Overlap, NEW s \in Clients, NEW u \in Users,
         DeleteUser(s, u)
  PROVE  RemovalInv'
<1> DEFINE S == {p \in Peers : Owner[p] = u /\ Exists(p)}
           r == [Loaded("delete_user", S, NoKey) EXCEPT !.user = u]
<1>1. s \in Procs
  BY DEF Procs
<1>2. /\ row' = row /\ gw' = gw /\ wire' = wire /\ req' = [req EXCEPT ![s] = r]
      /\ req[s].pc = "idle"
      /\ \A t \in Procs \ {s} : S \cap req[t].peers = {}
  BY DEF DeleteUser, Free
<1>3. r.op = "delete_user" /\ r.peers = S /\ r.pc = "loaded"
  BY DEF Loaded, Idle
<1>4. SessionRemoval(r, row, gw)
  BY <1>3 DEF SessionRemoval, CoreOps, Exists, InTable
<1> HIDE DEF r
<1> QED
  BY <1>1, <1>2, <1>3, <1>4, QuietRemovalStep

\* Beginning a registration keeps it.
LEMMA BeginRemovalStep ==
  ASSUME RemovalInv, IdentityInv', NEW s \in Clients, NEW op \in {"create", "enroll"},
         NEW u, NEW k \in Keys, Begin(s, op, u, k)
  PROVE  RemovalInv'
<1> DEFINE r == [Idle EXCEPT !.op = op, !.pc = "allocate", !.user = u, !.key = k]
<1>1. s \in Procs
  BY DEF Procs
<1>2. r.peers = {} /\ SessionRemoval(r, row, gw)
  BY DEF Idle, SessionRemoval, CoreOps
<1>3. /\ row' = row /\ gw' = gw /\ wire' = wire /\ req' = [req EXCEPT ![s] = r]
      /\ req[s].pc = "idle"
  BY DEF Begin
<1> HIDE DEF r
<1> QED
  BY <1>1, <1>2, <1>3, QuietRemovalStep

\* So does every first step of a request.
LEMMA StartRemovalStep ==
  ASSUME NeverRequeued, RemovalInv, IdentityInv', NEW s \in Clients, Start(s)
  PROVE  RemovalInv'
<1>0. ~Overlap /\ Ops \subseteq CoreOps
  BY DEF NeverRequeued
<1>1. ASSUME NEW p \in Peers, Provision(s, p) PROVE RemovalInv'
  BY <1>0, <1>1, LoadRemovalStep DEF Provision
<1>2. ASSUME NEW p \in Peers, Remove(s, p) PROVE RemovalInv'
  BY <1>0, <1>2, LoadRemovalStep DEF Remove
<1>3. ASSUME NEW u \in Users, DeleteUser(s, u) PROVE RemovalInv'
  BY <1>0, <1>3, DeleteUserRemovalStep
<1>4. ASSUME NEW u \in Users, Create(s, u) PROVE RemovalInv'
  BY <1>4, BeginRemovalStep DEF Create, FreshKeys
<1>5. ASSUME NEW u \in Users, Enroll(s, u) PROVE RemovalInv'
  BY <1>5, BeginRemovalStep DEF Enroll, FreshKeys
<1>6. ASSUME NEW p \in Peers
      PROVE  /\ ~Recalculate(s, p) /\ ~Retry(s, p) /\ ~DebugProvision(s, p)
             /\ ~Patch(s, p) /\ ~Regenerate(s, p) /\ ~RegisterKnown(s, p)
  BY <1>0 DEF CoreOps, Recalculate, Retry, DebugProvision, Patch, Regenerate, RegisterKnown
<1>7. ASSUME NEW u \in Users PROVE ~RecalculateUser(s, u) /\ ~RegisterNew(s, u)
  BY <1>0 DEF CoreOps, RecalculateUser, RegisterNew, Begin
<1> QED
  BY <1>1, <1>2, <1>3, <1>4, <1>5, <1>6, <1>7 DEF Start

-----------------------------------------------------------------------------
(* Registration.                                                           *)

\* Choosing an address keeps the invariant.
LEMMA AllocateRemovalStep ==
  ASSUME RemovalInv, IdentityInv', NEW s \in Procs, AllocateVpnIp(s)
  PROVE  RemovalInv'
<1>1. row' = row /\ gw' = gw /\ wire' = wire /\ req[s].pc = "allocate"
  BY DEF AllocateVpnIp
<1>2. CASE req' = [req EXCEPT ![s] = Idle]
  BY <1>1, <1>2, IdleRemovalStep
<1>3. ASSUME NEW ip, req' = [req EXCEPT ![s] = [@ EXCEPT !.pc = "insert", !.ip = ip]]
      PROVE  RemovalInv'
  <2> DEFINE r == [req[s] EXCEPT !.pc = "insert", !.ip = ip]
  <2>1. req[s] \in Request /\ SessionRemoval(req[s], row, gw)
    BY RemovalTypes
  <2>2. r.op = req[s].op /\ r.peers = req[s].peers /\ r.key = req[s].key /\ r.pc = "insert"
    BY <2>1 DEF Request
  <2>3. req' = [req EXCEPT ![s] = r]
    BY <1>3
  <2> HIDE DEF r
  <2>4. SessionRemoval(r, row, gw)
    BY <1>1, <2>1, <2>2 DEF SessionRemoval, Knows, Working
  <2>5. \A t \in Procs \ {s} : r.peers \cap req[t].peers = {}
    BY <2>2 DEF RemovalInv
  <2> QED
    BY <1>1, <2>3, <2>4, <2>5, QuietRemovalStep
<1> QED
  BY <1>2, <1>3 DEF AllocateVpnIp

\* A key that no row has is unknown to wg0.
LEMMA FreshIsUnrouted ==
  ASSUME RemovalInv, NEW p \in Peers, ~Exists(p), NEW k \in Keys, ~KeyTaken(k, p)
  PROVE  gw[k] = NoIp
BY DEF RemovalInv, GatewayKnown, KeyTaken, Exists

\* An INSERT keeps it: the unique constraint on the key makes the new row unrouted.
LEMMA InsertRemovalStep ==
  ASSUME RemovalInv, IdentityInv', NEW s \in Procs, Insert(s)
  PROVE  RemovalInv'
<1> DEFINE op == req[s].op
           k == req[s].key
<1>1. PICK p \in Peers :
        /\ CanInsert(s, p)
        /\ row' = [row EXCEPT ![p] = [status |-> "pending", key |-> k,
                                      priv |-> NoKey, ip |-> req[s].ip]]
        /\ req' = [req EXCEPT ![s] = IF op = "register" THEN Idle
                                     ELSE Resume(op, "private", {p}, k)]
  BY DEF Insert
<1> DEFINE r == Resume(op, "private", {p}, k)
<1>2. gw' = gw /\ wire' = {} /\ req[s].pc = "insert"
  BY DEF Insert, RemovalInv
<1>3. op \in {"create", "enroll"} /\ k \in Keys
  BY <1>2, RemovalTypes DEF SessionRemoval
<1>4. /\ row'[p] = [status |-> "pending", key |-> k, priv |-> NoKey, ip |-> req[s].ip]
      /\ \A q \in Peers \ {p} : row'[q] = row[q]
      /\ row[p].status = "absent"
  BY <1>1, RemovalTypes DEF CanInsert
<1>5. gw[k] = NoIp
  BY <1>1, <1>3, <1>4, FreshIsUnrouted DEF CanInsert, Exists, InTable
<1>6. ASSUME NEW t \in Procs PROVE p \notin req[t].peers
  BY <1>4, RemovalTypes DEF SessionRemoval
<1>7. req' = [req EXCEPT ![s] = r] /\ r.peers = {p} /\ r.op = op /\ r.pc = "private" /\ r.key = k
  BY <1>1, <1>3 DEF Resume, Idle
<1> HIDE DEF r
<1>8. SessionRemoval(r, row', gw')
  <2>1. Knows(r, p, row', gw')
    BY <1>3, <1>4, <1>7 DEF Knows, InTable, Working
  <2> QED
    BY <1>3, <1>4, <1>7, <2>1 DEF SessionRemoval, CoreOps
<1>9. ASSUME NEW q \in Peers PROVE RowRemoval(q, row', gw', req')
  <2>1. CASE q = p
    BY <1>2, <1>3, <1>4, <1>5, <2>1 DEF RowRemoval, Unrouted
  <2>2. CASE q # p
    <3>1. row'[q] = row[q] /\ RowRemoval(q, row, gw, req)
      BY <1>4, <2>2 DEF RemovalInv
    <3>2. ASSUME NEW t \in Procs, Provisioning(req[t], q) PROVE Provisioning(req'[t], q)
      <4>1. t # s
        BY <1>2, <3>2 DEF Provisioning
      <4> QED
        BY <1>7, <3>2, <4>1, RemovalTypes
    <3> QED
      BY <1>2, <3>1, <3>2 DEF RowRemoval, Unrouted
  <2> QED
    BY <2>1, <2>2
<1>10. ASSUME NEW t \in Procs \ {s}, NEW q \in req[t].peers
       PROVE  /\ row'[q].status # "absent"
              /\ req[t].op # "delete_user" =>
                   row'[q] = row[q] /\ (Unrouted(q, row, gw) => Unrouted(q, row', gw'))
  <2>1. q \in Peers \ {p}
    BY <1>6, RemovalTypes
  <2> QED
    BY <1>2, <1>4, <2>1, RemovalTypes DEF SessionRemoval, Unrouted
<1>11. GatewayKnown(row', gw')
  BY <1>2, <1>4 DEF RemovalInv, GatewayKnown, InTable
<1>12. \A t \in Procs \ {s} : r.peers \cap req[t].peers = {}
  BY <1>6, <1>7
<1> QED
  BY <1>2, <1>7, <1>8, <1>9, <1>10, <1>11, <1>12, RemovalStep

\* The commit of the private key keeps it: no other column changes.
LEMMA StoreRemovalStep ==
  ASSUME RemovalInv, IdentityInv', NEW s \in Procs, StorePrivateKey(s)
  PROVE  RemovalInv'
<1> DEFINE op == req[s].op
<1>1. SessionRemoval(req[s], row, gw) /\ req[s] \in Request /\ req[s].pc = "private"
  BY RemovalTypes DEF StorePrivateKey
<1>2. op \in {"create", "enroll"}
  BY <1>1 DEF SessionRemoval
<1>3. PICK p \in req[s].peers :
        /\ row' = [row EXCEPT ![p] = [@ EXCEPT !.priv = req[s].key]]
        /\ req' = [req EXCEPT ![s] = IF op = "create" THEN Idle
                                     ELSE Resume("enroll", "reload", {p}, NoKey)]
  BY <1>1, <1>2 DEF StorePrivateKey, SessionRemoval, Exists, Knows
<1> DEFINE r == IF op = "create" THEN Idle ELSE Resume("enroll", "reload", {p}, NoKey)
<1>4. p \in Peers /\ InTable(row[p]) /\ row[p].status = "pending"
  BY <1>1, <1>2, RemovalTypes DEF SessionRemoval, Knows
<1>5. \A q \in Peers : /\ row'[q].status = row[q].status /\ row'[q].key = row[q].key
                       /\ q # p => row'[q] = row[q]
  BY <1>3, <1>4, RemovalTypes DEF Row
<1>6. gw' = gw /\ wire' = {}
  BY DEF StorePrivateKey, RemovalInv
<1>7. req' = [req EXCEPT ![s] = r] /\ r.peers \subseteq {p}
      /\ (r = Idle \/ (r.op = "enroll" /\ r.pc = "reload"))
  BY <1>3 DEF Resume, Idle
<1> HIDE DEF r
<1>8. SessionRemoval(r, row', gw')
  <2>1. CASE r = Idle
    BY <2>1, IdleRemoval
  <2>2. CASE r.op = "enroll" /\ r.pc = "reload"
    <3>1. Knows(r, p, row', gw')
      BY <1>4, <1>5, <2>2 DEF Knows, InTable, Working
    <3> QED
      BY <1>4, <1>5, <1>7, <2>2, <3>1 DEF SessionRemoval, CoreOps
  <2> QED
    BY <1>7, <2>1, <2>2
<1>9. ASSUME NEW q \in Peers PROVE RowRemoval(q, row', gw', req')
  <2>1. RowRemoval(q, row, gw, req)
    BY DEF RemovalInv
  <2>2. ASSUME NEW t \in Procs, Provisioning(req[t], q) PROVE Provisioning(req'[t], q)
    <3>1. t # s
      BY <1>1, <2>2 DEF Provisioning
    <3> QED
      BY <1>7, <2>2, <3>1, RemovalTypes
  <2> QED
    BY <1>5, <1>6, <2>1, <2>2 DEF RowRemoval, Unrouted, InTable
<1>10. ASSUME NEW t \in Procs \ {s}, NEW q \in req[t].peers
       PROVE  /\ row'[q].status # "absent"
              /\ req[t].op # "delete_user" =>
                   row'[q] = row[q] /\ (Unrouted(q, row, gw) => Unrouted(q, row', gw'))
  <2>1. q \in Peers /\ q # p
    BY RemovalTypes DEF RemovalInv
  <2> QED
    BY <1>5, <1>6, <2>1, RemovalTypes DEF SessionRemoval, Unrouted
<1>11. GatewayKnown(row', gw')
  BY <1>5, <1>6 DEF RemovalInv, GatewayKnown, InTable
<1>12. \A t \in Procs \ {s} : r.peers \cap req[t].peers = {}
  BY <1>7 DEF RemovalInv
<1> QED
  BY <1>6, <1>7, <1>8, <1>9, <1>10, <1>11, <1>12, RemovalStep

\* Going on with the row that was committed keeps it.
LEMMA ReloadRemovalStep ==
  ASSUME RemovalInv, IdentityInv', NEW s \in Procs, Reload(s)
  PROVE  RemovalInv'
<1> DEFINE op == req[s].op
           S == req[s].peers
           r == Loaded(op, S, NoKey)
<1>1. row' = row /\ gw' = gw /\ wire' = wire /\ req[s].pc = "reload"
  BY DEF Reload
<1>2. CASE req' = [req EXCEPT ![s] = Idle]
  BY <1>1, <1>2, IdleRemovalStep
<1>3. CASE req' = [req EXCEPT ![s] = r]
  <2>1. SessionRemoval(req[s], row, gw) /\ S \subseteq Peers
    BY RemovalTypes
  <2>2. op \in {"enroll", "provision"}
    BY <1>1, <2>1 DEF SessionRemoval
  <2>3. \A p \in S : /\ row[p].status # "absent" /\ InTable(row[p])
                     /\ row[p].status = "pending"
    BY <1>1, <2>1, <2>2 DEF SessionRemoval, Knows
  <2>6. op \in {"enroll", "provision", "revoke"} => \A p, q \in S : p = q
    BY <2>1 DEF SessionRemoval
  <2>4. SessionRemoval(r, row, gw) /\ r.peers = S
    BY <2>1, <2>2, <2>3, <2>6, LoadedRemoval
  <2>5. \A t \in Procs \ {s} : r.peers \cap req[t].peers = {}
    BY <2>4 DEF RemovalInv
  <2> HIDE DEF r
  <2> QED
    BY <1>1, <1>3, <2>4, <2>5, QuietRemovalStep
<1> QED
  BY <1>2, <1>3 DEF Reload

-----------------------------------------------------------------------------
(* The commit.  The snapshot is the row, so the flush writes exactly what  *)
(* the operation makes of the row.                                         *)

\* A pending row that a session holds is unknown to wg0 until the session itself
\* has called the gateway for it.
LEMMA PendingIsUnrouted ==
  ASSUME RemovalInv, NEW s \in Procs, NEW p \in req[s].peers,
         ~Provisioning(req[s], p), row[p].status = "pending"
  PROVE  Unrouted(p, row, gw)
<1>1. p \in Peers
  BY RemovalTypes
<1>2. \A t \in Procs : ~Provisioning(req[t], p)
  BY DEF RemovalInv, Provisioning
<1> QED
  BY <1>1, <1>2 DEF RemovalInv, RowRemoval, InTable

\* What a session that is ready to commit holds.
LEMMA ReadyKnows ==
  ASSUME RemovalInv, NEW s \in Procs, ReadyToCommit(s), NEW p \in req[s].peers
  PROVE  /\ p \in Peers /\ row[p] \in Row /\ InTable(row[p]) /\ row[p].status # "removed"
         /\ req[s].obj[p] = row[p]
         /\ req[s].op \in {"create", "enroll", "none", "provision", "revoke", "remove"}
         /\ req[s].op \in {"create", "enroll"} => row[p].status = "pending"
         /\ req[s].op = "remove" => CanRemove(row[p])
         /\ req[s].op = "provision" => req[s].pc \in {"ok", "failed"}
         /\ req[s].op = "revoke" /\ req[s].pc = "ok" => Unrouted(p, row, gw)
<1>1. SessionRemoval(req[s], row, gw) /\ req[s] \in Request /\ p \in Peers /\ row[p] \in Row
  BY RemovalTypes
<1>2. /\ req[s].pc \in Working /\ req[s].op \notin {"delete_user", "agent"}
      /\ req[s].op = "provision" => req[s].pc \in {"ok", "failed"}
  BY DEF ReadyToCommit, Working, GatewayOps
<1>3. Knows(req[s], p, row, gw)
  BY <1>1, <1>2 DEF SessionRemoval
<1>4. req[s].op = "revoke" => IsFirst(p, req[s].peers)
  BY <1>1, PeersAssumption DEF SessionRemoval, IsFirst
<1>5. req[s].op \in {"create", "enroll", "none", "provision", "revoke", "remove"}
  BY <1>1, <1>2 DEF SessionRemoval, CoreOps
<1> QED
  BY <1>1, <1>2, <1>3, <1>4, <1>5 DEF Knows

\* What the operation makes of the row: the same key, and removed or pending only
\* if wg0 has nothing for it.
LEMMA NewRowUnrouted ==
  ASSUME RemovalInv, NEW s \in Procs, ReadyToCommit(s), NEW p \in req[s].peers
  PROVE  /\ NewRow(s, p) \in Row /\ InTable(NewRow(s, p))
         /\ NewRow(s, p).key = row[p].key /\ NewRow(s, p).ip = row[p].ip
         /\ req[s].op = "enroll" => NewRow(s, p).status = "pending"
         /\ NewRow(s, p).status \in {"removed", "pending"} => Unrouted(p, row, gw)
<1> DEFINE op == req[s].op
<1>1. /\ row[p] \in Row /\ InTable(row[p]) /\ row[p].status # "removed"
      /\ req[s].obj[p] = row[p]
      /\ op \in {"create", "enroll", "none", "provision", "revoke", "remove"}
      /\ op \in {"create", "enroll"} => row[p].status = "pending"
      /\ op = "revoke" /\ req[s].pc = "ok" => Unrouted(p, row, gw)
  BY ReadyKnows
<1>2. NewRow(s, p) = Target(op, row[p], req[s].key, req[s].pc = "ok")
  BY <1>1 DEF NewRow
<1>3. op # "provision" /\ row[p].status = "pending" => Unrouted(p, row, gw)
  BY PendingIsUnrouted DEF Provisioning
<1>4. CASE op \in {"create", "none"}
  BY <1>1, <1>2, <1>3, <1>4 DEF Target
<1>5. CASE op = "enroll"
  BY <1>1, <1>2, <1>3, <1>5 DEF Target, Recalculated, Row, Status, InTable
<1>6. CASE op = "provision"
  BY <1>1, <1>2, <1>6 DEF Target, Provisioned, Row, Status, InTable
<1>7. CASE op = "revoke"
  BY <1>1, <1>2, <1>7 DEF Target, Revoked, Row, Status, InTable
<1>8. CASE op = "remove"
  BY <1>1, <1>2, <1>3, <1>8 DEF Target, RemoveRequested, Row, Status, InTable
<1> HIDE DEF op
<1> QED
  BY <1>1, <1>4, <1>5, <1>6, <1>7, <1>8

\* A commit replaces the rows by what the operation makes of them.
LEMMA CommitRemovalRows ==
  ASSUME RemovalInv, NEW s \in Procs, Commit(s)
  PROVE  /\ req' = [req EXCEPT ![s] = Continuation(s)]
         /\ \A p \in Peers : row'[p] = IF p \in req[s].peers THEN NewRow(s, p) ELSE row[p]
<1>1. ReadyToCommit(s)
  BY DEF Commit
<1>2. ASSUME NEW p \in req[s].peers
      PROVE  /\ NewRow(s, p).key = req[s].obj[p].key /\ Exists(p)
             /\ Flush(row[p], req[s].obj[p], NewRow(s, p)) = NewRow(s, p)
  <2>1. row[p] \in Row /\ InTable(row[p]) /\ req[s].obj[p] = row[p]
    BY <1>1, ReadyKnows
  <2>2. /\ NewRow(s, p) \in Row /\ NewRow(s, p).key = row[p].key
        /\ NewRow(s, p).ip = row[p].ip
    BY <1>1, NewRowUnrouted
  <2> QED
    BY <2>1, <2>2, FlushExact DEF Exists
<1>3. ~CommitFails(s)
  BY <1>2 DEF CommitFails
<1> QED
  BY <1>2, <1>3 DEF Commit, Committed

\* A commit keeps the invariant.
LEMMA CommitRemovalStep ==
  ASSUME RemovalInv, IdentityInv', NEW s \in Procs, Commit(s)
  PROVE  RemovalInv'
<1> DEFINE S == req[s].peers
           r == Continuation(s)
<1>1. ReadyToCommit(s) /\ gw' = gw /\ wire' = {}
  BY DEF Commit, RemovalInv
<1>2. /\ req' = [req EXCEPT ![s] = r] /\ S \subseteq Peers
      /\ \A p \in Peers : row'[p] = IF p \in S THEN NewRow(s, p) ELSE row[p]
  BY CommitRemovalRows, RemovalTypes
<1>3. \A p \in S : /\ InTable(row'[p]) /\ InTable(row[p]) /\ row'[p].key = row[p].key
                   /\ req[s].op = "enroll" => row'[p].status = "pending"
                   /\ row'[p].status \in {"removed", "pending"} => Unrouted(p, row, gw)
  BY <1>1, <1>2, NewRowUnrouted, ReadyKnows
<1>4. /\ req[s].op = "enroll" => r = Resume("provision", "reload", S, NoKey)
      /\ req[s].op # "enroll" /\ S # {} => r = Idle
      /\ r.peers \subseteq S
  BY <1>1, ReadyKnows DEF Continuation, Resume, Idle
<1>5. SessionRemoval(r, row', gw')
  <2>1. CASE req[s].op = "enroll"
    <3>1. /\ r.op = "provision" /\ r.pc = "reload" /\ r.peers = S
      BY <1>4, <2>1 DEF Resume, Idle
    <3>2. \A p, q \in S : p = q
      BY <2>1, RemovalTypes DEF SessionRemoval
    <3>3. \A p \in S : Knows(r, p, row', gw')
      BY <1>3, <2>1, <3>1 DEF Knows, Working
    <3> HIDE DEF r
    <3> QED
      BY <1>3, <3>1, <3>2, <3>3 DEF SessionRemoval, CoreOps, InTable
  <2>2. CASE req[s].op # "enroll"
    <3>1. req[s].op # "patch"
      BY RemovalTypes DEF SessionRemoval, CoreOps
    <3> QED
      BY <2>2, <3>1, IdleRemoval DEF Continuation
  <2> QED
    BY <2>1, <2>2
<1> HIDE DEF r
<1>6. ASSUME NEW q \in Peers PROVE RowRemoval(q, row', gw', req')
  <2>1. RowRemoval(q, row, gw, req)
    BY DEF RemovalInv
  <2>2. CASE q \in S
    BY <1>1, <1>3, <2>1, <2>2 DEF RowRemoval, Unrouted
  <2>3. CASE q \notin S
    <3>1. ASSUME NEW t \in Procs, Provisioning(req[t], q) PROVE Provisioning(req'[t], q)
      <4>1. t # s
        BY <2>3, <3>1 DEF Provisioning
      <4> QED
        BY <1>2, <3>1, <4>1, RemovalTypes
    <3> QED
      BY <1>1, <1>2, <2>1, <2>3, <3>1 DEF RowRemoval, Unrouted
  <2> QED
    BY <2>2, <2>3
<1>7. ASSUME NEW t \in Procs \ {s}, NEW q \in req[t].peers
      PROVE  /\ row'[q].status # "absent"
             /\ req[t].op # "delete_user" =>
                  row'[q] = row[q] /\ (Unrouted(q, row, gw) => Unrouted(q, row', gw'))
  <2>1. q \in Peers /\ q \notin S
    BY RemovalTypes DEF RemovalInv
  <2> QED
    BY <1>1, <1>2, <2>1, RemovalTypes DEF SessionRemoval, Unrouted
<1>8. GatewayKnown(row', gw')
  <2>1. \A p \in Peers : InTable(row[p]) => InTable(row'[p]) /\ row'[p].key = row[p].key
    BY <1>2, <1>3
  <2> QED
    BY <1>1, <2>1 DEF RemovalInv, GatewayKnown
<1>9. \A t \in Procs \ {s} : r.peers \cap req[t].peers = {}
  BY <1>4 DEF RemovalInv
<1> QED
  BY <1>1, <1>2, <1>5, <1>6, <1>7, <1>8, <1>9, RemovalStep

\* Deleting an account deletes rows that wg0 has nothing for, and no other session
\* works on them.
LEMMA CommitDeleteUserRemovalStep ==
  ASSUME RemovalInv, IdentityInv', NEW s \in Procs, CommitDeleteUser(s)
  PROVE  RemovalInv'
<1> DEFINE mine == {p \in Peers : Owner[p] = req[s].user /\ Exists(p)}
<1>1. /\ req' = [req EXCEPT ![s] = Idle] /\ gw' = gw /\ wire' = {}
      /\ req[s].op = "delete_user" /\ req[s].pc = "loaded"
  BY DEF CommitDeleteUser, RemovalInv
<1>2. CASE row' = row
  BY <1>1, <1>2, IdleRemovalStep DEF RemovalInv
<1>3. CASE /\ \A p \in mine : row[p].status = "removed"
           /\ row' = [p \in Peers |-> IF p \in mine
                                      THEN [row[p] EXCEPT !.status = "deleted"] ELSE row[p]]
  <2>1. \A p \in Peers : /\ p \notin mine => row'[p] = row[p]
                         /\ p \in mine => /\ row[p].status = "removed"
                                          /\ row'[p].status = "deleted"
    BY <1>3, RemovalTypes DEF Row
  <2> HIDE DEF mine
  <2>2. ASSUME NEW t \in Procs \ {s}, NEW q \in req[t].peers
        PROVE  /\ row'[q].status # "absent"
               /\ req[t].op # "delete_user" =>
                    row'[q] = row[q] /\ (Unrouted(q, row, gw) => Unrouted(q, row', gw'))
    <3>1. q \in Peers
      BY RemovalTypes
    <3>2. req[t].op # "delete_user" => q \notin mine
      BY <2>1, <3>1, RemovalTypes DEF SessionRemoval, Knows
    <3> QED
      BY <1>1, <2>1, <3>1, <3>2, RemovalTypes DEF SessionRemoval, Unrouted
  <2>3. ASSUME NEW q \in Peers PROVE RowRemoval(q, row', gw', req')
    <3>1. RowRemoval(q, row, gw, req)
      BY DEF RemovalInv
    <3>2. ASSUME NEW t \in Procs, Provisioning(req[t], q) PROVE Provisioning(req'[t], q)
      <4>1. t # s
        BY <1>1, <3>2 DEF Provisioning
      <4> QED
        BY <1>1, <3>2, <4>1, RemovalTypes
    <3>3. CASE q \in mine
      BY <2>1, <3>3 DEF RowRemoval, InTable
    <3>4. CASE q \notin mine
      BY <1>1, <2>1, <3>1, <3>2, <3>4 DEF RowRemoval, Unrouted
    <3> QED
      BY <3>3, <3>4
  <2>4. GatewayKnown(row', gw')
    <3> SUFFICES ASSUME NEW k \in Keys, gw[k] # NoIp
                 PROVE  \E p \in Peers : InTable(row'[p]) /\ row'[p].key = k
      BY <1>1 DEF GatewayKnown
    <3>1. PICK p \in Peers : InTable(row[p]) /\ row[p].key = k
      BY DEF RemovalInv, GatewayKnown
    <3>2. row[p].status # "removed"
      BY <3>1 DEF RemovalInv, RowRemoval, Unrouted
    <3> QED
      BY <2>1, <3>1, <3>2
  <2>5. \A t \in Procs \ {s} : Idle.peers \cap req[t].peers = {}
    BY IdleRemoval
  <2>6. SessionRemoval(Idle, row', gw')
    BY IdleRemoval
  <2> QED
    BY <1>1, <2>2, <2>3, <2>4, <2>5, <2>6, RemovalStep
<1> QED
  BY <1>2, <1>3 DEF CommitDeleteUser

-----------------------------------------------------------------------------
(* The gateway.  Keys are unique, so a call for one row routes no other.   *)

\* A command about one row routes no other row, and no key without a row.
LEMMA ExecuteUnroutes ==
  ASSUME RemovalInv, NEW p \in Peers, InTable(row[p]), NEW m, m.key = row[p].key,
         m.kind \in {"apply", "remove"}
  PROVE  /\ \A q \in Peers : /\ q # p /\ InTable(row[q]) /\ Unrouted(q, row, gw)
                                  => Unrouted(q, row, Execute(m))
                             /\ m.kind = "remove" => Unrouted(p, row, Execute(m))
         /\ GatewayKnown(row, Execute(m))
<1>1. row[p].key \in Keys
  BY DEF RemovalInv, RowRemoval
<1>2. ASSUME NEW q \in Peers, q # p, InTable(row[q]), Unrouted(q, row, gw)
      PROVE  Unrouted(q, row, Execute(m))
  <2>1. row[q].key # row[p].key /\ row[q].key \in Keys
    BY <1>2 DEF RemovalInv, IdentityInv, UniqueIdentity, Exists, RowRemoval
  <2> QED
    BY <1>2, <2>1 DEF Execute, Unrouted
<1>3. m.kind = "remove" => Unrouted(p, row, Execute(m))
  BY <1>1 DEF Execute, Unrouted
<1>4. \A k \in Keys : Execute(m)[k] # NoIp => k = row[p].key \/ gw[k] # NoIp
  BY DEF Execute
<1>5. GatewayKnown(row, Execute(m))
  BY <1>4 DEF RemovalInv, GatewayKnown
<1> QED
  BY <1>2, <1>3, <1>5

\* A call is about the row as it is in the table.
LEMMA CallRemoval ==
  ASSUME RemovalInv, NEW s \in Procs, NEW p \in Peers, Calling(s, p)
  PROVE  /\ p \in req[s].peers /\ InTable(row[p]) /\ row[p].status # "removed"
         /\ req[s].op \in {"provision", "revoke", "agent"} /\ req[s].pc = "loaded"
         /\ Call(s, p).key = row[p].key
         /\ Call(s, p).kind = IF req[s].op = "provision" THEN "apply" ELSE "remove"
<1>1. req[s].pc = "loaded" /\ p \in req[s].peers
  BY DEF Calling, IsFirst
<1>2. SessionRemoval(req[s], row, gw)
  BY RemovalTypes
<1>3. req[s].op \in {"provision", "revoke", "agent"}
  BY <1>2 DEF Calling, GatewayOps, SessionRemoval, CoreOps
<1>4. Knows(req[s], p, row, gw)
  BY <1>1, <1>2, <1>3 DEF SessionRemoval
<1> QED
  BY <1>1, <1>3, <1>4 DEF Knows, Working, Call

\* An answer, good or bad, keeps the invariant.
LEMMA AnsweredRemovalStep ==
  ASSUME RemovalInv, IdentityInv', NEW s \in Procs, NEW p \in Peers, Calling(s, p),
         NEW pc \in {"ok", "failed"}, Answered(s, pc),
         (gw' = gw /\ pc = "failed") \/ gw' = Execute(Call(s, p)),
         row' = row, wire' = wire
  PROVE  RemovalInv'
<1> DEFINE r == [req[s] EXCEPT !.pc = pc]
           op == req[s].op
<1>1. /\ p \in req[s].peers /\ InTable(row[p]) /\ row[p].status # "removed"
      /\ op \in {"provision", "revoke", "agent"} /\ req[s].pc = "loaded"
      /\ Call(s, p).key = row[p].key
      /\ Call(s, p).kind = IF op = "provision" THEN "apply" ELSE "remove"
  BY CallRemoval
<1>2. req' = [req EXCEPT ![s] = r]
  BY <1>1, RemovalTypes DEF Answered
<1>3. /\ r.op = op /\ r.pc = pc /\ r.peers = req[s].peers
      /\ r.key = req[s].key /\ r.obj = req[s].obj
  BY RemovalTypes DEF Request
<1> HIDE DEF r
<1>4. ASSUME NEW q \in Peers, InTable(row[q]), Unrouted(q, row, gw),
             q # p \/ op # "provision"
      PROVE  Unrouted(q, row', gw')
  BY <1>1, <1>4, ExecuteUnroutes
<1>5. op # "provision" /\ pc = "ok" => Unrouted(p, row', gw')
  BY <1>1, ExecuteUnroutes
<1>6. GatewayKnown(row', gw') /\ wire' = {}
  <2>1. GatewayKnown(row, Execute(Call(s, p)))
    BY <1>1, ExecuteUnroutes
  <2> QED
    BY <2>1 DEF RemovalInv
<1>7. SessionRemoval(r, row', gw')
  <2>1. SessionRemoval(req[s], row, gw) /\ req[s].peers \subseteq Peers
    BY RemovalTypes
  <2>2. ASSUME NEW q \in req[s].peers PROVE Knows(r, q, row', gw')
    <3>1. Knows(req[s], q, row, gw)
      BY <1>1, <2>1 DEF SessionRemoval
    <3>2. IsFirst(q, req[s].peers) => q = p
      BY <2>1, PeersAssumption DEF Calling, IsFirst
    <3> QED
      BY <1>1, <1>3, <1>5, <3>1, <3>2 DEF Knows, Working
  <2> QED
    BY <1>1, <1>3, <2>1, <2>2 DEF SessionRemoval
<1>8. ASSUME NEW q \in Peers PROVE RowRemoval(q, row', gw', req')
  <2>1. RowRemoval(q, row, gw, req)
    BY DEF RemovalInv
  <2>2. ASSUME NEW t \in Procs, Provisioning(req[t], q) PROVE Provisioning(req'[t], q)
    <3>1. t # s
      BY <1>1, <2>2 DEF Provisioning
    <3> QED
      BY <1>2, <2>2, <3>1, RemovalTypes
  <2>3. CASE q # p \/ op # "provision"
    BY <1>4, <2>1, <2>2, <2>3 DEF RowRemoval
  <2>4. CASE q = p /\ op = "provision"
    <3>1. Provisioning(req'[s], p)
      BY <1>1, <1>2, <1>3, <2>4, RemovalTypes DEF Provisioning
    <3> QED
      BY <1>1, <2>1, <2>4, <3>1 DEF RowRemoval
  <2> QED
    BY <2>3, <2>4
<1>9. ASSUME NEW t \in Procs \ {s}, NEW q \in req[t].peers
      PROVE  /\ row'[q].status # "absent"
             /\ req[t].op # "delete_user" =>
                  row'[q] = row[q] /\ (Unrouted(q, row, gw) => Unrouted(q, row', gw'))
  <2>1. q \in Peers /\ q # p /\ SessionRemoval(req[t], row, gw)
    BY <1>1, RemovalTypes DEF RemovalInv
  <2> QED
    BY <1>4, <2>1 DEF SessionRemoval, Knows
<1>10. \A t \in Procs \ {s} : r.peers \cap req[t].peers = {}
  BY <1>3 DEF RemovalInv
<1> QED
  BY <1>2, <1>6, <1>7, <1>8, <1>9, <1>10, RemovalStep

\* So does every later step of a session.
LEMMA ContinueRemovalStep ==
  ASSUME NeverRequeued, RemovalInv, IdentityInv', NEW s \in Procs, Continue(s)
  PROVE  RemovalInv'
<1>1. CASE InsertFails(s)
  BY <1>1, IdleRemovalStep DEF InsertFails
<1>2. ASSUME NEW p \in Peers, GatewayOk(s, p) PROVE RemovalInv'
  BY <1>2, AnsweredRemovalStep DEF GatewayOk
<1>3. ASSUME NEW p \in Peers, GatewayRefuses(s, p) PROVE RemovalInv'
  BY <1>3, AnsweredRemovalStep DEF GatewayRefuses
<1>4. ASSUME NEW p \in Peers, AnswerLost(s, p) PROVE RemovalInv'
  BY <1>4, AnsweredRemovalStep DEF AnswerLost
<1>5. ASSUME NEW p \in Peers PROVE ~CallDelayed(s, p)
  <2>1. wire = {} /\ MaxLate = 0
    BY DEF RemovalInv, NeverRequeued
  <2>2. Cardinality({}) = 0
    BY FS_EmptySet
  <2> QED
    BY <2>1, <2>2 DEF CallDelayed
<1> QED
  BY <1>1, <1>2, <1>3, <1>4, <1>5, AllocateRemovalStep, InsertRemovalStep,
     StoreRemovalStep, ReloadRemovalStep, CommitRemovalStep,
     CommitDeleteUserRemovalStep DEF Continue

-----------------------------------------------------------------------------
(* The worker, the host's script, reboots.                                 *)

\* A step that moves no session and no row, and at most empties wg0.
LEMMA RemovalUnchanged ==
  ASSUME RemovalInv, IdentityInv', row' = row, req' = req, wire' = wire,
         gw' = gw \/ gw' = [k \in Keys |-> NoIp]
  PROVE  RemovalInv'
<1>1. ASSUME NEW p \in Peers, InTable(row[p]), Unrouted(p, row, gw)
      PROVE  Unrouted(p, row', gw')
  BY <1>1 DEF RemovalInv, RowRemoval, Unrouted
<1>2. ASSUME NEW s \in Procs PROVE SessionRemoval(req'[s], row', gw')
  <2>1. SessionRemoval(req[s], row, gw) /\ req[s].peers \subseteq Peers
    BY RemovalTypes
  <2>2. ASSUME NEW p \in req[s].peers, req[s].op # "delete_user"
        PROVE  Knows(req[s], p, row', gw')
    BY <1>1, <2>1, <2>2 DEF SessionRemoval, Knows
  <2> QED
    BY <2>1, <2>2 DEF SessionRemoval
<1>3. ASSUME NEW p \in Peers PROVE RowRemoval(p, row', gw', req')
  BY <1>1 DEF RemovalInv, RowRemoval
<1>4. GatewayKnown(row', gw')
  BY DEF RemovalInv, GatewayKnown
<1> QED
  BY <1>2, <1>3, <1>4 DEF RemovalInv

\* The worker works on a row that nobody else holds and that is not removed.
LEMMA WorkerTakeRemovalStep ==
  ASSUME ~Overlap, RemovalInv, IdentityInv', NEW p \in Peers, WorkerTake(p)
  PROVE  RemovalInv'
<1> DEFINE op == IF worker.phase = "pending" THEN "provision" ELSE "revoke"
           r == Loaded(op, {p}, NoKey)
<1>1. row' = row /\ gw' = gw /\ wire' = wire /\ req[Worker].pc = "idle" /\ Worker \in Procs
  BY DEF WorkerTake, Procs
<1>2. CASE Guard(op, row[p])
  <2>1. req' = [req EXCEPT ![Worker] = r]
    BY <1>2 DEF WorkerTake
  <2>2. \A t \in Procs \ {Worker} : {p} \cap req[t].peers = {}
    BY DEF WorkerTake, Free
  <2>3. InTable(row[p]) /\ row[p].status # "removed" /\ row[p].status # "absent"
    BY <1>2, GuardNotRemoved
  <2>4. SessionRemoval(r, row, gw) /\ r.peers = {p}
    BY <2>3, LoadedRemoval
  <2> HIDE DEF r, op
  <2> QED
    BY <1>1, <2>1, <2>2, <2>4, QuietRemovalStep
<1>3. CASE ~Guard(op, row[p])
  BY <1>1, <1>3, RemovalUnchanged DEF WorkerTake
<1> QED
  BY <1>2, <1>3

\* The host's script lists rows that nobody else holds.
LEMMA AgentListRemovalStep ==
  ASSUME ~Overlap, RemovalInv, IdentityInv', AgentList
  PROVE  RemovalInv'
<1> DEFINE S == {p \in Peers : row[p].status = "pending_revoke"}
           r == Loaded("agent", S, NoKey)
<1>1. /\ row' = row /\ gw' = gw /\ wire' = wire /\ req[Agent].pc = "idle" /\ Agent \in Procs
      /\ req' = [req EXCEPT ![Agent] = r]
      /\ \A t \in Procs \ {Agent} : S \cap req[t].peers = {}
  BY DEF AgentList, Free, Procs
<1>2. SessionRemoval(r, row, gw) /\ r.peers = S
  BY LoadedRemoval DEF InTable
<1> HIDE DEF r
<1> QED
  BY <1>1, <1>2, QuietRemovalStep

\* The host's script writes removed only after wg0 has forgotten the key.
LEMMA AgentUpdateRemovalStep ==
  ASSUME RemovalInv, IdentityInv', NEW p \in Peers, AgentUpdate(p)
  PROVE  RemovalInv'
<1> DEFINE S == req[Agent].peers
           rest == S \ {p}
           r == IF rest = {} THEN Idle
                ELSE [req[Agent] EXCEPT !.pc = "loaded", !.peers = rest, !.obj[p] = NoRow]
<1>1. /\ gw' = gw /\ wire' = {} /\ Agent \in Procs /\ p \in S
      /\ req[Agent].op = "agent" /\ req[Agent].pc \in {"ok", "failed"}
      /\ IsFirst(p, S) /\ req' = [req EXCEPT ![Agent] = r]
  BY DEF AgentUpdate, Procs, RemovalInv, IsFirst
<1>2. /\ SessionRemoval(req[Agent], row, gw) /\ S \subseteq Peers /\ req[Agent] \in Request
      /\ \A q \in S : Knows(req[Agent], q, row, gw)
  BY <1>1, RemovalTypes DEF SessionRemoval
<1>3. row' = [row EXCEPT ![p] = Revoked(@, req[Agent].pc = "ok")]
  BY <1>1, <1>2 DEF AgentUpdate, Exists, Knows
<1>4. /\ \A q \in Peers \ {p} : row'[q] = row[q]
      /\ row'[p].key = row[p].key /\ InTable(row'[p]) /\ InTable(row[p])
      /\ row'[p].status # "pending"
      /\ row'[p].status = "removed" => req[Agent].pc = "ok"
  BY <1>1, <1>2, <1>3, RemovalTypes DEF Revoked, Row, InTable, Knows
<1>5. req[Agent].pc = "ok" => Unrouted(p, row, gw)
  BY <1>1, <1>2 DEF Knows
<1>6. r = Idle \/ /\ r.op = "agent" /\ r.pc = "loaded" /\ r.peers = rest
                  /\ \A q \in rest : r.obj[q] = req[Agent].obj[q]
  BY <1>1, <1>2 DEF Request
<1>7. r.peers \subseteq rest
  BY <1>6, IdleRemoval
<1> HIDE DEF r
<1>8. SessionRemoval(r, row', gw')
  <2>1. CASE r = Idle
    BY <2>1, IdleRemoval
  <2>2. CASE /\ r.op = "agent" /\ r.pc = "loaded" /\ r.peers = rest
             /\ \A q \in rest : r.obj[q] = req[Agent].obj[q]
    <3>1. ASSUME NEW q \in rest PROVE Knows(r, q, row', gw') /\ row'[q].status # "absent"
      BY <1>1, <1>2, <1>4, <2>2 DEF Knows, Working, InTable
    <3> QED
      BY <2>2, <3>1 DEF SessionRemoval, CoreOps
  <2> QED
    BY <1>6, <2>1, <2>2
<1>9. ASSUME NEW q \in Peers PROVE RowRemoval(q, row', gw', req')
  <2>1. RowRemoval(q, row, gw, req)
    BY DEF RemovalInv
  <2>2. CASE q = p
    BY <1>1, <1>4, <1>5, <2>1, <2>2 DEF RowRemoval, Unrouted
  <2>3. CASE q # p
    <3>1. ASSUME NEW t \in Procs, Provisioning(req[t], q) PROVE Provisioning(req'[t], q)
      <4>1. t # Agent
        BY <1>1, <3>1 DEF Provisioning
      <4> QED
        BY <1>1, <3>1, <4>1, RemovalTypes
    <3> QED
      BY <1>1, <1>4, <2>1, <2>3, <3>1 DEF RowRemoval, Unrouted
  <2> QED
    BY <2>2, <2>3
<1>10. ASSUME NEW t \in Procs \ {Agent}, NEW q \in req[t].peers
       PROVE  /\ row'[q].status # "absent"
              /\ req[t].op # "delete_user" =>
                   row'[q] = row[q] /\ (Unrouted(q, row, gw) => Unrouted(q, row', gw'))
  <2>1. q \in Peers /\ q # p
    BY <1>1, RemovalTypes DEF RemovalInv
  <2> QED
    BY <1>1, <1>4, <2>1, RemovalTypes DEF SessionRemoval, Unrouted
<1>11. GatewayKnown(row', gw')
  <2>1. \A q \in Peers : InTable(row[q]) => InTable(row'[q]) /\ row'[q].key = row[q].key
    BY <1>4
  <2> QED
    BY <1>1, <2>1 DEF RemovalInv, GatewayKnown
<1>12. \A t \in Procs \ {Agent} : r.peers \cap req[t].peers = {}
  BY <1>1, <1>7 DEF RemovalInv
<1> QED
  BY <1>1, <1>8, <1>9, <1>10, <1>11, <1>12, RemovalStep

-----------------------------------------------------------------------------
(* Together.                                                               *)

\* An empty table is in order.
LEMMA InitRemoval ==
  ASSUME Init
  PROVE  RemovalInv
<1>1. IdentityInv
  BY InitIdentity
<1>2. \A p \in Peers : RowRemoval(p, row, gw, req)
  BY DEF Init, RowRemoval, NoRow, InTable
<1>3. GatewayKnown(row, gw)
  BY DEF Init, GatewayKnown
<1> QED
  BY <1>1, <1>2, <1>3, IdleRemoval DEF RemovalInv, Init

\* Every step keeps the invariant.
LEMMA NextRemoval ==
  ASSUME NeverRequeued, RemovalInv, [Next]_vars
  PROVE  RemovalInv'
<1>1. IdentityInv' /\ ~Overlap
  BY NextIdentity DEF RemovalInv, NeverRequeued
<1>2. ASSUME NEW s \in Clients, Start(s) PROVE RemovalInv'
  BY <1>1, <1>2, StartRemovalStep
<1>3. ASSUME NEW s \in Procs, Continue(s) PROVE RemovalInv'
  BY <1>1, <1>3, ContinueRemovalStep
<1>4. CASE DelayedCall
  BY <1>4 DEF DelayedCall, RemovalInv
<1>5. CASE WorkerList
  BY <1>1, <1>5, RemovalUnchanged DEF WorkerList
<1>6. CASE AgentList
  BY <1>1, <1>6, AgentListRemovalStep
<1>7. ASSUME NEW p \in Peers, WorkerTake(p) PROVE RemovalInv'
  BY <1>1, <1>7, WorkerTakeRemovalStep
<1>8. ASSUME NEW p \in Peers, AgentUpdate(p) PROVE RemovalInv'
  BY <1>1, <1>8, AgentUpdateRemovalStep
<1>9. ASSUME NEW s \in Procs PROVE ~Crash(s)
  BY DEF Crash, NeverRequeued, RemovalInv, IdentityInv, TypeOK
<1>10. CASE Reboot
  BY <1>1, <1>10, RemovalUnchanged DEF Reboot
<1>11. CASE UNCHANGED vars
  BY <1>1, <1>11, RemovalUnchanged DEF vars
<1> QED
  BY <1>2, <1>3, <1>4, <1>5, <1>6, <1>7, <1>8, <1>9, <1>10, <1>11 DEF Next

\* While no operation takes a row back to pending, a row that says removed and that
\* nobody works on gives no access, whatever calls are refused or lose their answer:
\* remove_peer skips the gateway only for rows that wg0 has nothing for, and the
\* worker and the host's script write removed only after wg0 has forgotten the key.
THEOREM RemovalReachesGateway ==
  ASSUME NeverRequeued
  PROVE  Spec => []RemovedIsUnrouted
BY InitRemoval, NextRemoval, RemovalGivesProperty, PTL DEF Spec
=============================================================================
