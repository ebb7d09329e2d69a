--------------------------- MODULE PeerSerialProofs ---------------------------
(***************************************************************************)
(* What holds while at most one session at a time works on a row, and      *)
(* nobody uses PATCH.  Sessions run side by side on different rows, share  *)
(* wg0, are refused, lose answers, crash half way; the worker and the      *)
(* host's script revoke, accounts are deleted, the host reboots.           *)
(*                                                                         *)
(* SerialInv is about the table: a snapshot is the row it was taken of,    *)
(* and the guard that admitted it still holds.  RouteInv adds what wg0 has *)
(* for the row at each point of the session, where the gateway is in time, *)
(* keeps what it was told, and two more things do not coincide.            *)
(***************************************************************************)
EXTENDS PeerAddressProofs

\* One session per row at a time, and no PATCH.
Serial ==
  /\ ~Overlap
  /\ "patch" \notin Ops

Active == {"loaded", "ok", "failed"}

\* What session r knows of row p, unless it deletes an account or debugs.
Holds(r, p, rows) ==
  /\ InTable(rows[p]) /\ rows[p].status # "removed"
  /\ r.pc \in Active => r.obj[p] = rows[p] /\ Guard(r.op, rows[p])
  /\ r.pc = "private" => rows[p].key = r.key
  /\ r.op = "agent" => rows[p].status = "pending_revoke"

SessionSerial(r, rows) ==
  /\ r.op # "patch" /\ (r.op = "debug" => r.pc = "loaded")
  /\ r.pc = "idle" => r.peers = {}
  /\ r.pc = "reload" => r.op \in {"enroll", "provision"}
  /\ r.pc \in {"allocate", "insert", "private"} => r.op \in {"register", "create", "enroll"}
  /\ r.pc \in {"allocate", "insert", "private"} \/ r.op = "regenerate" => r.key \in Keys
  /\ r.op \in {"enroll", "provision", "revoke"} => \A p, q \in r.peers : p = q
  /\ \A p \in r.peers :
       /\ rows[p].status # "absent"
       /\ r.op \notin {"delete_user", "debug"} => Holds(r, p, rows)

RowSerial(p, rows) ==
  InTable(rows[p]) => rows[p].key \in Keys /\ rows[p].priv \in {NoKey, rows[p].key}

SerialInv ==
  /\ IdentityInv
  /\ \A s, t \in Procs : s # t => req[s].peers \cap req[t].peers = {}
  /\ \A s \in Procs : SessionSerial(req[s], row)
  /\ \A p \in Peers : RowSerial(p, row)
-----------------------------------------------------------------------------
(* What every step has to show.                                            *)

\* The types behind the invariant, as the steps use them.
LEMMA SerialTypes ==
  ASSUME SerialInv
  PROVE  /\ row \in [Peers -> Row] /\ req \in [Procs -> Request]
         /\ \A s \in Procs : /\ req[s] \in Request /\ req[s].peers \subseteq Peers
                             /\ SessionSerial(req[s], row)
BY DEF SerialInv, IdentityInv, TypeOK, Request

\* A step keeps the invariant if the session it moves is in order and others keep theirs.
LEMMA SerialStep ==
  ASSUME SerialInv, IdentityInv', NEW s \in Procs, NEW r,
         req' = [req EXCEPT ![s] = r],
         \A t \in Procs \ {s} : r.peers \cap req[t].peers = {},
         SessionSerial(r, row'),
         \A t \in Procs \ {s} : \A p \in req[t].peers :
           /\ row'[p].status # "absent"
           /\ req[t].op \notin {"delete_user", "debug"} => row'[p] = row[p],
         \A p \in Peers : RowSerial(p, row')
  PROVE  SerialInv'
<1>1. \A t \in Procs : req'[t] = IF t = s THEN r ELSE req[t]
  BY SerialTypes
<1>2. ASSUME NEW t \in Procs, t # s PROVE SessionSerial(req[t], row')
  <2>1. SessionSerial(req[t], row)
    BY SerialTypes
  <2>2. ASSUME NEW p \in req[t].peers
        PROVE  /\ row'[p].status # "absent"
               /\ req[t].op \notin {"delete_user", "debug"} => Holds(req[t], p, row')
    BY <1>2, <2>1 DEF SessionSerial, Holds
  <2> QED
    BY <2>1, <2>2 DEF SessionSerial
<1>3. \A t \in Procs : SessionSerial(req'[t], row')
  BY <1>1, <1>2
<1>4. \A t, u \in Procs : t # u => req'[t].peers \cap req'[u].peers = {}
  BY <1>1 DEF SerialInv
<1> QED
  BY <1>3, <1>4 DEF SerialInv

\* A step that changes only what process s remembers.
LEMMA QuietSerialStep ==
  ASSUME SerialInv, IdentityInv', NEW s \in Procs, NEW r,
         req' = [req EXCEPT ![s] = r], row' = row,
         \A t \in Procs \ {s} : r.peers \cap req[t].peers = {},
         SessionSerial(r, row)
  PROVE  SerialInv'
<1>1. \A p \in Peers : RowSerial(p, row')
  BY DEF SerialInv
<1>2. ASSUME NEW t \in Procs \ {s}, NEW p \in req[t].peers
      PROVE  row'[p].status # "absent"
  BY SerialTypes DEF SessionSerial
<1> QED
  BY <1>1, <1>2, SerialStep

\* A process that holds nothing works on no row.
LEMMA IdleSerial ==
  /\ Idle.op = "none" /\ Idle.peers = {} /\ Idle.pc = "idle"
  /\ \A rows : SessionSerial(Idle, rows)
BY DEF Idle, SessionSerial

\* A process that gives up, or has answered, forgets its snapshot.
LEMMA IdleSerialStep ==
  ASSUME SerialInv, IdentityInv', NEW s \in Procs, req' = [req EXCEPT ![s] = Idle],
         row' = row
  PROVE  SerialInv'
BY IdleSerial, QuietSerialStep

\* So does a step that concerns no session and no row.
LEMMA SerialUnchanged ==
  ASSUME SerialInv, IdentityInv', row' = row, req' = req
  PROVE  SerialInv'
BY DEF SerialInv

\* The guards admit no removed row to work other than PATCH, debugging and the script.
LEMMA GuardNotRemoved ==
  ASSUME NEW op \in {"recalculate", "recalculate_user", "enroll", "provision", "retry",
                     "remove", "regenerate", "revoke"},
         NEW r, Guard(op, r)
  PROVE  InTable(r) /\ r.status # "removed"
BY DEF Guard, CanRecalculate, CanProvision, CanRetry, CanRemove, CanRegenerate, CanRevoke,
       InTable

\* What a session remembers that has just loaded its rows.
LEMMA LoadedFields ==
  ASSUME NEW op, NEW S \in SUBSET Peers, NEW k
  PROVE  /\ Loaded(op, S, k).op = op /\ Loaded(op, S, k).peers = S
         /\ Loaded(op, S, k).pc = "loaded" /\ Loaded(op, S, k).key = k
         /\ \A p \in S : Loaded(op, S, k).obj[p] = row[p]
BY DEF Loaded, Idle

\* A session that has just loaded its rows has them as they are.
LEMMA LoadedSerial ==
  ASSUME NEW op \in {"recalculate", "recalculate_user", "enroll", "provision", "retry",
                     "remove", "regenerate", "revoke", "debug", "agent"},
         NEW S \in SUBSET Peers, NEW k,
         op = "regenerate" => k \in Keys,
         op \in {"enroll", "provision", "revoke"} => \A p, q \in S : p = q,
         \A p \in S : Guard(op, row[p]),
         op = "agent" => \A p \in S : row[p].status = "pending_revoke"
  PROVE  SessionSerial(Loaded(op, S, k), row)
<1> DEFINE r == Loaded(op, S, k)
<1>1. /\ r.op = op /\ r.peers = S /\ r.pc = "loaded" /\ r.key = k
      /\ \A p \in S : r.obj[p] = row[p]
  BY LoadedFields
<1> HIDE DEF r
<1>2. ASSUME NEW p \in S
      PROVE  row[p].status # "absent" /\ (op # "debug" => Holds(r, p, row))
  <2>1. InTable(row[p])
    BY GuardInTable
  <2>2. op # "debug" => row[p].status # "removed"
    BY GuardNotRemoved
  <2> QED
    BY <1>1, <2>1, <2>2 DEF Holds, InTable
<1>3. SessionSerial(r, row)
  BY <1>1, <1>2 DEF SessionSerial
<1> QED
  BY <1>3 DEF r

-----------------------------------------------------------------------------
(* Requests that start.                                                    *)

\* Loading rows nobody works on keeps the invariant.
LEMMA LoadSerialStep ==
  ASSUME SerialInv, IdentityInv', ~Overlap, NEW s \in Clients,
         NEW op \in {"recalculate", "recalculate_user", "provision", "retry", "remove",
                     "regenerate", "debug"},
         NEW S \in SUBSET Peers, NEW k, Load(s, op, S, k),
         op = "regenerate" => k \in Keys,
         op = "provision" => \A p, q \in S : p = q
  PROVE  SerialInv'
<1>1. s \in Procs
  BY DEF Procs
<1>2. \A t \in Procs \ {s} : S \cap req[t].peers = {}
  BY DEF Load, Free
<1>3. \A p \in S : Guard(op, row[p])
  BY DEF Load
<1>4. SessionSerial(Loaded(op, S, k), row)
  BY <1>3, LoadedSerial
<1>5. Loaded(op, S, k).peers = S
  BY LoadedFields
<1> QED
  BY <1>1, <1>2, <1>4, <1>5, QuietSerialStep DEF Load

\* So does loading the removed rows of an account that is to be deleted.
LEMMA DeleteUserSerialStep ==
  ASSUME SerialInv, IdentityInv', ~Overlap, NEW s \in Clients, NEW u \in Users,
         DeleteUser(s, u)
  PROVE  SerialInv'
<1> DEFINE S == {p \in Peers : Owner[p] = u /\ Exists(p)}
           r == [Loaded("delete_user", S, NoKey) EXCEPT !.user = u]
<1>1. s \in Procs
  BY DEF Procs
<1>2. /\ row' = row /\ req' = [req EXCEPT ![s] = r]
      /\ \A t \in Procs \ {s} : S \cap req[t].peers = {}
  BY DEF DeleteUser, Free
<1>3. r.op = "delete_user" /\ r.peers = S /\ r.pc = "loaded"
  BY DEF Loaded, Idle
<1>4. SessionSerial(r, row)
  BY <1>3 DEF SessionSerial, Exists, InTable
<1> HIDE DEF r
<1> QED
  BY <1>1, <1>2, <1>3, <1>4, QuietSerialStep

\* Beginning a registration keeps it.
LEMMA BeginSerialStep ==
  ASSUME SerialInv, IdentityInv', NEW s \in Clients, NEW op \in {"register", "create", "enroll"},
         NEW u, NEW k \in Keys, Begin(s, op, u, k)
  PROVE  SerialInv'
<1> DEFINE r == [Idle EXCEPT !.op = op, !.pc = "allocate", !.user = u, !.key = k]
<1>1. s \in Procs
  BY DEF Procs
<1>2. r.peers = {} /\ SessionSerial(r, row)
  BY DEF Idle, SessionSerial
<1> QED
  BY <1>1, <1>2, QuietSerialStep DEF Begin

\* So does every first step of a request.
LEMMA StartSerialStep ==
  ASSUME Serial, SerialInv, IdentityInv', NEW s \in Clients, Start(s)
  PROVE  SerialInv'
<1>0. ~Overlap
  BY DEF Serial
<1>1. ASSUME NEW p \in Peers, Recalculate(s, p) PROVE SerialInv'
  BY <1>0, <1>1, LoadSerialStep DEF Recalculate
<1>2. ASSUME NEW p \in Peers, Provision(s, p) PROVE SerialInv'
  BY <1>0, <1>2, LoadSerialStep DEF Provision
<1>3. ASSUME NEW p \in Peers, Retry(s, p) PROVE SerialInv'
  BY <1>0, <1>3, LoadSerialStep DEF Retry
<1>4. ASSUME NEW p \in Peers, Remove(s, p) PROVE SerialInv'
  BY <1>0, <1>4, LoadSerialStep DEF Remove
<1>5. ASSUME NEW p \in Peers, DebugProvision(s, p) PROVE SerialInv'
  BY <1>0, <1>5, LoadSerialStep DEF DebugProvision
<1>6. ASSUME NEW p \in Peers PROVE ~Patch(s, p)
  BY DEF Patch, Serial
<1>7. ASSUME NEW p \in Peers, Regenerate(s, p) PROVE SerialInv'
  <2>1. PICK k \in Keys : Load(s, "regenerate", {p}, k)
    BY <1>7 DEF Regenerate, FreshKeys
  <2> QED
    BY <1>0, <2>1, LoadSerialStep
<1>8. ASSUME NEW p \in Peers, RegisterKnown(s, p) PROVE SerialInv'
  BY <1>0, <1>8, LoadSerialStep DEF RegisterKnown
<1>9. ASSUME NEW u \in Users, RecalculateUser(s, u) PROVE SerialInv'
  <2> DEFINE S == {p \in Peers : Owner[p] = u /\ CanRecalculate(row[p])}
  <2>1. Load(s, "recalculate_user", S, NoKey)
    BY <1>9 DEF RecalculateUser
  <2> QED
    BY <1>0, <2>1, LoadSerialStep
<1>10. ASSUME NEW u \in Users, DeleteUser(s, u) PROVE SerialInv'
  BY <1>0, <1>10, DeleteUserSerialStep
<1>11. ASSUME NEW u \in Users, RegisterNew(s, u) PROVE SerialInv'
  BY <1>11, BeginSerialStep DEF RegisterNew
<1>12. ASSUME NEW u \in Users, Create(s, u) PROVE SerialInv'
  BY <1>12, BeginSerialStep DEF Create, FreshKeys
<1>13. ASSUME NEW u \in Users, Enroll(s, u) PROVE SerialInv'
  BY <1>13, BeginSerialStep DEF Enroll, FreshKeys
<1> QED
  BY <1>1, <1>2, <1>3, <1>4, <1>5, <1>6, <1>7, <1>8, <1>9, <1>10, <1>11,
     <1>12, <1>13 DEF Start
-----------------------------------------------------------------------------
(* The commit.  The snapshot is the row, so the flush writes exactly what  *)
(* the operation makes of the row.                                         *)

\* A commit replaces the row by what the operation makes of it.
LEMMA CommitRows ==
  ASSUME SerialInv, NEW s \in Procs, Commit(s), ~CommitFails(s), NEW p \in Peers
  PROVE  /\ p \notin req[s].peers => row'[p] = row[p]
         /\ p \in req[s].peers =>
              /\ row'[p] = NewRow(s, p) /\ req[s].obj[p] = row[p]
              /\ InTable(row[p]) /\ Guard(req[s].op, row[p]) /\ row[p] \in Row
              /\ row[p].status # "removed"
              /\ req[s].op \notin {"patch", "agent"}
              /\ row'[p].ip = row[p].ip /\ InTable(row'[p])
              /\ req[s].op # "regenerate" =>
                   row'[p].key = row[p].key /\ row'[p].priv = row[p].priv
              /\ req[s].op = "regenerate" =>
                   /\ row'[p].key = req[s].key /\ row'[p].priv = req[s].key
                   /\ row'[p].status = "pending"
              /\ req[s].op = "enroll" => row'[p].status = "pending"
              /\ row'[p].status = "provisioned" =>
                   (req[s].op = "provision" /\ req[s].pc = "ok") \/ row'[p] = row[p]
<1>1. row'[p] = Committed(s, p)
  BY DEF Commit
<1>2. /\ row[p] \in Row /\ req[s].key \in Keys \cup {NoKey}
      /\ SessionSerial(req[s], row)
  BY SerialTypes DEF Request
<1>3. ASSUME p \in req[s].peers
      PROVE  /\ row'[p] = NewRow(s, p) /\ req[s].obj[p] = row[p]
             /\ InTable(row[p]) /\ Guard(req[s].op, row[p])
             /\ row[p].status # "removed"
             /\ req[s].op \notin {"patch", "agent"}
             /\ row'[p].ip = row[p].ip
  <2>1. /\ req[s].pc \in Active
        /\ req[s].op \notin {"agent", "delete_user"}
        /\ req[s].op = "debug" => req[s].pc \in {"ok", "failed"}
    BY DEF Commit, ReadyToCommit, Active, GatewayOps
  <2>2. req[s].op # "debug"
    BY <1>2, <2>1 DEF SessionSerial
  <2>3. /\ req[s].obj[p] = row[p] /\ InTable(row[p]) /\ Guard(req[s].op, row[p])
        /\ row[p].status # "removed" /\ req[s].op # "patch"
    BY <1>2, <1>3, <2>1, <2>2 DEF SessionSerial, Holds
  <2>4. NewRow(s, p) \in Row
    BY <1>2, <2>3, TargetType DEF NewRow
  <2>5. NewRow(s, p).ip = row[p].ip
    BY <1>2, <2>3 DEF NewRow, Target, Recalculated, Provisioned, Revoked, Retried,
         RemoveRequested, Regenerated, Row
  <2> QED
    BY <1>1, <1>2, <1>3, <2>1, <2>3, <2>4, <2>5, FlushExact DEF Committed
<1>4. ASSUME p \in req[s].peers
      PROVE  /\ InTable(row[p]) => InTable(NewRow(s, p))
             /\ req[s].op # "regenerate" =>
                   NewRow(s, p).key = row[p].key /\ NewRow(s, p).priv = row[p].priv
             /\ req[s].op = "regenerate" =>
                  /\ NewRow(s, p).key = req[s].key /\ NewRow(s, p).priv = req[s].key
                  /\ NewRow(s, p).status = "pending"
             /\ req[s].op = "enroll" => NewRow(s, p).status = "pending"
             /\ NewRow(s, p).status = "provisioned" =>
                  (req[s].op = "provision" /\ req[s].pc = "ok") \/ NewRow(s, p) = row[p]
  BY <1>2, <1>3, <1>4 DEF NewRow, Target, Recalculated, Provisioned, Revoked, Retried,
         RemoveRequested, Regenerated, Row, InTable
<1> QED
  BY <1>1, <1>2, <1>3, <1>4 DEF Committed

\* A commit respects a revocation.
LEMMA CommitKeepsRevocation ==
  ASSUME SerialInv, NEW s \in Procs, Commit(s), ~CommitFails(s), NEW p \in req[s].peers
  PROVE  /\ row[p].status # "removed"
         /\ row[p].status = "pending_revoke" =>
              row'[p].status \in {"pending_revoke", "removed", "error"}
         /\ row[p].status = "pending_revoke" /\ req[s].op # "revoke" =>
              row'[p].status = "pending_revoke"
<1>1. p \in Peers
  BY SerialTypes
<1>2. /\ row'[p] = NewRow(s, p) /\ req[s].obj[p] = row[p] /\ row[p] \in Row
      /\ Guard(req[s].op, row[p]) /\ req[s].op # "patch" /\ row[p].status # "removed"
  BY <1>1, CommitRows
<1> QED
  BY <1>2 DEF NewRow, Target, Recalculated, Provisioned, Revoked, Retried,
         RemoveRequested, Regenerated, Row,
         Guard, CanRecalculate, CanProvision, CanRetry, CanRemove, CanRegenerate,
         CanRevoke

\* A commit keeps the invariant.
LEMMA CommitSerialStep ==
  ASSUME SerialInv, IdentityInv', NEW s \in Procs, Commit(s)
  PROVE  SerialInv'
<1>1. CASE CommitFails(s)
  BY <1>1, IdleSerialStep DEF Commit
<1>2. CASE ~CommitFails(s)
  <2>1. req' = [req EXCEPT ![s] = Continuation(s)]
    BY <1>2 DEF Commit
  <2>2. req[s] \in Request /\ req[s].peers \subseteq Peers /\ SessionSerial(req[s], row)
    BY SerialTypes
  <2>3. ASSUME NEW p \in Peers PROVE RowSerial(p, row')
    <3>1. RowSerial(p, row)
      BY DEF SerialInv
    <3>2. CASE p \notin req[s].peers
      BY <1>2, <3>1, <3>2, CommitRows DEF RowSerial
    <3>3. CASE p \in req[s].peers
      <4>1. req[s].op = "regenerate" => req[s].key \in Keys
        BY <2>2 DEF SessionSerial
      <4>2. /\ InTable(row[p])
            /\ req[s].op # "regenerate" =>
                 row'[p].key = row[p].key /\ row'[p].priv = row[p].priv
            /\ req[s].op = "regenerate" =>
                 row'[p].key = req[s].key /\ row'[p].priv = req[s].key
        BY <1>2, <3>3, CommitRows
      <4> QED
        BY <3>1, <4>1, <4>2 DEF RowSerial
    <3> QED
      BY <3>2, <3>3
  <2>4. ASSUME NEW t \in Procs \ {s}, NEW p \in req[t].peers
        PROVE  /\ row'[p].status # "absent"
               /\ req[t].op \notin {"delete_user", "debug"} => row'[p] = row[p]
    <3>1. p \in Peers /\ p \notin req[s].peers
      BY SerialTypes DEF SerialInv
    <3>2. row[p].status # "absent"
      BY SerialTypes DEF SessionSerial
    <3> QED
      BY <1>2, <3>1, <3>2, CommitRows
  <2>5. Continuation(s).peers \subseteq req[s].peers
    BY DEF Continuation, Resume, Idle
  <2>6. SessionSerial(Continuation(s), row')
    <3>1. CASE req[s].op = "enroll"
      <4>1. /\ Continuation(s).op = "provision" /\ Continuation(s).pc = "reload"
            /\ Continuation(s).peers = req[s].peers
        BY <3>1 DEF Continuation, Resume, Idle
      <4>2. \A p, q \in req[s].peers : p = q
        BY <2>2, <3>1 DEF SessionSerial
      <4>3. ASSUME NEW p \in req[s].peers
            PROVE  row'[p].status = "pending"
        BY <1>2, <2>2, <3>1, CommitRows
      <4> QED
        BY <4>1, <4>2, <4>3 DEF SessionSerial, Holds, InTable, Active
    <3>2. CASE req[s].op # "enroll"
      BY <2>2, <3>2, IdleSerial DEF Continuation, SessionSerial
    <3> QED
      BY <3>1, <3>2
  <2>7. \A t \in Procs \ {s} : Continuation(s).peers \cap req[t].peers = {}
    BY <2>5 DEF SerialInv
  <2> QED
    BY <2>1, <2>3, <2>4, <2>6, <2>7, SerialStep
<1> QED
  BY <1>1, <1>2

\* Only removed rows are deleted with an account, and no session but a debugging one
\* works on a removed row.
LEMMA DeletedRows ==
  ASSUME SerialInv, NEW s \in Procs, CommitDeleteUser(s), NEW p \in Peers
  PROVE  /\ row'[p] = row[p] \/ (row[p].status = "removed" /\ row'[p].status = "deleted")
         /\ \A t \in Procs : p \in req[t].peers =>
              /\ row'[p].status # "absent"
              /\ req[t].op \notin {"delete_user", "debug"} => row'[p] = row[p]
<1>1. row'[p] = row[p] \/ (row[p].status = "removed" /\ row'[p].status = "deleted")
  BY SerialTypes DEF CommitDeleteUser, Row
<1>2. ASSUME NEW t \in Procs, p \in req[t].peers
      PROVE  /\ row[p].status # "absent"
             /\ req[t].op \notin {"delete_user", "debug"} => row[p].status # "removed"
  BY <1>2, SerialTypes DEF SessionSerial, Holds
<1> QED
  BY <1>1, <1>2

\* Deleting an account keeps the invariant.
LEMMA CommitDeleteUserSerialStep ==
  ASSUME SerialInv, IdentityInv', NEW s \in Procs, CommitDeleteUser(s)
  PROVE  SerialInv'
<1>1. req' = [req EXCEPT ![s] = Idle]
  BY DEF CommitDeleteUser
<1>2. ASSUME NEW p \in Peers PROVE RowSerial(p, row')
  BY DeletedRows DEF SerialInv, RowSerial, InTable
<1>3. ASSUME NEW t \in Procs \ {s}, NEW p \in req[t].peers
      PROVE  /\ row'[p].status # "absent"
             /\ req[t].op \notin {"delete_user", "debug"} => row'[p] = row[p]
  BY DeletedRows, SerialTypes
<1> QED
  BY <1>1, <1>2, <1>3, IdleSerial, SerialStep
-----------------------------------------------------------------------------
(* Registration.                                                           *)

\* An INSERT keeps the invariant: a new row is pending.
LEMMA InsertSerialStep ==
  ASSUME SerialInv, IdentityInv', NEW s \in Procs, Insert(s)
  PROVE  SerialInv'
<1> DEFINE op == req[s].op
           k == req[s].key
<1>1. PICK p \in Peers :
        /\ CanInsert(s, p)
        /\ row' = [row EXCEPT ![p] = [status |-> "pending", key |-> k,
                                      priv |-> NoKey, ip |-> req[s].ip]]
        /\ req' = [req EXCEPT ![s] = IF op = "register" THEN Idle
                                     ELSE Resume(op, "private", {p}, k)]
  BY DEF Insert
<1> DEFINE r == IF op = "register" THEN Idle ELSE Resume(op, "private", {p}, k)
<1>2. op \in {"register", "create", "enroll"} /\ k \in Keys
  BY SerialTypes DEF SessionSerial, Insert
<1>3. /\ row'[p] = [status |-> "pending", key |-> k, priv |-> NoKey, ip |-> req[s].ip]
      /\ \A q \in Peers \ {p} : row'[q] = row[q]
      /\ row[p].status = "absent"
  BY <1>1, SerialTypes DEF CanInsert
<1>4. ASSUME NEW t \in Procs PROVE p \notin req[t].peers
  BY <1>3, SerialTypes DEF SessionSerial
<1>5. r.peers \subseteq {p}
  BY DEF Resume, Idle
<1>6. SessionSerial(r, row')
  <2>1. CASE op = "register"
    BY <2>1, IdleSerial
  <2>2. CASE op # "register"
    <3>1. r.op = op /\ r.pc = "private" /\ r.peers = {p} /\ r.key = k
      BY <2>2 DEF Resume, Idle
    <3> HIDE DEF r
    <3>2. Holds(r, p, row')
      BY <1>2, <1>3, <2>2, <3>1 DEF Holds, InTable, Active
    <3> QED
      BY <1>2, <1>3, <2>2, <3>1, <3>2 DEF SessionSerial
  <2> QED
    BY <2>1, <2>2
<1>7. ASSUME NEW q \in Peers PROVE RowSerial(q, row')
  BY <1>2, <1>3 DEF SerialInv, RowSerial
<1>8. ASSUME NEW t \in Procs \ {s}, NEW q \in req[t].peers
      PROVE  /\ row'[q].status # "absent"
             /\ req[t].op \notin {"delete_user", "debug"} => row'[q] = row[q]
  <2>1. q \in Peers \ {p} /\ row[q].status # "absent"
    BY <1>4, SerialTypes DEF SessionSerial
  <2> QED
    BY <1>3, <2>1
<1>9. \A t \in Procs \ {s} : r.peers \cap req[t].peers = {}
  BY <1>4, <1>5
<1> HIDE DEF r
<1>10. req' = [req EXCEPT ![s] = r]
  BY <1>1 DEF r
<1> QED
  BY <1>6, <1>7, <1>8, <1>9, <1>10, SerialStep

\* The row whose private key is about to be stored is as the session inserted it.
LEMMA StoreRow ==
  ASSUME SerialInv, NEW s \in Procs, StorePrivateKey(s)
  PROVE  \E p \in req[s].peers :
           /\ p \in Peers /\ row[p].key = req[s].key /\ req[s].key \in Keys
           /\ InTable(row[p]) /\ row[p].status # "removed"
           /\ req[s].op \in {"register", "create", "enroll"}
           /\ row'[p] = [row[p] EXCEPT !.priv = req[s].key]
           /\ row'[p].status = row[p].status /\ row'[p].key = row[p].key
           /\ row'[p].ip = row[p].ip /\ row'[p].priv = req[s].key
           /\ \A q \in Peers \ {p} : row'[q] = row[q]
           /\ req' = [req EXCEPT ![s] = IF req[s].op = "create" THEN Idle
                                        ELSE Resume("enroll", "reload", {p}, NoKey)]
<1>1. /\ SessionSerial(req[s], row) /\ req[s] \in Request /\ req[s].pc = "private"
      /\ req[s].peers \subseteq Peers
  BY SerialTypes DEF StorePrivateKey
<1>2. req[s].op \in {"register", "create", "enroll"} /\ req[s].key \in Keys
  BY <1>1 DEF SessionSerial
<1>3. \A p \in req[s].peers : Holds(req[s], p, row)
  BY <1>1, <1>2 DEF SessionSerial
<1>4. PICK p \in req[s].peers :
        /\ row' = [row EXCEPT ![p] = [@ EXCEPT !.priv = req[s].key]]
        /\ req' = [req EXCEPT ![s] = IF req[s].op = "create" THEN Idle
                                     ELSE Resume("enroll", "reload", {p}, NoKey)]
  BY <1>3 DEF StorePrivateKey, Holds, Exists
<1>5. /\ p \in Peers /\ row[p].key = req[s].key /\ InTable(row[p])
      /\ row[p].status # "removed"
  BY <1>1, <1>3 DEF Holds
<1>6. /\ row'[p] = [row[p] EXCEPT !.priv = req[s].key]
      /\ \A q \in Peers \ {p} : row'[q] = row[q]
      /\ row[p] \in Row
  BY <1>4, <1>5, SerialTypes
<1>7. /\ row'[p].status = row[p].status /\ row'[p].key = row[p].key
      /\ row'[p].ip = row[p].ip /\ row'[p].priv = req[s].key
  BY <1>6 DEF Row
<1> QED
  BY <1>2, <1>4, <1>5, <1>6, <1>7

\* The commit of the private key keeps it: the key has not been rotated since.
LEMMA StoreSerialStep ==
  ASSUME SerialInv, IdentityInv', NEW s \in Procs, StorePrivateKey(s)
  PROVE  SerialInv'
<1> DEFINE op == req[s].op
<1>1. PICK p \in req[s].peers :
        /\ p \in Peers /\ row[p].key = req[s].key /\ req[s].key \in Keys
        /\ InTable(row[p]) /\ row[p].status # "removed"
        /\ op \in {"register", "create", "enroll"}
        /\ row'[p].status = row[p].status /\ row'[p].key = row[p].key
        /\ row'[p].ip = row[p].ip /\ row'[p].priv = req[s].key
        /\ \A q \in Peers \ {p} : row'[q] = row[q]
        /\ req' = [req EXCEPT ![s] = IF op = "create" THEN Idle
                                     ELSE Resume("enroll", "reload", {p}, NoKey)]
  BY StoreRow
<1> DEFINE r == IF op = "create" THEN Idle ELSE Resume("enroll", "reload", {p}, NoKey)
<1>2. SessionSerial(r, row')
  <2>1. CASE op = "create"
    BY <2>1, IdleSerial
  <2>2. CASE op # "create"
    <3>1. r.op = "enroll" /\ r.pc = "reload" /\ r.peers = {p}
      BY <2>2 DEF Resume, Idle
    <3> HIDE DEF r
    <3>2. Holds(r, p, row')
      BY <1>1, <3>1 DEF Holds, InTable, Active
    <3>3. row'[p].status # "absent"
      BY <1>1 DEF InTable
    <3> QED
      BY <3>1, <3>2, <3>3 DEF SessionSerial
  <2> QED
    BY <2>1, <2>2
<1>3. ASSUME NEW q \in Peers PROVE RowSerial(q, row')
  BY <1>1 DEF SerialInv, RowSerial, InTable
<1>4. ASSUME NEW t \in Procs \ {s}, NEW q \in req[t].peers
      PROVE  /\ row'[q].status # "absent"
             /\ req[t].op \notin {"delete_user", "debug"} => row'[q] = row[q]
  <2>1. q \in Peers \ {p} /\ row[q].status # "absent"
    BY SerialTypes DEF SessionSerial, SerialInv
  <2> QED
    BY <1>1, <2>1
<1>5. r.peers \subseteq req[s].peers
  BY DEF Resume, Idle
<1>6. \A t \in Procs \ {s} : r.peers \cap req[t].peers = {}
  BY <1>5 DEF SerialInv
<1> HIDE DEF r
<1>7. req' = [req EXCEPT ![s] = r]
  BY <1>1 DEF r
<1> QED
  BY <1>2, <1>3, <1>4, <1>6, <1>7, SerialStep

\* Choosing an address keeps it.
LEMMA AllocateSerialStep ==
  ASSUME SerialInv, IdentityInv', NEW s \in Procs, AllocateVpnIp(s)
  PROVE  SerialInv'
<1>1. row' = row /\ req[s].pc = "allocate"
  BY DEF AllocateVpnIp
<1>2. CASE req' = [req EXCEPT ![s] = Idle]
  BY <1>1, <1>2, IdleSerialStep
<1>3. ASSUME NEW ip, req' = [req EXCEPT ![s] = [@ EXCEPT !.pc = "insert", !.ip = ip]]
      PROVE  SerialInv'
  <2> DEFINE r == [req[s] EXCEPT !.pc = "insert", !.ip = ip]
  <2>1. req[s] \in Request /\ SessionSerial(req[s], row)
    BY SerialTypes
  <2>2. r.op = req[s].op /\ r.peers = req[s].peers /\ r.key = req[s].key /\ r.pc = "insert"
    BY <2>1 DEF Request
  <2>3. req' = [req EXCEPT ![s] = r]
    BY <1>3
  <2> HIDE DEF r
  <2>4. SessionSerial(r, row)
    BY <1>1, <2>1, <2>2 DEF SessionSerial, Holds, Active
  <2>5. \A t \in Procs \ {s} : r.peers \cap req[t].peers = {}
    BY <2>2 DEF SerialInv
  <2> QED
    BY <1>1, <2>3, <2>4, <2>5, QuietSerialStep
<1> QED
  BY <1>2, <1>3 DEF AllocateVpnIp

\* The second load of an enrolment keeps it.
LEMMA ReloadSerialStep ==
  ASSUME SerialInv, IdentityInv', NEW s \in Procs, Reload(s)
  PROVE  SerialInv'
<1> DEFINE op == req[s].op
           S == req[s].peers
           r == Loaded(op, S, NoKey)
<1>1. row' = row /\ req[s].pc = "reload"
  BY DEF Reload
<1>2. op \in {"enroll", "provision"} /\ S \in SUBSET Peers /\ \A p, q \in S : p = q
  BY <1>1, SerialTypes DEF SessionSerial
<1>3. CASE \A p \in S : Guard(op, row[p])
  <2>1. req' = [req EXCEPT ![s] = r]
    BY <1>3 DEF Reload
  <2>2. SessionSerial(r, row)
    BY <1>2, <1>3, LoadedSerial
  <2>3. r.peers = S
    BY <1>2, LoadedFields
  <2> HIDE DEF r
  <2>4. \A t \in Procs \ {s} : r.peers \cap req[t].peers = {}
    BY <2>3 DEF SerialInv
  <2> QED
    BY <1>1, <2>1, <2>2, <2>4, QuietSerialStep
<1>4. CASE ~\A p \in S : Guard(op, row[p])
  BY <1>1, <1>4, IdleSerialStep DEF Reload
<1> QED
  BY <1>3, <1>4
-----------------------------------------------------------------------------
(* The gateway, the worker, the script and crashes.                        *)

\* Whatever the gateway does, the table stays as it is.
LEMMA AnsweredSerialStep ==
  ASSUME SerialInv, IdentityInv', NEW s \in Procs, NEW p \in Peers, Calling(s, p),
         NEW pc \in {"ok", "failed"}, Answered(s, pc), row' = row
  PROVE  SerialInv'
<1>1. CASE req[s].op = "debug"
  BY <1>1, IdleSerialStep DEF Answered
<1>2. CASE req[s].op # "debug"
  <2> DEFINE r == [req[s] EXCEPT !.pc = pc]
  <2>1. req[s] \in Request /\ SessionSerial(req[s], row) /\ req[s].pc = "loaded"
    BY SerialTypes DEF Calling
  <2>2. /\ r.op = req[s].op /\ r.peers = req[s].peers /\ r.key = req[s].key
        /\ r.obj = req[s].obj /\ r.pc = pc
    BY <2>1 DEF Request
  <2>3. req' = [req EXCEPT ![s] = r]
    BY <1>2 DEF Answered
  <2> HIDE DEF r
  <2>4. SessionSerial(r, row)
    BY <1>2, <2>1, <2>2 DEF SessionSerial, Holds, Active
  <2>5. \A t \in Procs \ {s} : r.peers \cap req[t].peers = {}
    BY <2>2 DEF SerialInv
  <2> QED
    BY <2>3, <2>4, <2>5, QuietSerialStep
<1> QED
  BY <1>1, <1>2

\* Every later step of a session keeps the invariant.
LEMMA ContinueSerialStep ==
  ASSUME SerialInv, IdentityInv', NEW s \in Procs, Continue(s)
  PROVE  SerialInv'
<1>1. CASE InsertFails(s)
  BY <1>1, IdleSerialStep DEF InsertFails
<1>2. ASSUME NEW p \in Peers, GatewayOk(s, p) PROVE SerialInv'
  BY <1>2, AnsweredSerialStep DEF GatewayOk
<1>3. ASSUME NEW p \in Peers, GatewayRefuses(s, p) PROVE SerialInv'
  BY <1>3, AnsweredSerialStep DEF GatewayRefuses
<1>4. ASSUME NEW p \in Peers, AnswerLost(s, p) PROVE SerialInv'
  BY <1>4, AnsweredSerialStep DEF AnswerLost
<1>5. ASSUME NEW p \in Peers, CallDelayed(s, p) PROVE SerialInv'
  BY <1>5, AnsweredSerialStep DEF CallDelayed
<1> QED
  BY <1>1, <1>2, <1>3, <1>4, <1>5, AllocateSerialStep, InsertSerialStep,
     StoreSerialStep, ReloadSerialStep, CommitSerialStep, CommitDeleteUserSerialStep
  DEF Continue

\* The worker takes a row nobody works on, if its guard still admits it.
LEMMA WorkerTakeSerialStep ==
  ASSUME Serial, SerialInv, IdentityInv', NEW p \in Peers, WorkerTake(p)
  PROVE  SerialInv'
<1> DEFINE op == IF worker.phase = "pending" THEN "provision" ELSE "revoke"
           r == Loaded(op, {p}, NoKey)
<1>1. row' = row /\ Worker \in Procs
  BY DEF WorkerTake, Procs
<1>2. CASE Guard(op, row[p])
  <2>1. req' = [req EXCEPT ![Worker] = r]
    BY <1>2 DEF WorkerTake
  <2>2. SessionSerial(r, row)
    BY <1>2, LoadedSerial
  <2>4. r.peers = {p}
    BY LoadedFields
  <2>3. \A t \in Procs \ {Worker} : {p} \cap req[t].peers = {}
    BY DEF WorkerTake, Free, Serial
  <2> HIDE DEF r
  <2> QED
    BY <1>1, <2>1, <2>2, <2>3, <2>4, QuietSerialStep
<1>3. CASE ~Guard(op, row[p])
  BY <1>1, <1>3, SerialUnchanged DEF WorkerTake
<1> QED
  BY <1>2, <1>3

\* The script takes every row that waits for its revocation.
LEMMA AgentListSerialStep ==
  ASSUME Serial, SerialInv, IdentityInv', AgentList
  PROVE  SerialInv'
<1> DEFINE S == {p \in Peers : row[p].status = "pending_revoke"}
           r == Loaded("agent", S, NoKey)
<1>1. /\ row' = row /\ Agent \in Procs /\ req' = [req EXCEPT ![Agent] = r]
      /\ \A t \in Procs \ {Agent} : S \cap req[t].peers = {}
  BY DEF AgentList, Procs, Free, Serial
<1>2. \A p \in S : Guard("agent", row[p])
  BY DEF Guard, CanPatch, InTable
<1>3. SessionSerial(r, row)
  BY <1>2, LoadedSerial
<1>4. r.peers = S
  BY DEF Loaded, Idle
<1> HIDE DEF r, S
<1> QED
  BY <1>1, <1>3, <1>4, QuietSerialStep

\* The script's UPDATE is about a row that still waits for its revocation, although
\* it does not look.
LEMMA AgentRow ==
  ASSUME SerialInv, NEW p \in Peers, AgentUpdate(p)
  PROVE  /\ Agent \in Procs /\ p \in req[Agent].peers /\ row[p].status = "pending_revoke"
         /\ row'[p].status \in {"removed", "error"}
         /\ row'[p].key = row[p].key /\ row'[p].priv = row[p].priv /\ row'[p].ip = row[p].ip
         /\ \A q \in Peers \ {p} : row'[q] = row[q]
<1>1. /\ Agent \in Procs /\ p \in req[Agent].peers /\ req[Agent].op = "agent"
  BY DEF AgentUpdate, IsFirst, Procs
<1>2. row[p].status = "pending_revoke"
  BY <1>1, SerialTypes DEF SessionSerial, Holds
<1>3. row' = [row EXCEPT ![p] = Revoked(@, req[Agent].pc = "ok")]
  BY <1>2 DEF AgentUpdate, Exists, InTable
<1>4. /\ row'[p] = Revoked(row[p], req[Agent].pc = "ok") /\ row[p] \in Row
      /\ \A q \in Peers \ {p} : row'[q] = row[q]
  BY <1>3, SerialTypes
<1> QED
  BY <1>1, <1>2, <1>4 DEF Revoked, Row

\* What the script remembers after the UPDATE of row p.
LEMMA AgentRest ==
  ASSUME SerialInv, NEW p \in Peers, AgentUpdate(p)
  PROVE  \E r : /\ req' = [req EXCEPT ![Agent] = r]
                /\ r.peers = req[Agent].peers \ {p}
                /\ r.op \in {"none", "agent"}
                /\ SessionSerial(r, row')
<1> DEFINE rest == req[Agent].peers \ {p}
<1>1. /\ Agent \in Procs /\ p \in req[Agent].peers
      /\ \A q \in Peers \ {p} : row'[q] = row[q]
  BY AgentRow
<1>2. CASE rest = {}
  <2>1. req' = [req EXCEPT ![Agent] = Idle]
    BY <1>2 DEF AgentUpdate
  <2> QED
    BY <1>2, <2>1, IdleSerial
<1>3. CASE rest # {}
  <2> DEFINE r == [req[Agent] EXCEPT !.pc = "loaded", !.peers = rest, !.obj[p] = NoRow]
  <2>1. req' = [req EXCEPT ![Agent] = r]
    BY <1>3 DEF AgentUpdate
  <2>2. /\ req[Agent] \in Request /\ SessionSerial(req[Agent], row)
        /\ req[Agent].op = "agent" /\ req[Agent].pc \in {"ok", "failed"}
        /\ req[Agent].peers \subseteq Peers
    BY <1>1, SerialTypes DEF AgentUpdate
  <2>3. /\ r.op = "agent" /\ r.pc = "loaded" /\ r.peers = rest /\ r.key = req[Agent].key
        /\ \A q \in rest : r.obj[q] = req[Agent].obj[q]
    BY <2>2 DEF Request
  <2> HIDE DEF r
  <2>4. ASSUME NEW q \in rest PROVE row'[q].status # "absent" /\ Holds(r, q, row')
    <3>1. row'[q] = row[q] /\ Holds(req[Agent], q, row) /\ row[q].status # "absent"
      BY <1>1, <2>2 DEF SessionSerial
    <3> QED
      BY <2>2, <2>3, <3>1 DEF Holds, Active
  <2>5. SessionSerial(r, row')
    BY <2>3, <2>4 DEF SessionSerial
  <2> QED
    BY <2>1, <2>3, <2>5
<1> QED
  BY <1>2, <1>3

\* The UPDATE keeps the invariant.
LEMMA AgentUpdateSerialStep ==
  ASSUME SerialInv, IdentityInv', NEW p \in Peers, AgentUpdate(p)
  PROVE  SerialInv'
<1>1. /\ Agent \in Procs /\ p \in req[Agent].peers /\ row[p].status = "pending_revoke"
      /\ row'[p].status \in {"removed", "error"}
      /\ row'[p].key = row[p].key /\ row'[p].priv = row[p].priv
      /\ \A q \in Peers \ {p} : row'[q] = row[q]
  BY AgentRow
<1>2. PICK r : /\ req' = [req EXCEPT ![Agent] = r]
               /\ r.peers = req[Agent].peers \ {p}
               /\ SessionSerial(r, row')
  BY AgentRest
<1>3. ASSUME NEW q \in Peers PROVE RowSerial(q, row')
  BY <1>1 DEF SerialInv, RowSerial, InTable
<1>4. ASSUME NEW t \in Procs \ {Agent}, NEW q \in req[t].peers
      PROVE  /\ row'[q].status # "absent"
             /\ req[t].op \notin {"delete_user", "debug"} => row'[q] = row[q]
  <2>1. q \in Peers \ {p} /\ row[q].status # "absent"
    BY <1>1, SerialTypes DEF SessionSerial, SerialInv
  <2> QED
    BY <1>1, <2>1
<1>5. \A t \in Procs \ {Agent} : r.peers \cap req[t].peers = {}
  BY <1>1, <1>2 DEF SerialInv
<1> QED
  BY <1>1, <1>2, <1>3, <1>4, <1>5, SerialStep

-----------------------------------------------------------------------------
(* Together.                                                               *)

\* An empty table is in order.
LEMMA InitSerial ==
  ASSUME Init
  PROVE  SerialInv
<1>1. IdentityInv
  BY InitIdentity
<1>2. \A s \in Procs : req[s] = Idle
  BY DEF Init
<1>3. \A p \in Peers : RowSerial(p, row)
  BY DEF Init, RowSerial, NoRow, InTable
<1> QED
  BY <1>1, <1>2, <1>3, IdleSerial DEF SerialInv

\* While sessions take turns on a row, every step keeps the invariant.
LEMMA NextSerial ==
  ASSUME Serial, SerialInv, [Next]_vars
  PROVE  SerialInv'
<1>1. IdentityInv'
  BY NextIdentity DEF SerialInv
<1>2. ASSUME NEW s \in Clients, Start(s) PROVE SerialInv'
  BY <1>1, <1>2, StartSerialStep
<1>3. ASSUME NEW s \in Procs, Continue(s) PROVE SerialInv'
  BY <1>1, <1>3, ContinueSerialStep
<1>4. CASE DelayedCall \/ WorkerList \/ Reboot \/ UNCHANGED vars
  BY <1>1, <1>4, SerialUnchanged DEF DelayedCall, WorkerList, Reboot, vars
<1>5. CASE AgentList
  BY <1>1, <1>5, AgentListSerialStep
<1>6. ASSUME NEW p \in Peers, WorkerTake(p) PROVE SerialInv'
  BY <1>1, <1>6, WorkerTakeSerialStep
<1>7. ASSUME NEW p \in Peers, AgentUpdate(p) PROVE SerialInv'
  BY <1>1, <1>7, AgentUpdateSerialStep
<1>8. ASSUME NEW s \in Procs, Crash(s) PROVE SerialInv'
  BY <1>1, <1>8, IdleSerialStep DEF Crash
<1> QED
  BY <1>2, <1>3, <1>4, <1>5, <1>6, <1>7, <1>8 DEF Next
-----------------------------------------------------------------------------
(* Revocation.                                                             *)

KeepsRevocation(p) ==
  /\ row[p].status = "pending_revoke"
       => row'[p].status \in {"pending_revoke", "removed", "error"}
  /\ row[p].status = "removed" => row'[p].status \in {"removed", "deleted"}

\* The invariant makes each step keep revocations.
LEMMA StepKeepsRevocation ==
  ASSUME SerialInv, Next, NEW p \in Peers
  PROVE  KeepsRevocation(p)
<1>1. CASE row'[p] = row[p]
  BY <1>1 DEF KeepsRevocation
<1>2. ASSUME NEW s \in Procs, Insert(s) PROVE KeepsRevocation(p)
  <2>1. PICK q \in Peers :
          /\ row[q].status = "absent"
          /\ row' = [row EXCEPT ![q] = [status |-> "pending", key |-> req[s].key,
                                        priv |-> NoKey, ip |-> req[s].ip]]
    BY <1>2 DEF Insert, CanInsert
  <2>2. p # q => row'[p] = row[p]
    BY <2>1, SerialTypes
  <2> QED
    BY <1>1, <2>1, <2>2 DEF KeepsRevocation
<1>3. ASSUME NEW s \in Procs, StorePrivateKey(s) PROVE KeepsRevocation(p)
  <2>1. PICK q \in req[s].peers :
          row'[q].status = row[q].status /\ \A o \in Peers \ {q} : row'[o] = row[o]
    BY <1>3, StoreRow
  <2> QED
    BY <2>1 DEF KeepsRevocation
<1>4. ASSUME NEW s \in Procs, Commit(s) PROVE KeepsRevocation(p)
  <2>1. CASE CommitFails(s)
    BY <1>1, <1>4, <2>1 DEF Commit
  <2>2. CASE ~CommitFails(s) /\ p \notin req[s].peers
    BY <1>1, <1>4, <2>2, CommitRows
  <2>3. CASE ~CommitFails(s) /\ p \in req[s].peers
    BY <1>4, <2>3, CommitKeepsRevocation DEF KeepsRevocation
  <2> QED
    BY <2>1, <2>2, <2>3
<1>5. ASSUME NEW s \in Procs, CommitDeleteUser(s) PROVE KeepsRevocation(p)
  BY <1>5, DeletedRows DEF KeepsRevocation
<1>6. ASSUME NEW q \in Peers, AgentUpdate(q) PROVE KeepsRevocation(p)
  BY <1>6, AgentRow DEF KeepsRevocation
<1>7. ASSUME NEW s \in Clients, Start(s) PROVE row' = row
  BY <1>7 DEF Start, Recalculate, Provision, Retry, Remove, DebugProvision, Patch,
     Regenerate, RegisterKnown, RecalculateUser, DeleteUser, RegisterNew, Create,
     Enroll, Load, Begin
<1>8. ASSUME NEW s \in Procs, Continue(s)
      PROVE  row' = row \/ Insert(s) \/ StorePrivateKey(s) \/ Commit(s) \/ CommitDeleteUser(s)
  BY <1>8 DEF Continue, AllocateVpnIp, InsertFails, Reload, GatewayOk,
     GatewayRefuses, AnswerLost, CallDelayed
<1>9. ASSUME NEW q \in Peers, WorkerTake(q) PROVE row' = row
  BY <1>9 DEF WorkerTake
<1>10. (\E s \in Procs : Crash(s)) \/ DelayedCall \/ WorkerList \/ AgentList \/ Reboot
         => row' = row
  BY DEF Crash, DelayedCall, WorkerList, AgentList, Reboot
<1> QED
  BY <1>1, <1>2, <1>3, <1>4, <1>5, <1>6, <1>7, <1>8, <1>9, <1>10 DEF Next

-----------------------------------------------------------------------------
(* Routes.                                                                 *)

\* What a route needs besides: the gateway executes calls in time and keeps what it
\* was told; a process that works through a list made earlier does not die between a
\* call and its commit; and nobody calls the gateway for a row being deleted.
Undisturbed ==
  /\ Serial
  /\ MaxLate = 0 /\ MaxReboots = 0
  /\ "agent" \notin Ops \/ MaxCrashes = 0
  /\ "debug" \notin Ops \/ "delete_user" \notin Ops

Routed(p, rows, g) == g[rows[p].key] = rows[p].ip

SessionRoutes(r, rows, g) ==
  /\ r.op \in {"debug", "agent", "delete_user"} => r.op \in Ops
  /\ \A p \in r.peers :
       /\ r.op = "debug" => InTable(rows[p]) /\ r.obj[p] = rows[p]
       /\ r.op = "provision" /\ r.pc = "ok" => Routed(p, rows, g)
       /\ r.op = "revoke" /\ "agent" \notin Ops => rows[p].status = "pending_revoke"

\* Session r has called the gateway to forget row p and is yet to commit the answer.
Revoking(r, p) == r.op = "revoke" /\ r.pc \in {"ok", "failed"} /\ p \in r.peers

RowRoutes(p, rows, g, rq) ==
  rows[p].status = "provisioned" =>
    Routed(p, rows, g) \/ \E s \in Procs : Revoking(rq[s], p)

\* Of the sessions only the worker's revoke; without the script, what the worker still
\* has to revoke is still waiting.
WorkerRoutes(rq, w, rows) ==
  /\ \A s \in Procs : rq[s].op = "revoke" => s = Worker
  /\ rq[Worker].op \in {"none", "provision", "revoke"}
  /\ rq[Worker].peers \cap w.todo = {}
  /\ "agent" \notin Ops /\ w.phase = "pending_revoke" =>
       \A p \in w.todo : rows[p].status = "pending_revoke"

RouteInv ==
  /\ SerialInv
  /\ \A s \in Procs : SessionRoutes(req[s], row, gw)
  /\ \A p \in Peers : RowRoutes(p, row, gw, req)
  /\ WorkerRoutes(req, worker, row)
  /\ wire = {}

\* A step keeps the routes if the session it moves is in order and others keep theirs.
LEMMA RouteStep ==
  ASSUME RouteInv, SerialInv', NEW s \in Procs, NEW r,
         req' = [req EXCEPT ![s] = r],
         SessionRoutes(r, row', gw'),
         \A t \in Procs \ {s} : \A p \in req[t].peers : req[t].op # "delete_user" =>
           /\ row'[p] = row[p]
           /\ req[t].op = "provision" /\ Routed(p, row, gw) => Routed(p, row', gw'),
         \A p \in Peers : RowRoutes(p, row', gw', req'),
         WorkerRoutes(req', worker', row'),
         wire' = {}
  PROVE  RouteInv'
<1>1. \A t \in Procs : req'[t] = IF t = s THEN r ELSE req[t]
  BY SerialTypes DEF RouteInv
<1>2. ASSUME NEW t \in Procs, t # s PROVE SessionRoutes(req[t], row', gw')
  <2>1. SessionRoutes(req[t], row, gw)
    BY DEF RouteInv
  <2>2. ASSUME NEW p \in req[t].peers
        PROVE  /\ req[t].op = "debug" => InTable(row'[p]) /\ req[t].obj[p] = row'[p]
               /\ req[t].op = "provision" /\ req[t].pc = "ok" => Routed(p, row', gw')
               /\ req[t].op = "revoke" /\ "agent" \notin Ops =>
                    row'[p].status = "pending_revoke"
    BY <1>2, <2>1 DEF SessionRoutes
  <2> QED
    BY <2>1, <2>2 DEF SessionRoutes
<1>3. \A t \in Procs : SessionRoutes(req'[t], row', gw')
  BY <1>1, <1>2
<1> QED
  BY <1>3 DEF RouteInv

\* The worker's list is not disturbed by a step that leaves it alone and keeps
\* the rows on it that wait for their revocation.
LEMMA WorkerKept ==
  ASSUME RouteInv, NEW s \in Procs, NEW r, req' = [req EXCEPT ![s] = r],
         worker' = worker, r.op = "revoke" => s = Worker,
         s = Worker => /\ r.op \in {"none", "provision", "revoke"}
                       /\ r.peers \subseteq req[Worker].peers,
         "agent" \notin Ops => \A p \in worker.todo :
           row[p].status = "pending_revoke" => row'[p].status = "pending_revoke"
  PROVE  WorkerRoutes(req', worker', row')
<1>1. \A t \in Procs : req'[t] = IF t = s THEN r ELSE req[t]
  BY SerialTypes DEF RouteInv
<1>2. Worker \in Procs
  BY DEF Procs
<1> QED
  BY <1>1, <1>2 DEF RouteInv, WorkerRoutes

\* A row that is being revoked by another session goes on being revoked.
LEMMA RevokingKept ==
  ASSUME RouteInv, NEW s \in Procs, NEW r, req' = [req EXCEPT ![s] = r], NEW p \in Peers,
         ~Revoking(req[s], p), row' = row, gw' = gw
  PROVE  RowRoutes(p, row', gw', req')
<1>1. RowRoutes(p, row, gw, req)
  BY DEF RouteInv
<1>2. ASSUME NEW t \in Procs, Revoking(req[t], p) PROVE Revoking(req'[t], p)
  <2>1. t # s
    BY <1>2
  <2> QED
    BY <1>2, <2>1, SerialTypes DEF RouteInv
<1> QED
  BY <1>1, <1>2 DEF RowRoutes, Routed

\* A step of a session that touches neither the table nor wg0.
LEMMA QuietRouteStep ==
  ASSUME RouteInv, SerialInv', NEW s \in Procs, NEW r,
         req' = [req EXCEPT ![s] = r],
         row' = row, gw' = gw, wire' = wire, worker' = worker,
         req[s].op = "revoke" => req[s].pc \notin {"ok", "failed"},
         r.op = "revoke" => s = Worker,
         s = Worker => /\ r.op \in {"none", "provision", "revoke"}
                       /\ r.peers \subseteq req[Worker].peers,
         SessionRoutes(r, row, gw)
  PROVE  RouteInv'
<1>1. WorkerRoutes(req', worker', row')
  BY WorkerKept
<1>2. \A p \in Peers : RowRoutes(p, row', gw', req')
  BY RevokingKept DEF Revoking
<1>3. wire' = {} /\ SessionRoutes(r, row', gw')
  BY DEF RouteInv
<1>4. \A t \in Procs \ {s} : \A p \in req[t].peers : req[t].op # "delete_user" =>
        /\ row'[p] = row[p]
        /\ req[t].op = "provision" /\ Routed(p, row, gw) => Routed(p, row', gw')
  OBVIOUS
<1> QED
  BY <1>1, <1>2, <1>3, <1>4, RouteStep

\* A process that holds nothing calls nobody.
LEMMA IdleRoutes == \A rows, g : SessionRoutes(Idle, rows, g)
BY DEF Idle, SessionRoutes

\* A process that gives up before its gateway call forgets its snapshot.
LEMMA IdleRouteStep ==
  ASSUME RouteInv, SerialInv', NEW s \in Procs, req' = [req EXCEPT ![s] = Idle],
         row' = row, gw' = gw, wire' = wire, worker' = worker,
         req[s].op = "revoke" => req[s].pc \notin {"ok", "failed"}
  PROVE  RouteInv'
BY IdleSerial, IdleRoutes, QuietRouteStep

\* Loading rows keeps the routes.
LEMMA LoadRouteStep ==
  ASSUME RouteInv, SerialInv', NEW s \in Clients,
         NEW op \in {"recalculate", "recalculate_user", "provision", "retry", "remove",
                     "regenerate", "debug"},
         NEW S \in SUBSET Peers, NEW k, Load(s, op, S, k), op = "debug" => op \in Ops
  PROVE  RouteInv'
<1> DEFINE r == Loaded(op, S, k)
<1>1. s \in Procs /\ s # Worker
  BY ProcsAssumption DEF Procs
<1>2. /\ r.op = op /\ r.peers = S /\ r.pc = "loaded"
      /\ \A p \in S : r.obj[p] = row[p]
  BY LoadedFields
<1>3. /\ row' = row /\ gw' = gw /\ wire' = wire /\ worker' = worker
      /\ req' = [req EXCEPT ![s] = r] /\ req[s].pc = "idle"
      /\ \A p \in S : InTable(row[p])
  BY GuardInTable DEF Load
<1> HIDE DEF r
<1>4. SessionRoutes(r, row, gw)
  BY <1>2, <1>3 DEF SessionRoutes
<1> QED
  BY <1>1, <1>2, <1>3, <1>4, QuietRouteStep

\* So does every first step of a request.
LEMMA StartRouteStep ==
  ASSUME Serial, RouteInv, SerialInv', NEW s \in Clients, Start(s)
  PROVE  RouteInv'
<1>0. s \in Procs /\ s # Worker
  BY ProcsAssumption DEF Procs
<1>1. ASSUME NEW p \in Peers, Recalculate(s, p) PROVE RouteInv'
  BY <1>1, LoadRouteStep DEF Recalculate
<1>2. ASSUME NEW p \in Peers, Provision(s, p) PROVE RouteInv'
  BY <1>2, LoadRouteStep DEF Provision
<1>3. ASSUME NEW p \in Peers, Retry(s, p) PROVE RouteInv'
  BY <1>3, LoadRouteStep DEF Retry
<1>4. ASSUME NEW p \in Peers, Remove(s, p) PROVE RouteInv'
  BY <1>4, LoadRouteStep DEF Remove
<1>5. ASSUME NEW p \in Peers, DebugProvision(s, p) PROVE RouteInv'
  BY <1>5, LoadRouteStep DEF DebugProvision
<1>6. ASSUME NEW p \in Peers PROVE ~Patch(s, p)
  BY DEF Patch, Serial
<1>7. ASSUME NEW p \in Peers, Regenerate(s, p) PROVE RouteInv'
  <2>1. PICK k : Load(s, "regenerate", {p}, k)
    BY <1>7 DEF Regenerate
  <2> QED
    BY <2>1, LoadRouteStep
<1>8. ASSUME NEW p \in Peers, RegisterKnown(s, p) PROVE RouteInv'
  BY <1>8, LoadRouteStep DEF RegisterKnown
<1>9. ASSUME NEW u \in Users, RecalculateUser(s, u) PROVE RouteInv'
  <2> DEFINE S == {p \in Peers : Owner[p] = u /\ CanRecalculate(row[p])}
  <2>1. Load(s, "recalculate_user", S, NoKey)
    BY <1>9 DEF RecalculateUser
  <2> QED
    BY <2>1, LoadRouteStep
<1>10. ASSUME NEW u \in Users, DeleteUser(s, u) PROVE RouteInv'
  <2> DEFINE S == {p \in Peers : Owner[p] = u /\ Exists(p)}
             r == [Loaded("delete_user", S, NoKey) EXCEPT !.user = u]
  <2>1. /\ row' = row /\ gw' = gw /\ wire' = wire /\ worker' = worker
        /\ req' = [req EXCEPT ![s] = r] /\ req[s].pc = "idle" /\ "delete_user" \in Ops
    BY <1>10 DEF DeleteUser
  <2>2. r.op = "delete_user"
    BY DEF Loaded, Idle
  <2> HIDE DEF r
  <2>3. SessionRoutes(r, row, gw)
    BY <2>1, <2>2 DEF SessionRoutes
  <2> QED
    BY <1>0, <2>1, <2>2, <2>3, QuietRouteStep
<1>11. ASSUME NEW op \in {"register", "create", "enroll"}, NEW u, NEW k, Begin(s, op, u, k)
       PROVE  RouteInv'
  <2> DEFINE r == [Idle EXCEPT !.op = op, !.pc = "allocate", !.user = u, !.key = k]
  <2>1. /\ row' = row /\ gw' = gw /\ wire' = wire /\ worker' = worker
        /\ req' = [req EXCEPT ![s] = r] /\ req[s].pc = "idle"
    BY <1>11 DEF Begin
  <2>2. r.op = op /\ r.peers = {} /\ r.pc = "allocate"
    BY DEF Idle
  <2> HIDE DEF r
  <2>3. SessionRoutes(r, row, gw)
    BY <2>2 DEF SessionRoutes
  <2> QED
    BY <1>0, <2>1, <2>2, <2>3, QuietRouteStep
<1>12. ASSUME NEW u \in Users, RegisterNew(s, u) \/ Create(s, u) \/ Enroll(s, u)
       PROVE  RouteInv'
  BY <1>11, <1>12 DEF RegisterNew, Create, Enroll
<1> QED
  BY <1>1, <1>2, <1>3, <1>4, <1>5, <1>6, <1>7, <1>8, <1>9, <1>10, <1>12 DEF Start

\* An INSERT keeps the routes: the new row is pending.
LEMMA InsertRouteStep ==
  ASSUME RouteInv, SerialInv', NEW s \in Procs, Insert(s)
  PROVE  RouteInv'
<1> DEFINE op == req[s].op
           k == req[s].key
<1>1. PICK p \in Peers :
        /\ CanInsert(s, p)
        /\ row' = [row EXCEPT ![p] = [status |-> "pending", key |-> k,
                                      priv |-> NoKey, ip |-> req[s].ip]]
        /\ req' = [req EXCEPT ![s] = IF op = "register" THEN Idle
                                     ELSE Resume(op, "private", {p}, k)]
  BY DEF Insert
<1> DEFINE r == IF op = "register" THEN Idle ELSE Resume(op, "private", {p}, k)
<1>2. op \in {"register", "create", "enroll"}
  BY SerialTypes DEF SessionSerial, Insert, RouteInv
<1>3. s # Worker
  BY <1>2 DEF RouteInv, WorkerRoutes
<1>4. /\ row'[p].status = "pending" /\ row[p].status = "absent"
      /\ \A q \in Peers \ {p} : row'[q] = row[q]
  BY <1>1, SerialTypes DEF CanInsert, RouteInv
<1>5. gw' = gw /\ wire' = {} /\ worker' = worker
  BY DEF Insert, RouteInv
<1>6. r.op \in {"none", "create", "enroll"}
  BY <1>2, IdleSerial DEF Resume, Idle
<1> HIDE DEF r
<1>7. req' = [req EXCEPT ![s] = r]
  BY <1>1 DEF r
<1>8. SessionRoutes(r, row', gw')
  BY <1>6 DEF SessionRoutes
<1>9. ASSUME NEW q \in Peers PROVE RowRoutes(q, row', gw', req')
  <2>1. CASE q = p
    BY <1>4, <2>1 DEF RowRoutes
  <2>2. CASE q # p
    <3>1. row'[q] = row[q] /\ RowRoutes(q, row, gw, req)
      BY <1>4, <2>2 DEF RouteInv
    <3>2. ASSUME NEW t \in Procs, Revoking(req[t], q) PROVE Revoking(req'[t], q)
      <4>1. t # s
        BY <1>2, <3>2 DEF Revoking
      <4> QED
        BY <1>7, <3>2, <4>1, SerialTypes DEF RouteInv
    <3> QED
      BY <1>5, <3>1, <3>2 DEF RowRoutes, Routed
  <2> QED
    BY <2>1, <2>2
<1>10. ASSUME NEW t \in Procs \ {s}, NEW q \in req[t].peers, req[t].op # "delete_user"
       PROVE  /\ row'[q] = row[q]
              /\ req[t].op = "provision" /\ Routed(q, row, gw) => Routed(q, row', gw')
  <2>1. q \in Peers \ {p}
    BY <1>4, SerialTypes DEF SessionSerial, RouteInv
  <2> QED
    BY <1>4, <1>5, <2>1 DEF Routed
<1>11. \A q \in worker.todo :
         row[q].status = "pending_revoke" => row'[q].status = "pending_revoke"
  BY <1>4 DEF RouteInv, SerialInv, IdentityInv, TypeOK
<1>12. WorkerRoutes(req', worker', row')
  BY <1>3, <1>5, <1>6, <1>7, <1>11, WorkerKept
<1> QED
  BY <1>5, <1>7, <1>8, <1>9, <1>10, <1>12, RouteStep

\* So does the commit of the private key, which is another column.
LEMMA StoreRouteStep ==
  ASSUME RouteInv, SerialInv', NEW s \in Procs, StorePrivateKey(s)
  PROVE  RouteInv'
<1> DEFINE op == req[s].op
<1>1. PICK p \in req[s].peers :
        /\ p \in Peers /\ op \in {"register", "create", "enroll"}
        /\ row'[p].status = row[p].status /\ row'[p].key = row[p].key
        /\ row'[p].ip = row[p].ip
        /\ \A q \in Peers \ {p} : row'[q] = row[q]
        /\ req' = [req EXCEPT ![s] = IF op = "create" THEN Idle
                                     ELSE Resume("enroll", "reload", {p}, NoKey)]
  BY StoreRow DEF RouteInv
<1> DEFINE r == IF op = "create" THEN Idle ELSE Resume("enroll", "reload", {p}, NoKey)
<1>2. s # Worker
  BY <1>1 DEF RouteInv, WorkerRoutes
<1>3. gw' = gw /\ wire' = {} /\ worker' = worker
  BY DEF StorePrivateKey, RouteInv
<1>4. r.op \in {"none", "enroll"}
  BY DEF Resume, Idle
<1> HIDE DEF r
<1>5. req' = [req EXCEPT ![s] = r]
  BY <1>1 DEF r
<1>6. SessionRoutes(r, row', gw')
  BY <1>4 DEF SessionRoutes
<1>7. ASSUME NEW q \in Peers PROVE RowRoutes(q, row', gw', req')
  <2>1. RowRoutes(q, row, gw, req)
    BY DEF RouteInv
  <2>2. /\ row'[q].status = row[q].status /\ row'[q].key = row[q].key
        /\ row'[q].ip = row[q].ip
    BY <1>1
  <2>3. ASSUME NEW t \in Procs, Revoking(req[t], q) PROVE Revoking(req'[t], q)
    <3>1. t # s
      BY <1>1, <2>3 DEF Revoking
    <3> QED
      BY <1>5, <2>3, <3>1, SerialTypes DEF RouteInv
  <2> QED
    BY <1>3, <2>1, <2>2, <2>3 DEF RowRoutes, Routed
<1>8. ASSUME NEW t \in Procs \ {s}, NEW q \in req[t].peers, req[t].op # "delete_user"
      PROVE  /\ row'[q] = row[q]
             /\ req[t].op = "provision" /\ Routed(q, row, gw) => Routed(q, row', gw')
  <2>1. q \in Peers \ {p}
    BY SerialTypes DEF RouteInv, SerialInv
  <2> QED
    BY <1>1, <1>3, <2>1 DEF Routed
<1>9. \A q \in worker.todo :
        row[q].status = "pending_revoke" => row'[q].status = "pending_revoke"
  BY <1>1 DEF RouteInv, SerialInv, IdentityInv, TypeOK
<1>10. WorkerRoutes(req', worker', row')
  BY <1>2, <1>3, <1>4, <1>5, <1>9, WorkerKept
<1> QED
  BY <1>3, <1>5, <1>6, <1>7, <1>8, <1>10, RouteStep

\* Choosing an address keeps the routes.
LEMMA AllocateRouteStep ==
  ASSUME RouteInv, SerialInv', NEW s \in Procs, AllocateVpnIp(s)
  PROVE  RouteInv'
<1>1. /\ row' = row /\ gw' = gw /\ wire' = wire /\ worker' = worker
      /\ req[s].pc = "allocate"
  BY DEF AllocateVpnIp
<1>2. CASE req' = [req EXCEPT ![s] = Idle]
  BY <1>1, <1>2, IdleRouteStep
<1>3. ASSUME NEW ip, req' = [req EXCEPT ![s] = [@ EXCEPT !.pc = "insert", !.ip = ip]]
      PROVE  RouteInv'
  <2> DEFINE r == [req[s] EXCEPT !.pc = "insert", !.ip = ip]
  <2>1. /\ req[s] \in Request /\ SessionRoutes(req[s], row, gw)
        /\ req[s].op \in {"register", "create", "enroll"}
    BY <1>1, SerialTypes DEF RouteInv, SessionSerial
  <2>2. s # Worker
    BY <2>1 DEF RouteInv, WorkerRoutes
  <2>3. r.op = req[s].op
    BY <2>1 DEF Request
  <2>4. req' = [req EXCEPT ![s] = r]
    BY <1>3
  <2> HIDE DEF r
  <2>5. SessionRoutes(r, row, gw)
    BY <2>1, <2>3 DEF SessionRoutes
  <2> QED
    BY <1>1, <2>1, <2>2, <2>3, <2>4, <2>5, QuietRouteStep
<1> QED
  BY <1>2, <1>3 DEF AllocateVpnIp

\* So does going on with the row that was committed.
LEMMA ReloadRouteStep ==
  ASSUME RouteInv, SerialInv', NEW s \in Procs, Reload(s)
  PROVE  RouteInv'
<1> DEFINE op == req[s].op
           S == req[s].peers
           r == Loaded(op, S, NoKey)
<1>1. /\ row' = row /\ gw' = gw /\ wire' = wire /\ worker' = worker
      /\ req[s].pc = "reload"
  BY DEF Reload
<1>2. op \in {"enroll", "provision"} /\ S \in SUBSET Peers
  BY <1>1, SerialTypes DEF SessionSerial, RouteInv
<1>3. CASE req' = [req EXCEPT ![s] = Idle]
  BY <1>1, <1>3, IdleRouteStep
<1>4. CASE req' = [req EXCEPT ![s] = r]
  <2>1. r.op = op /\ r.peers = S /\ r.pc = "loaded"
    BY <1>2, LoadedFields
  <2> HIDE DEF r
  <2>2. SessionRoutes(r, row, gw)
    BY <1>2, <2>1 DEF SessionRoutes
  <2>3. s = Worker => r.op \in {"none", "provision", "revoke"}
    BY <2>1 DEF RouteInv, WorkerRoutes
  <2> QED
    BY <1>1, <1>2, <1>4, <2>1, <2>2, <2>3, QuietRouteStep
<1> QED
  BY <1>3, <1>4 DEF Reload

\* The commit of a revocation does not fail: its row is in the table, and it writes
\* no key.
LEMMA RevokeCommits ==
  ASSUME SerialInv, NEW s \in Procs, Commit(s), req[s].op = "revoke"
  PROVE  ~CommitFails(s)
<1>1. SessionSerial(req[s], row) /\ req[s].pc \in {"ok", "failed"} /\ req[s].peers \subseteq Peers
  BY SerialTypes DEF Commit, ReadyToCommit, GatewayOps
<1>2. ASSUME NEW p \in req[s].peers
      PROVE  Exists(p) /\ NewRow(s, p).key = req[s].obj[p].key
  <2>1. InTable(row[p]) /\ req[s].obj[p] = row[p] /\ row[p] \in Row
    BY <1>1, SerialTypes DEF SessionSerial, Holds, Active
  <2> QED
    BY <2>1 DEF Exists, NewRow, Target, Revoked, Row
<1> QED
  BY <1>2 DEF CommitFails

\* A commit keeps the routes: provisioned is written after the gateway has answered,
\* and a rotated key goes back to pending.
LEMMA CommitRouteStep ==
  ASSUME RouteInv, SerialInv', NEW s \in Procs, Commit(s)
  PROVE  RouteInv'
<1>0. SerialInv
  BY DEF RouteInv
<1>1. CASE CommitFails(s)
  <2>1. req[s].op # "revoke"
    BY <1>0, <1>1, RevokeCommits
  <2> QED
    BY <1>1, <2>1, IdleRouteStep DEF Commit
<1>2. CASE ~CommitFails(s)
  <2>1. /\ req' = [req EXCEPT ![s] = Continuation(s)]
        /\ gw' = gw /\ wire' = {} /\ worker' = worker
    BY <1>2 DEF Commit, RouteInv
  <2>2. ASSUME NEW p \in Peers PROVE RowRoutes(p, row', gw', req')
    <3>1. RowRoutes(p, row, gw, req)
      BY DEF RouteInv
    <3>2. ASSUME NEW t \in Procs, t # s, Revoking(req[t], p) PROVE Revoking(req'[t], p)
      BY <1>0, <2>1, <3>2, SerialTypes
    <3>3. CASE p \notin req[s].peers
      <4>1. row'[p] = row[p]
        BY <1>0, <1>2, <3>3, CommitRows
      <4>2. ~Revoking(req[s], p)
        BY <3>3 DEF Revoking
      <4> QED
        BY <2>1, <3>1, <3>2, <4>1, <4>2 DEF RowRoutes, Routed
    <3>4. CASE p \in req[s].peers
      <4>1. /\ req[s].op # "regenerate" => row'[p].key = row[p].key
            /\ row'[p].ip = row[p].ip
            /\ req[s].op = "regenerate" => row'[p].status = "pending"
            /\ row'[p].status = "provisioned" =>
                 (req[s].op = "provision" /\ req[s].pc = "ok") \/ row'[p] = row[p]
            /\ row'[p] = NewRow(s, p) /\ row[p] \in Row
            /\ req[s].obj[p] = row[p]
        BY <1>0, <1>2, <3>4, CommitRows
      <4>2. req[s].op = "provision" /\ req[s].pc = "ok" => Routed(p, row, gw)
        BY <3>4 DEF RouteInv, SessionRoutes
      <4>3. Revoking(req[s], p) => row'[p].status # "provisioned"
        BY <4>1 DEF Revoking, NewRow, Target, Revoked, Row
      <4> QED
        BY <2>1, <3>1, <3>2, <4>1, <4>2, <4>3 DEF RowRoutes, Routed
    <3> QED
      BY <3>3, <3>4
  <2>3. ASSUME NEW t \in Procs \ {s}, NEW p \in req[t].peers, req[t].op # "delete_user"
        PROVE  /\ row'[p] = row[p]
               /\ req[t].op = "provision" /\ Routed(p, row, gw) => Routed(p, row', gw')
    <3>1. p \in Peers /\ p \notin req[s].peers
      BY <1>0, SerialTypes DEF SerialInv
    <3> QED
      BY <1>0, <1>2, <2>1, <3>1, CommitRows DEF Routed
  <2>4. /\ Continuation(s).peers \subseteq req[s].peers
        /\ Continuation(s).op \in {"none", "recalculate", "provision"}
        /\ Continuation(s).op = "recalculate" => req[s].op = "patch"
        /\ Continuation(s).pc # "ok"
    BY DEF Continuation, Resume, Idle
  <2>5. s = Worker => Continuation(s).op \in {"none", "provision", "revoke"}
    BY <2>4 DEF RouteInv, WorkerRoutes
  <2>6. SessionRoutes(Continuation(s), row', gw')
    BY <2>4 DEF SessionRoutes
  <2>7. ASSUME NEW p \in worker.todo, row[p].status = "pending_revoke"
        PROVE  row'[p].status = "pending_revoke"
    <3>1. p \in Peers
      BY <1>0 DEF SerialInv, IdentityInv, TypeOK
    <3>2. CASE p \notin req[s].peers
      BY <1>0, <1>2, <2>7, <3>1, <3>2, CommitRows
    <3>3. CASE p \in req[s].peers
      <4>1. req[s].op # "revoke"
        BY <3>3 DEF RouteInv, WorkerRoutes
      <4> QED
        BY <1>0, <1>2, <2>7, <3>3, <4>1, CommitKeepsRevocation
    <3> QED
      BY <3>2, <3>3
  <2>8. WorkerRoutes(req', worker', row')
    BY <2>1, <2>4, <2>5, <2>7, WorkerKept
  <2> QED
    BY <2>1, <2>2, <2>3, <2>6, <2>8, RouteStep
<1> QED
  BY <1>1, <1>2

\* Deleting an account keeps them: its rows are removed ones, and nobody calls the
\* gateway for them.
LEMMA CommitDeleteUserRouteStep ==
  ASSUME Undisturbed, RouteInv, SerialInv', NEW s \in Procs, CommitDeleteUser(s)
  PROVE  RouteInv'
<1>0. SerialInv
  BY DEF RouteInv
<1>1. /\ req' = [req EXCEPT ![s] = Idle] /\ gw' = gw /\ wire' = {} /\ worker' = worker
      /\ req[s].op = "delete_user"
  BY DEF CommitDeleteUser, RouteInv
<1>2. "delete_user" \in Ops
  BY <1>1 DEF RouteInv, SessionRoutes
<1>3. \A t \in Procs : req[t].op # "debug"
  BY <1>2 DEF Undisturbed, RouteInv, SessionRoutes
<1>4. ASSUME NEW p \in Peers PROVE RowRoutes(p, row', gw', req')
  <2>1. row'[p] = row[p] \/ (row[p].status = "removed" /\ row'[p].status = "deleted")
    BY <1>0, DeletedRows
  <2>2. ASSUME NEW t \in Procs, Revoking(req[t], p) PROVE Revoking(req'[t], p)
    <3>1. t # s
      BY <1>1, <2>2 DEF Revoking
    <3> QED
      BY <1>0, <1>1, <2>2, <3>1, SerialTypes
  <2> QED
    BY <1>1, <2>1, <2>2 DEF RouteInv, RowRoutes, Routed
<1>5. ASSUME NEW t \in Procs \ {s}, NEW p \in req[t].peers, req[t].op # "delete_user"
      PROVE  /\ row'[p] = row[p]
             /\ req[t].op = "provision" /\ Routed(p, row, gw) => Routed(p, row', gw')
  <2>1. p \in Peers
    BY <1>0, SerialTypes
  <2> QED
    BY <1>0, <1>1, <1>3, <1>5, <2>1, DeletedRows DEF Routed
<1>6. ASSUME NEW p \in worker.todo, row[p].status = "pending_revoke"
      PROVE  row'[p].status = "pending_revoke"
  <2>1. p \in Peers
    BY <1>0 DEF SerialInv, IdentityInv, TypeOK
  <2> QED
    BY <1>0, <1>6, <2>1, DeletedRows
<1>7. WorkerRoutes(req', worker', row')
  BY <1>1, <1>6, IdleSerial, WorkerKept
<1>8. SessionRoutes(Idle, row', gw')
  BY IdleRoutes
<1> QED
  BY <1>1, <1>4, <1>5, <1>7, <1>8, RouteStep

-----------------------------------------------------------------------------
(* The gateway.  Keys and addresses are unique, so a call for one row      *)
(* leaves the routes of the others alone.                                  *)

\* A call is about the row as it is in the table.
LEMMA CallSerial ==
  ASSUME RouteInv, NEW s \in Procs, NEW p \in Peers, Calling(s, p)
  PROVE  /\ p \in req[s].peers /\ InTable(row[p]) /\ row[p].key \in Keys
         /\ Call(s, p).key = row[p].key /\ Call(s, p).ip = row[p].ip
         /\ Call(s, p).kind = IF req[s].op \in {"revoke", "agent"} THEN "remove" ELSE "apply"
         /\ req[s].op = "agent" => row[p].status = "pending_revoke"
<1>0. SerialInv
  BY DEF RouteInv
<1>1. req[s].pc = "loaded" /\ p \in req[s].peers /\ req[s].op # "delete_user"
  BY DEF Calling, IsFirst, GatewayOps
<1>2. SessionSerial(req[s], row) /\ SessionRoutes(req[s], row, gw)
  BY <1>0, SerialTypes DEF RouteInv
<1>3. /\ req[s].obj[p] = row[p] /\ InTable(row[p])
      /\ req[s].op = "agent" => row[p].status = "pending_revoke"
  BY <1>1, <1>2 DEF SessionSerial, SessionRoutes, Holds, Active
<1>4. row[p].key \in Keys
  BY <1>0, <1>3 DEF SerialInv, RowSerial
<1> QED
  BY <1>1, <1>3, <1>4 DEF Call

\* A command about one row leaves the routes of the others alone.
LEMMA ExecuteRoutes ==
  ASSUME SerialInv, NEW p \in Peers, InTable(row[p]), NEW m, m.key = row[p].key,
         m.ip = row[p].ip, gw' = Execute(m), row' = row, NEW q \in Peers
  PROVE  /\ q # p /\ InTable(row[q]) /\ Routed(q, row, gw) => Routed(q, row', gw')
         /\ m.kind = "apply" => Routed(p, row', gw')
<1>1. InTable(row[q]) /\ q # p => row[q].key # row[p].key /\ row[q].ip # row[p].ip
  BY DEF SerialInv, IdentityInv, UniqueIdentity, Exists
<1>2. row[p].key \in Keys /\ (InTable(row[q]) => row[q].key \in Keys)
  BY DEF SerialInv, RowSerial
<1> QED
  BY <1>1, <1>2 DEF Execute, Routed

\* An answer, good or bad, keeps the routes.
LEMMA AnsweredRouteStep ==
  ASSUME RouteInv, SerialInv', NEW s \in Procs, NEW p \in Peers, Calling(s, p),
         NEW pc \in {"ok", "failed"}, Answered(s, pc),
         (gw' = gw /\ pc = "failed") \/ gw' = Execute(Call(s, p)),
         row' = row, wire' = wire, worker' = worker
  PROVE  RouteInv'
<1> DEFINE r == IF req[s].op = "debug" THEN Idle ELSE [req[s] EXCEPT !.pc = pc]
<1>0. SerialInv
  BY DEF RouteInv
<1>1. /\ req[s] \in Request /\ SessionSerial(req[s], row) /\ SessionRoutes(req[s], row, gw)
      /\ req[s].pc = "loaded"
  BY <1>0, SerialTypes DEF RouteInv, Calling
<1>2. /\ p \in req[s].peers /\ InTable(row[p]) /\ row[p].key \in Keys
      /\ Call(s, p).key = row[p].key /\ Call(s, p).ip = row[p].ip
      /\ Call(s, p).kind = IF req[s].op \in {"revoke", "agent"} THEN "remove" ELSE "apply"
      /\ req[s].op = "agent" => row[p].status = "pending_revoke"
  BY CallSerial
<1>3. req[s].op = "debug" => r = Idle
  OBVIOUS
<1>4. req[s].op # "debug" =>
        /\ r.op = req[s].op /\ r.pc = pc /\ r.peers = req[s].peers /\ r.obj = req[s].obj
  BY <1>1 DEF Request
<1>5. req' = [req EXCEPT ![s] = r]
  BY DEF Answered
<1>6. ASSUME NEW q \in Peers, q # p, InTable(row[q]), Routed(q, row, gw)
      PROVE  Routed(q, row', gw')
  BY <1>0, <1>2, <1>6, ExecuteRoutes DEF Routed
<1>7. gw' = Execute(Call(s, p)) /\ req[s].op \notin {"revoke", "agent"} => Routed(p, row', gw')
  BY <1>0, <1>2, ExecuteRoutes
<1> HIDE DEF r
<1>8. SessionRoutes(r, row', gw')
  <2>1. CASE req[s].op = "debug"
    BY <1>3, <2>1, IdleRoutes
  <2>2. CASE req[s].op # "debug"
    <3>1. r.op = "provision" /\ r.pc = "ok" => \A q \in r.peers : Routed(q, row', gw')
      BY <1>1, <1>2, <1>4, <1>7, <2>2 DEF SessionSerial
    <3> QED
      BY <1>1, <1>4, <2>2, <3>1 DEF SessionRoutes
  <2> QED
    BY <2>1, <2>2
<1>9. ASSUME NEW q \in Peers PROVE RowRoutes(q, row', gw', req')
  <2>1. RowRoutes(q, row, gw, req)
    BY DEF RouteInv
  <2>2. ASSUME NEW t \in Procs, Revoking(req[t], q) PROVE Revoking(req'[t], q)
    <3>1. t # s
      BY <1>1, <2>2 DEF Revoking
    <3> QED
      BY <1>0, <1>5, <2>2, <3>1, SerialTypes
  <2>3. CASE q # p \/ gw' = gw
    BY <1>6, <2>1, <2>2, <2>3 DEF RowRoutes, Routed, InTable
  <2>4. CASE q = p /\ gw' = Execute(Call(s, p))
    <3>1. CASE req[s].op = "revoke"
      <4>1. req'[s] = r
        BY <1>0, <1>5, SerialTypes
      <4>2. Revoking(req'[s], p)
        BY <1>2, <1>4, <3>1, <4>1 DEF Revoking
      <4> QED
        BY <2>4, <4>2 DEF RowRoutes
    <3>2. CASE req[s].op = "agent"
      BY <1>2, <2>4, <3>2 DEF RowRoutes
    <3>3. CASE req[s].op \notin {"revoke", "agent"}
      BY <1>7, <2>4, <3>3 DEF RowRoutes
    <3> QED
      BY <3>1, <3>2, <3>3
  <2> QED
    BY <2>3, <2>4
<1>10. ASSUME NEW t \in Procs \ {s}, NEW q \in req[t].peers, req[t].op # "delete_user"
       PROVE  /\ row'[q] = row[q]
              /\ req[t].op = "provision" /\ Routed(q, row, gw) => Routed(q, row', gw')
  <2>1. q \in Peers /\ q # p
    BY <1>0, <1>2, SerialTypes DEF SerialInv
  <2>2. req[t].op = "provision" => InTable(row[q])
    BY <1>0, SerialTypes DEF SessionSerial, Holds
  <2> QED
    BY <1>6, <2>1, <2>2
<1>11. /\ r.op = "revoke" => s = Worker
       /\ s = Worker => r.op \in {"none", "provision", "revoke"}
       /\ r.peers \subseteq req[s].peers
  BY <1>3, <1>4, IdleSerial DEF RouteInv, WorkerRoutes
<1>12. WorkerRoutes(req', worker', row')
  BY <1>5, <1>11, WorkerKept
<1>13. wire' = {}
  BY DEF RouteInv
<1> QED
  BY <1>5, <1>8, <1>9, <1>10, <1>12, <1>13, RouteStep

\* So does every later step of a session.
LEMMA ContinueRouteStep ==
  ASSUME Undisturbed, RouteInv, SerialInv', NEW s \in Procs, Continue(s)
  PROVE  RouteInv'
<1>1. CASE InsertFails(s)
  BY <1>1, IdleRouteStep DEF InsertFails
<1>2. ASSUME NEW p \in Peers, GatewayOk(s, p) PROVE RouteInv'
  BY <1>2, AnsweredRouteStep DEF GatewayOk
<1>3. ASSUME NEW p \in Peers, GatewayRefuses(s, p) PROVE RouteInv'
  BY <1>3, AnsweredRouteStep DEF GatewayRefuses
<1>4. ASSUME NEW p \in Peers, AnswerLost(s, p) PROVE RouteInv'
  BY <1>4, AnsweredRouteStep DEF AnswerLost
<1>5. ASSUME NEW p \in Peers PROVE ~CallDelayed(s, p)
  <2>1. wire = {} /\ MaxLate = 0
    BY DEF RouteInv, Undisturbed
  <2>2. Cardinality({}) = 0
    BY FS_EmptySet
  <2> QED
    BY <2>1, <2>2 DEF CallDelayed
<1> QED
  BY <1>1, <1>2, <1>3, <1>4, <1>5, AllocateRouteStep, InsertRouteStep,
     StoreRouteStep, ReloadRouteStep, CommitRouteStep, CommitDeleteUserRouteStep
  DEF Continue

-----------------------------------------------------------------------------
(* The worker, the script and crashes.                                     *)

\* The worker lists rows as they are.
LEMMA WorkerListRouteStep ==
  ASSUME RouteInv, SerialInv', WorkerList
  PROVE  RouteInv'
<1>1. /\ row' = row /\ gw' = gw /\ req' = req /\ wire' = wire
      /\ worker'.phase = NextPhase
      /\ worker'.todo = {p \in Peers : row[p].status = NextPhase}
  BY DEF WorkerList
<1>2. Worker \in Procs /\ req[Worker].pc = "idle"
  BY DEF Procs, WorkerList
<1>3. req[Worker].peers = {}
  BY <1>2, SerialTypes DEF RouteInv, SessionSerial
<1>4. WorkerRoutes(req', worker', row')
  BY <1>1, <1>3 DEF RouteInv, WorkerRoutes
<1>5. \A s \in Procs : SessionRoutes(req'[s], row', gw')
  BY <1>1 DEF RouteInv
<1>6. \A p \in Peers : RowRoutes(p, row', gw', req')
  BY <1>1 DEF RouteInv
<1> QED
  BY <1>1, <1>4, <1>5, <1>6 DEF RouteInv

\* The worker takes a row off its list.
LEMMA WorkerTakeRouteStep ==
  ASSUME RouteInv, SerialInv', NEW p \in Peers, WorkerTake(p)
  PROVE  RouteInv'
<1> DEFINE op == IF worker.phase = "pending" THEN "provision" ELSE "revoke"
           r == IF Guard(op, row[p]) THEN Loaded(op, {p}, NoKey) ELSE req[Worker]
<1>0. SerialInv /\ Worker \in Procs
  BY DEF RouteInv, Procs
<1>1. /\ row' = row /\ gw' = gw /\ wire' = {}
      /\ worker' = [worker EXCEPT !.todo = @ \ {p}]
      /\ req[Worker].pc = "idle" /\ p \in worker.todo
  BY DEF WorkerTake, IsFirst, RouteInv
<1>2. /\ worker'.phase = worker.phase /\ worker'.todo = worker.todo \ {p}
      /\ worker.phase \in {"pending", "pending_revoke"}
  BY <1>0, <1>1 DEF SerialInv, IdentityInv, TypeOK
<1>3. req[Worker].peers = {}
  BY <1>0, <1>1, SerialTypes DEF SessionSerial
<1>4. req' = [req EXCEPT ![Worker] = r]
  BY <1>0, SerialTypes DEF WorkerTake
<1>5. \/ r.op = op /\ r.peers = {p} /\ r.pc = "loaded"
      \/ r = req[Worker]
  BY LoadedFields
<1> HIDE DEF r
<1>6. SessionRoutes(r, row', gw')
  <2>1. CASE r = req[Worker]
    BY <1>0, <1>1, <2>1 DEF RouteInv
  <2>2. CASE r.op = op /\ r.peers = {p} /\ r.pc = "loaded"
    <3>1. op = "revoke" /\ "agent" \notin Ops => row[p].status = "pending_revoke"
      BY <1>1, <1>2 DEF RouteInv, WorkerRoutes
    <3> QED
      BY <1>1, <2>2, <3>1 DEF SessionRoutes
  <2> QED
    BY <1>5, <2>1, <2>2
<1>7. \A t \in Procs : req'[t] = IF t = Worker THEN r ELSE req[t]
  BY <1>0, <1>4, SerialTypes
<1>8. WorkerRoutes(req', worker', row')
  <2>1. \A t \in Procs : req'[t].op = "revoke" => t = Worker
    BY <1>7 DEF RouteInv, WorkerRoutes
  <2>2. req'[Worker].op \in {"none", "provision", "revoke"}
    BY <1>0, <1>5, <1>7 DEF RouteInv, WorkerRoutes
  <2>3. req'[Worker].peers \cap worker'.todo = {}
    BY <1>0, <1>2, <1>3, <1>5, <1>7
  <2>4. "agent" \notin Ops /\ worker'.phase = "pending_revoke" =>
          \A q \in worker'.todo : row'[q].status = "pending_revoke"
    BY <1>1, <1>2 DEF RouteInv, WorkerRoutes
  <2> QED
    BY <2>1, <2>2, <2>3, <2>4 DEF WorkerRoutes
<1>9. \A q \in Peers : RowRoutes(q, row', gw', req')
  BY <1>0, <1>1, <1>4, RevokingKept DEF Revoking
<1>10. ASSUME NEW t \in Procs \ {Worker}, NEW q \in req[t].peers, req[t].op # "delete_user"
       PROVE  /\ row'[q] = row[q]
              /\ req[t].op = "provision" /\ Routed(q, row, gw) => Routed(q, row', gw')
  BY <1>1
<1> QED
  BY <1>0, <1>1, <1>4, <1>6, <1>8, <1>9, <1>10, RouteStep

\* The script lists the rows that wait for their revocation.
LEMMA AgentListRouteStep ==
  ASSUME RouteInv, SerialInv', AgentList
  PROVE  RouteInv'
<1> DEFINE S == {p \in Peers : row[p].status = "pending_revoke"}
           r == Loaded("agent", S, NoKey)
<1>1. /\ row' = row /\ gw' = gw /\ wire' = wire /\ worker' = worker
      /\ Agent \in Procs /\ Agent # Worker /\ req' = [req EXCEPT ![Agent] = r]
      /\ "agent" \in Ops /\ req[Agent].pc = "idle"
  BY ProcsAssumption DEF AgentList, Procs
<1>2. r.op = "agent"
  BY DEF Loaded, Idle
<1> HIDE DEF r, S
<1>3. SessionRoutes(r, row, gw)
  BY <1>1, <1>2 DEF SessionRoutes
<1> QED
  BY <1>1, <1>2, <1>3, QuietRouteStep

\* What the script writes is not provisioned.
LEMMA AgentUpdateRouteStep ==
  ASSUME RouteInv, SerialInv', NEW p \in Peers, AgentUpdate(p)
  PROVE  RouteInv'
<1>0. SerialInv
  BY DEF RouteInv
<1>1. /\ Agent \in Procs /\ Agent # Worker /\ p \in req[Agent].peers
      /\ row'[p].status \in {"removed", "error"}
      /\ \A q \in Peers \ {p} : row'[q] = row[q]
      /\ req[Agent].op = "agent"
  BY <1>0, AgentRow, ProcsAssumption DEF AgentUpdate
<1>2. PICK r : /\ req' = [req EXCEPT ![Agent] = r]
               /\ r.op \in {"none", "agent"}
  BY <1>0, AgentRest
<1>3. gw' = gw /\ wire' = {} /\ worker' = worker
  BY DEF AgentUpdate, RouteInv
<1>4. "agent" \in Ops
  BY <1>1 DEF RouteInv, SessionRoutes
<1>5. SessionRoutes(r, row', gw')
  BY <1>2, <1>4 DEF SessionRoutes
<1>6. ASSUME NEW q \in Peers PROVE RowRoutes(q, row', gw', req')
  <2>1. CASE q = p
    BY <1>1, <2>1 DEF RowRoutes
  <2>2. CASE q # p
    <3>1. row'[q] = row[q] /\ RowRoutes(q, row, gw, req)
      BY <1>1, <2>2 DEF RouteInv
    <3>2. ASSUME NEW t \in Procs, Revoking(req[t], q) PROVE Revoking(req'[t], q)
      <4>1. t # Agent
        BY <1>1, <3>2 DEF Revoking
      <4> QED
        BY <1>0, <1>2, <3>2, <4>1, SerialTypes
    <3> QED
      BY <1>3, <3>1, <3>2 DEF RowRoutes, Routed
  <2> QED
    BY <2>1, <2>2
<1>7. ASSUME NEW t \in Procs \ {Agent}, NEW q \in req[t].peers, req[t].op # "delete_user"
      PROVE  /\ row'[q] = row[q]
             /\ req[t].op = "provision" /\ Routed(q, row, gw) => Routed(q, row', gw')
  <2>1. q \in Peers \ {p}
    BY <1>0, <1>1, SerialTypes DEF SerialInv
  <2> QED
    BY <1>1, <1>3, <2>1 DEF Routed
<1>8. WorkerRoutes(req', worker', row')
  BY <1>1, <1>2, <1>3, <1>4, WorkerKept
<1> QED
  BY <1>1, <1>2, <1>3, <1>5, <1>6, <1>7, <1>8, RouteStep

\* A crash drops a session.  One that was revoking may only be dropped where no script
\* has let its row come back meanwhile.
LEMMA CrashRouteStep ==
  ASSUME Undisturbed, RouteInv, SerialInv', NEW s \in Procs, Crash(s)
  PROVE  RouteInv'
<1>0. SerialInv
  BY DEF RouteInv
<1>1. /\ row' = row /\ gw' = gw /\ wire' = {} /\ req' = [req EXCEPT ![s] = Idle]
      /\ worker' = IF s = Worker THEN [phase |-> "pending_revoke", todo |-> {}] ELSE worker
  BY DEF Crash, RouteInv
<1>2. "agent" \notin Ops
  <2>1. faults.crashes \in Nat /\ faults.crashes < MaxCrashes
    BY <1>0 DEF Crash, SerialInv, IdentityInv, TypeOK
  <2> QED
    BY <2>1 DEF Undisturbed
<1>3. \A t \in Procs : req'[t] = IF t = s THEN Idle ELSE req[t]
  BY <1>0, <1>1, SerialTypes
<1>4. WorkerRoutes(req', worker', row')
  <2>1. CASE s = Worker
    BY <1>1, <1>3, <2>1, IdleSerial DEF RouteInv, WorkerRoutes
  <2>2. CASE s # Worker
    BY <1>1, <2>2, IdleSerial, WorkerKept
  <2> QED
    BY <2>1, <2>2
<1>5. ASSUME NEW q \in Peers PROVE RowRoutes(q, row', gw', req')
  <2>1. RowRoutes(q, row, gw, req)
    BY DEF RouteInv
  <2>2. ASSUME NEW t \in Procs, Revoking(req[t], q) PROVE row[q].status = "pending_revoke"
    BY <1>2, <2>2 DEF Revoking, RouteInv, SessionRoutes
  <2> QED
    BY <1>1, <2>1, <2>2 DEF RowRoutes, Routed
<1>6. ASSUME NEW t \in Procs \ {s}, NEW q \in req[t].peers, req[t].op # "delete_user"
      PROVE  /\ row'[q] = row[q]
             /\ req[t].op = "provision" /\ Routed(q, row, gw) => Routed(q, row', gw')
  BY <1>1
<1>7. SessionRoutes(Idle, row', gw')
  BY IdleRoutes
<1> QED
  BY <1>1, <1>4, <1>5, <1>6, <1>7, RouteStep

-----------------------------------------------------------------------------
(* Together.                                                               *)

\* With no peers there are no routes.
LEMMA InitRoutes ==
  ASSUME Init
  PROVE  RouteInv
<1>1. SerialInv
  BY InitSerial
<1>2. \A s \in Procs : req[s] = Idle
  BY DEF Init
<1>3. Worker \in Procs
  BY DEF Procs
<1>4. WorkerRoutes(req, worker, row)
  BY <1>2, <1>3, IdleSerial DEF Init, WorkerRoutes
<1>5. \A p \in Peers : RowRoutes(p, row, gw, req)
  BY DEF Init, RowRoutes, NoRow
<1> QED
  BY <1>1, <1>2, <1>4, <1>5, IdleRoutes DEF RouteInv, Init

\* Every step keeps the routes.
LEMMA NextRoutes ==
  ASSUME Undisturbed, RouteInv, [Next]_vars
  PROVE  RouteInv'
<1>1. Serial /\ SerialInv'
  BY NextSerial DEF Undisturbed, RouteInv
<1>2. ASSUME NEW s \in Clients, Start(s) PROVE RouteInv'
  BY <1>1, <1>2, StartRouteStep
<1>3. ASSUME NEW s \in Procs, Continue(s) PROVE RouteInv'
  BY <1>1, <1>3, ContinueRouteStep
<1>4. ~DelayedCall /\ ~Reboot
  BY BoundsAssumption
  DEF DelayedCall, Reboot, Undisturbed, RouteInv, SerialInv, IdentityInv, TypeOK
<1>5. CASE WorkerList
  BY <1>1, <1>5, WorkerListRouteStep
<1>6. CASE AgentList
  BY <1>1, <1>6, AgentListRouteStep
<1>7. ASSUME NEW p \in Peers, WorkerTake(p) PROVE RouteInv'
  BY <1>1, <1>7, WorkerTakeRouteStep
<1>8. ASSUME NEW p \in Peers, AgentUpdate(p) PROVE RouteInv'
  BY <1>1, <1>8, AgentUpdateRouteStep
<1>9. ASSUME NEW s \in Procs, Crash(s) PROVE RouteInv'
  BY <1>1, <1>9, CrashRouteStep
<1>10. CASE UNCHANGED vars
  BY <1>1, <1>10 DEF vars, RouteInv, SessionRoutes, RowRoutes, WorkerRoutes, Routed
<1> QED
  BY <1>2, <1>3, <1>4, <1>5, <1>6, <1>7, <1>8, <1>9, <1>10 DEF Next

\* What the invariants say of rows that no session works on.
LEMMA SerialGivesPairs == SerialInv => KeyPairMatches
BY DEF SerialInv, RowSerial, KeyPairMatches, Exists

\* A row that no session works on is not being revoked.
LEMMA RoutesGiveProperty == RouteInv => ProvisionedIsRouted
BY DEF RouteInv, RowRoutes, Routed, Revoking, Untouched, ProvisionedIsRouted

-----------------------------------------------------------------------------

\* While sessions take turns on a row, and the four conditions of Undisturbed hold, a row
\* that says provisioned is what wg0 forwards, whatever calls are refused, lose their
\* answer or are cut off by a crash: provision_peer writes provisioned only after the
\* call it made succeeded, and what the worker or the script takes out of wg0 it also
\* takes out of provisioned.
THEOREM ProvisionedReachesGateway ==
  ASSUME Undisturbed
  PROVE  Spec => []ProvisionedIsRouted
BY InitRoutes, NextRoutes, RoutesGiveProperty, PTL DEF Spec

\* While sessions take turns on a row and nobody uses PATCH, the private key the API
\* hands out is the other half of the public key of the row, across creation (two
\* commits) and regeneration, whatever crashes, is late or is deleted.
THEOREM KeyPairsMatch ==
  ASSUME Serial
  PROVE  Spec => []KeyPairMatches
BY InitSerial, NextSerial, SerialGivesPairs, PTL DEF Spec

\* In the same runs a revocation is never forgotten: only an answer of the gateway
\* takes a row out of pending_revoke, and removed is final, although the host's script
\* updates rows without looking at them.
THEOREM RevocationsAreKept ==
  ASSUME Serial
  PROVE  Spec => RevocationIsKept
<1>1. SerialInv /\ [Next]_vars => [\A p \in Peers : KeepsRevocation(p)]_row
  BY StepKeepsRevocation DEF vars
<1>2. Spec => [][\A p \in Peers : KeepsRevocation(p)]_row
  BY <1>1, InitSerial, NextSerial, PTL DEF Spec
<1>3. (\A p \in Peers : KeepsRevocation(p)) <=>
      \A p \in Peers :
       /\ row[p].status = "pending_revoke"
            => row'[p].status \in {"pending_revoke", "removed", "error"}
       /\ row[p].status = "removed" => row'[p].status \in {"removed", "deleted"}
  BY DEF KeepsRevocation
<1> QED
  BY <1>2, <1>3, PTL DEF RevocationIsKept
=============================================================================
