---------------------------- MODULE PeerLifecycle ----------------------------
(***************************************************************************)
(* The life of a WireGuard peer: rows of the table peers, the API handlers *)
(* that change them, the provision worker, the host's revocation script    *)
(* and the peer table of the interface wg0 that wg-gateway maintains.      *)
(*                                                                         *)
(* A handler is a database session.  It loads rows (a snapshot), checks    *)
(* its guard on the snapshot, may call the gateway, and flushes: SQLAlchemy*)
(* writes only the columns whose value differs from the one it loaded, by  *)
(* primary key and with no version check.  Nothing locks a row between the *)
(* load and the flush, so other sessions run in between.                   *)
(*                                                                         *)
(* Left out: allowed_ips (module PolicySync keeps it), the wording of      *)
(* provisioning_error, revoked_at and the audit log: no guard reads them.  *)
(* The address and the token of wg-gateway are configured: without them no *)
(* call is made, and a handler ends before it writes anything.             *)
(***************************************************************************)
EXTENDS Naturals, FiniteSets

CONSTANTS
  Peers,       \* primary keys of the table peers, in the order ids are given out
  Users,       \* accounts
  Owner,       \* peers.user_id of each row: [Peers -> Users]
  Keys,        \* WireGuard key pairs; a public key and its private half are one value
  NoKey,
  Hosts,       \* addresses of the VPN subnet
  GatewayIp,   \* the gateway's own address
  NoIp,
  Clients,     \* requests the API serves at the same time
  Worker,      \* the provision worker process
  Agent,       \* scripts/revoke_pending_peers.sh
  Ops,         \* the operations in use
  Overlap,     \* may two sessions work on the same row at once? (the code: yes)
  MaxLate,     \* bound: gateway calls in flight after their caller gave up
  MaxCrashes,  \* bound: sessions that die half way
  MaxReboots   \* bound: reboots of the gateway host

AllOps == {"register", "create", "enroll", "recalculate", "recalculate_user",
           "provision", "retry", "remove", "patch", "regenerate", "debug",
           "delete_user", "worker", "agent"}

ASSUME PeersAssumption == Peers \subseteq Nat
ASSUME OwnerAssumption == Owner \in [Peers -> Users]
ASSUME KeysAssumption == NoKey \notin Keys
ASSUME HostsAssumption == Hosts \subseteq Nat /\ NoIp \notin Hosts
ASSUME ProcsAssumption == Worker # Agent /\ Clients \cap {Worker, Agent} = {}
ASSUME OpsAssumption == Ops \subseteq AllOps /\ Overlap \in BOOLEAN
ASSUME BoundsAssumption == {MaxLate, MaxCrashes, MaxReboots} \subseteq Nat

Procs == Clients \cup {Worker, Agent}

\* provisioning_status, plus the row that is not there yet and the one that
\* DELETE FROM peers took away (ids are never given out again)
Status == {"absent", "pending", "provisioned", "error",
           "pending_revoke", "removed", "deleted"}

Row == [status : Status, key : Keys \cup {NoKey},
        priv : Keys \cup {NoKey}, ip : Hosts \cup {NoIp}]
NoRow == [status |-> "absent", key |-> NoKey, priv |-> NoKey, ip |-> NoIp]

PC == {"idle", "allocate", "insert", "private", "reload", "loaded", "ok", "failed"}

\* What a process holds between two steps: the operation, where it stands, the
\* rows it works on as it loaded them (obj), the key it was given or generated
\* and the address it was allocated.
Request == [op : AllOps \cup {"none", "revoke"}, pc : PC, user : Users \cup {"none"},
            peers : SUBSET Peers, obj : [Peers -> Row],
            key : Keys \cup {NoKey}, ip : Hosts \cup {NoIp}]
Idle == [op |-> "none", pc |-> "idle", user |-> "none", peers |-> {},
         obj |-> [q \in Peers |-> NoRow], key |-> NoKey, ip |-> NoIp]

Message == [kind : {"apply", "remove"}, key : Keys \cup {NoKey},
            ip : Hosts \cup {NoIp}]

VARIABLES
  users,   \* accounts that exist
  row,     \* the table peers: [Peers -> Row]
  held,    \* history: <<p, k>> when row p was ever committed with key k
  gw,      \* wg0: the address the gateway forwards to each key, or NoIp
  wire,    \* gateway calls whose caller timed out, not yet executed
  req,     \* [Procs -> Request]
  worker,  \* the worker's pass: [phase, todo]
  faults   \* [crashes, reboots] so far

vars == <<users, row, held, gw, wire, req, worker, faults>>

TypeOK ==
  /\ users \subseteq Users
  /\ row \in [Peers -> Row]
  /\ held \subseteq Peers \X (Keys \cup {NoKey})
  /\ gw \in [Keys -> Hosts \cup {NoIp}]
  /\ wire \subseteq Message
  /\ req \in [Procs -> Request]
  /\ worker \in [phase : {"pending", "pending_revoke"}, todo : SUBSET Peers]
  /\ faults \in [crashes : Nat, reboots : Nat]

Init ==
  /\ users = Users
  /\ row = [p \in Peers |-> NoRow]
  /\ held = {}
  /\ gw = [k \in Keys |-> NoIp]
  /\ wire = {}
  /\ req = [s \in Procs |-> Idle]
  /\ worker = [phase |-> "pending_revoke", todo |-> {}]
  /\ faults = [crashes |-> 0, reboots |-> 0]

-----------------------------------------------------------------------------
(***************************************************************************)
(* The table: what is there, who may start work on it, how a flush writes. *)
(***************************************************************************)
InTable(r) == r.status \notin {"absent", "deleted"}
Exists(p) == InTable(row[p])

IsFirst(p, S) == p \in S /\ \A q \in S : p <= q   \* ORDER BY id

\* With Overlap = FALSE the environment serialises the sessions on each row.
Free(s, S) == Overlap \/ \A t \in Procs \ {s} : req[t].peers \cap S = {}

\* The unique constraints on public_key and vpn_ip
KeyTaken(k, p) == \E q \in Peers \ {p} : Exists(q) /\ row[q].key = k

IpsOfLiveRows ==        \* mutant: a removed row gives its address up
  {row[p].ip : p \in {q \in Peers : Exists(q) /\ row[q].status # "removed"}}
UsedIps == {row[p].ip : p \in {q \in Peers : Exists(q)}}
IpNeverTaken(ip) == FALSE   \* mutant: vpn_ip is not unique
IpTaken(ip) == ip \in UsedIps

\* A key pair wg genkey has just made: nobody has it
FreshKeys == {k \in Keys : /\ \A p \in Peers : <<p, k>> \notin held
                           /\ \A s \in Procs : req[s].key # k}

\* Only a column that differs from the loaded value is written.
Column(cur, old, new) == IF new # old THEN new ELSE cur
Flush(cur, old, new) ==
  [cur EXCEPT !.status = Column(cur.status, old.status, new.status),
              !.key = Column(cur.key, old.key, new.key),
              !.priv = Column(cur.priv, old.priv, new.priv)]

-----------------------------------------------------------------------------
(***************************************************************************)
(* What each operation requires of the row it loaded, and what it makes of *)
(* it.  k is the key of the request, ok whether the gateway call succeeded.*)
(***************************************************************************)
CanRecalculateAny(r) == InTable(r)   \* mutant: the guard is dropped
CanRecalculate(r) == r.status \in {"pending", "provisioned", "error"}
CanProvision(r) == r.status \in {"pending", "error"}
CanRetry(r) == r.status = "error"
CanRemove(r) == r.status \in {"pending", "provisioned", "error"}
CanRegenerate(r) == r.status \in {"provisioned", "error"}
CanRevoke(r) == InTable(r) /\ r.status # "removed"
CanPatch(r) == InTable(r)

Guard(op, r) ==
  CASE op \in {"recalculate", "enroll", "recalculate_user"} -> CanRecalculate(r)
    [] op = "provision" -> CanProvision(r)
    [] op = "retry" -> CanRetry(r)
    [] op = "remove" -> CanRemove(r)
    [] op = "regenerate" -> CanRegenerate(r)
    [] op = "revoke" -> CanRevoke(r)
    [] OTHER -> CanPatch(r)

Recalculated(r) == [r EXCEPT !.status = "pending"]
Provisioned(r, ok) == [r EXCEPT !.status = IF ok THEN "provisioned" ELSE "error"]
Revoked(r, ok) == [r EXCEPT !.status = IF ok THEN "removed" ELSE "error"]
Retried(r) == [r EXCEPT !.status = "pending"]
RemovedUnlessProvisioned(r) ==   \* mutant: a row in error counts as unknown to wg0
  [r EXCEPT !.status = IF r.status = "provisioned" THEN "pending_revoke" ELSE "removed"]
RemoveRequested(r) ==
  [r EXCEPT !.status = IF r.status = "pending" THEN "removed" ELSE "pending_revoke"]
Patched(r, k) == [r EXCEPT !.key = k, !.status = "pending"]
RegeneratedInPlace(r, k) ==   \* mutant: the row is not queued again
  [r EXCEPT !.key = k, !.priv = k]
RegeneratedPublicOnly(r, k) ==   \* mutant: client_private_key is left alone
  [r EXCEPT !.key = k, !.status = "pending"]
RegeneratedRotating(r, k) ==   \* mutant: a status the enum does not have
  [r EXCEPT !.key = k, !.priv = k, !.status = "rotating"]
Regenerated(r, k) == [r EXCEPT !.key = k, !.priv = k, !.status = "pending"]

Target(op, r, k, ok) ==
  CASE op \in {"recalculate", "enroll", "recalculate_user"} -> Recalculated(r)
    [] op = "provision" -> Provisioned(r, ok)
    [] op = "revoke" -> Revoked(r, ok)
    [] op = "retry" -> Retried(r)
    [] op = "remove" -> RemoveRequested(r)
    [] op = "patch" -> Patched(r, k)
    [] op = "regenerate" -> Regenerated(r, k)
    [] OTHER -> r

GatewayOps == {"provision", "revoke", "debug", "agent"}

-----------------------------------------------------------------------------
(***************************************************************************)
(* Requests that start by loading rows.  A guard that fails answers 404,   *)
(* 409 or 400, or returns the row as it is: nothing changes, so the action *)
(* is not enabled.                                                         *)
(***************************************************************************)
Loaded(op, S, k) ==
  [Idle EXCEPT !.op = op, !.pc = "loaded", !.peers = S, !.key = k,
               !.obj = [q \in Peers |-> IF q \in S THEN row[q] ELSE NoRow]]

Load(s, op, S, k) ==
  /\ req[s].pc = "idle"
  /\ Free(s, S)
  /\ \A p \in S : Guard(op, row[p])
  /\ req' = [req EXCEPT ![s] = Loaded(op, S, k)]
  /\ UNCHANGED <<users, row, held, gw, wire, worker, faults>>

Recalculate(s, p) == "recalculate" \in Ops /\ Load(s, "recalculate", {p}, NoKey)
Provision(s, p) == "provision" \in Ops /\ Load(s, "provision", {p}, NoKey)
Retry(s, p) == "retry" \in Ops /\ Load(s, "retry", {p}, NoKey)
Remove(s, p) == "remove" \in Ops /\ Load(s, "remove", {p}, NoKey)
DebugProvision(s, p) == "debug" \in Ops /\ Load(s, "debug", {p}, NoKey)
Patch(s, p) == "patch" \in Ops /\ \E k \in Keys : Load(s, "patch", {p}, k)
Regenerate(s, p) ==
  "regenerate" \in Ops /\ \E k \in FreshKeys : Load(s, "regenerate", {p}, k)

RecalculateUser(s, u) ==
  LET S == {p \in Peers : Owner[p] = u /\ CanRecalculate(row[p])}
  IN  /\ "recalculate_user" \in Ops
      /\ S # {}
      /\ Load(s, "recalculate_user", S, NoKey)

\* The UI refuses to delete an account while a peer of it is not removed.
DeleteUser(s, u) ==
  LET S == {p \in Peers : Owner[p] = u /\ Exists(p)}
  IN  /\ req[s].pc = "idle"
      /\ "delete_user" \in Ops
      /\ u \in users
      /\ Free(s, S)
      /\ \A p \in S : row[p].status = "removed"
      /\ req' = [req EXCEPT ![s] = [Loaded("delete_user", S, NoKey) EXCEPT !.user = u]]
      /\ UNCHANGED <<users, row, held, gw, wire, worker, faults>>

(***************************************************************************)
(* Registration.  A key that is already in the table makes the request a   *)
(* recalculation of that row; otherwise an address is read off the table   *)
(* and the row is inserted, under the unique constraints.                  *)
(***************************************************************************)
Begin(s, op, u, k) ==
  /\ req[s].pc = "idle"
  /\ op \in Ops
  /\ req' = [req EXCEPT ![s] =
               [Idle EXCEPT !.op = op, !.pc = "allocate", !.user = u, !.key = k]]
  /\ UNCHANGED <<users, row, held, gw, wire, worker, faults>>

RegisterNew(s, u) ==
  \E k \in Keys : /\ u \in users
                  /\ \A p \in Peers : ~(Exists(p) /\ row[p].key = k)
                  /\ Begin(s, "register", u, k)

RegisterKnown(s, p) ==
  "register" \in Ops /\ Load(s, "recalculate", {p}, NoKey)

\* register_peer_for_user: the server makes the key pair
Create(s, u) == \E k \in FreshKeys : u \in users /\ Begin(s, "create", u, k)
Enroll(s, u) == \E k \in FreshKeys : u \in users /\ Begin(s, "enroll", u, k)

AllocateVpnIp(s) ==
  LET free == Hosts \ (UsedIps \cup {GatewayIp})
  IN  /\ req[s].pc = "allocate"
      /\ \/ /\ free = {}                                     \* VPN subnet exhausted
            /\ req' = [req EXCEPT ![s] = Idle]
         \/ \E ip \in free :
              /\ IsFirst(ip, free)
              /\ req' = [req EXCEPT ![s] = [@ EXCEPT !.pc = "insert", !.ip = ip]]
      /\ UNCHANGED <<users, row, held, gw, wire, worker, faults>>

\* A handler that has more to do with the rows S after a commit
Resume(op, pc, S, k) == [Idle EXCEPT !.op = op, !.pc = pc, !.peers = S, !.key = k]

CanInsert(s, p) ==
  /\ Owner[p] = req[s].user
  /\ row[p].status = "absent"
  /\ req[s].user \in users
  /\ ~KeyTaken(req[s].key, p)
  /\ ~IpTaken(req[s].ip)

Insert(s) ==
  /\ req[s].pc = "insert"
  /\ \E p \in Peers :
       /\ CanInsert(s, p)
       /\ row' = [row EXCEPT ![p] = [status |-> "pending", key |-> req[s].key,
                                     priv |-> NoKey, ip |-> req[s].ip]]
       /\ held' = held \cup {<<p, req[s].key>>}
       /\ req' = [req EXCEPT ![s] =
                    IF req[s].op = "register" THEN Idle
                    ELSE Resume(req[s].op, "private", {p}, req[s].key)]
  /\ UNCHANGED <<users, gw, wire, worker, faults>>

\* IntegrityError, or every id of the model is used up
InsertFails(s) ==
  /\ req[s].pc = "insert"
  /\ \A p \in Peers : ~CanInsert(s, p)
  /\ req' = [req EXCEPT ![s] = Idle]
  /\ UNCHANGED <<users, row, held, gw, wire, worker, faults>>

\* The second commit of register_peer_for_user writes one column.
StorePrivateKey(s) ==
  /\ req[s].pc = "private"
  /\ \E p \in req[s].peers :
       IF Exists(p)
       THEN /\ row' = [row EXCEPT ![p] = [@ EXCEPT !.priv = req[s].key]]
            /\ req' = [req EXCEPT ![s] =
                         IF req[s].op = "create" THEN Idle
                         ELSE Resume("enroll", "reload", {p}, NoKey)]
       ELSE row' = row /\ req' = [req EXCEPT ![s] = Idle]  \* StaleDataError
  /\ UNCHANGED <<users, held, gw, wire, worker, faults>>

ReloadUnchecked(s) ==   \* mutant: goes on whatever the row has become
  /\ req[s].pc = "reload"
  /\ req' = [req EXCEPT ![s] = Loaded(@.op, @.peers, NoKey)]
  /\ UNCHANGED <<users, row, held, gw, wire, worker, faults>>

\* A handler that goes on with the row it committed refreshes it first.
Reload(s) ==
  /\ req[s].pc = "reload"
  /\ req' = [req EXCEPT ![s] = IF \A p \in @.peers : Guard(@.op, row[p])
                               THEN Loaded(@.op, @.peers, NoKey) ELSE Idle]
  /\ UNCHANGED <<users, row, held, gw, wire, worker, faults>>

-----------------------------------------------------------------------------
(***************************************************************************)
(* The flush of a request.                                                 *)
(***************************************************************************)
NewRow(s, p) == Target(req[s].op, req[s].obj[p], req[s].key, req[s].pc = "ok")

Committed(s, p) == IF p \in req[s].peers THEN Flush(row[p], req[s].obj[p], NewRow(s, p))
                   ELSE row[p]

\* The UPDATE of a row that was deleted meanwhile, or a key that another row has
CommitFails(s) ==
  \E p \in req[s].peers :
    \/ NewRow(s, p) # req[s].obj[p] /\ ~Exists(p)
    \/ NewRow(s, p).key # req[s].obj[p].key /\ KeyTaken(NewRow(s, p).key, p)

\* update_peer_endpoint ends in recalculate_peer_by_id, enroll_peer_for_user in
\* provision_peer_by_id.
Continuation(s) ==
  CASE req[s].op = "patch" -> Resume("recalculate", "reload", req[s].peers, NoKey)
    [] req[s].op = "enroll" -> Resume("provision", "reload", req[s].peers, NoKey)
    [] OTHER -> Idle

ReadyToCommit(s) ==
  IF req[s].op \in GatewayOps THEN req[s].op # "agent" /\ req[s].pc \in {"ok", "failed"}
  ELSE req[s].op # "delete_user" /\ req[s].pc = "loaded"

Commit(s) ==
  /\ ReadyToCommit(s)
  /\ IF CommitFails(s)
     THEN /\ req' = [req EXCEPT ![s] = Idle]
          /\ UNCHANGED <<row, held>>
     ELSE /\ row' = [p \in Peers |-> Committed(s, p)]
          /\ held' = held \cup {<<p, row'[p].key>> : p \in {q \in req[s].peers : Exists(q)}}
          /\ req' = [req EXCEPT ![s] = Continuation(s)]
  /\ UNCHANGED <<users, gw, wire, worker, faults>>

\* DELETE the removed rows of the account and the account.  The foreign key
\* rolls it back when the account has any other row by now.
CommitDeleteUser(s) ==
  LET mine == {p \in Peers : Owner[p] = req[s].user /\ Exists(p)}
  IN  /\ req[s].op = "delete_user" /\ req[s].pc = "loaded"
      /\ IF req[s].user \in users /\ \A p \in mine : row[p].status = "removed"
         THEN /\ users' = users \ {req[s].user}
              /\ row' = [p \in Peers |-> IF p \in mine
                                         THEN [row[p] EXCEPT !.status = "deleted"] ELSE row[p]]
         ELSE UNCHANGED <<users, row>>
      /\ req' = [req EXCEPT ![s] = Idle]
      /\ UNCHANGED <<held, gw, wire, worker, faults>>

-----------------------------------------------------------------------------
(***************************************************************************)
(* The gateway.  wg set peer K allowed-ips A gives A to K and takes it     *)
(* from whichever key had it; wg set peer K remove forgets K.  The caller  *)
(* may see a failure although the call was, or later will be, executed.    *)
(***************************************************************************)
Execute(m) ==
  [k \in Keys |-> IF k = m.key THEN (IF m.kind = "apply" THEN m.ip ELSE NoIp)
                  ELSE IF m.kind = "apply" /\ gw[k] = m.ip THEN NoIp ELSE gw[k]]

Call(s, p) == [kind |-> IF req[s].op \in {"revoke", "agent"} THEN "remove" ELSE "apply",
               key |-> req[s].obj[p].key, ip |-> req[s].obj[p].ip]

\* Session s is at its gateway call for row p.
Calling(s, p) ==
  req[s].op \in GatewayOps /\ req[s].pc = "loaded" /\ IsFirst(p, req[s].peers)

\* debug_provision_peer_endpoint writes nothing whatever the answer.
Answered(s, pc) ==
  req' = [req EXCEPT ![s] = IF @.op = "debug" THEN Idle ELSE [@ EXCEPT !.pc = pc]]

GatewayOk(s, p) ==
  /\ Calling(s, p)
  /\ gw' = Execute(Call(s, p))
  /\ Answered(s, "ok")
  /\ UNCHANGED <<users, row, held, wire, worker, faults>>

GatewayRefuses(s, p) ==
  /\ Calling(s, p)
  /\ Answered(s, "failed")
  /\ UNCHANGED <<users, row, held, gw, wire, worker, faults>>

\* ReadTimeout: wg-gateway executed the call, the answer was lost
AnswerLost(s, p) ==
  /\ Calling(s, p) /\ req[s].op # "agent"
  /\ gw' = Execute(Call(s, p))
  /\ Answered(s, "failed")
  /\ UNCHANGED <<users, row, held, wire, worker, faults>>

\* ReadTimeout: wg-gateway is still to execute the call
CallDelayed(s, p) ==
  /\ Calling(s, p) /\ req[s].op # "agent"
  /\ Cardinality(wire) < MaxLate
  /\ wire' = wire \cup {Call(s, p)}
  /\ Answered(s, "failed")
  /\ UNCHANGED <<users, row, held, gw, worker, faults>>

DelayedCall ==
  \E m \in wire : /\ gw' = Execute(m)
                  /\ wire' = wire \ {m}
                  /\ UNCHANGED <<users, row, held, req, worker, faults>>

-----------------------------------------------------------------------------
(***************************************************************************)
(* The provision worker: list the ids in a status, then one session per    *)
(* id; pending and pending_revoke in turn.  A failing id is skipped.       *)
(***************************************************************************)
DrainPending ==   \* mutant: no revocation while anything is pending
  IF worker.phase = "pending" /\ \A p \in Peers : row[p].status # "pending"
  THEN "pending_revoke" ELSE "pending"
DrainRevokes ==   \* mutant: no provisioning while a revocation waits
  IF worker.phase = "pending_revoke" /\ \A p \in Peers : row[p].status # "pending_revoke"
  THEN "pending" ELSE "pending_revoke"
NextPhase == IF worker.phase = "pending" THEN "pending_revoke" ELSE "pending"

WorkerList ==
  /\ "worker" \in Ops
  /\ req[Worker].pc = "idle"
  /\ worker.todo = {}
  /\ worker' = [phase |-> NextPhase, todo |-> {p \in Peers : row[p].status = NextPhase}]
  /\ UNCHANGED <<users, row, held, gw, wire, req, faults>>

WorkerTake(p) ==
  LET op == IF worker.phase = "pending" THEN "provision" ELSE "revoke"
  IN  /\ req[Worker].pc = "idle"
      /\ IsFirst(p, worker.todo)
      /\ Free(Worker, {p})
      /\ worker' = [worker EXCEPT !.todo = @ \ {p}]
      /\ req' = IF Guard(op, row[p])
                THEN [req EXCEPT ![Worker] = Loaded(op, {p}, NoKey)] ELSE req
      /\ UNCHANGED <<users, row, held, gw, wire, faults>>

(***************************************************************************)
(* The host's script: list id and key of every pending_revoke row, then    *)
(* for each wg set ... remove and an unconditional UPDATE by id.           *)
(***************************************************************************)
AgentList ==
  LET S == {p \in Peers : row[p].status = "pending_revoke"}
  IN  /\ "agent" \in Ops
      /\ req[Agent].pc = "idle"
      /\ S # {}
      /\ Free(Agent, S)
      /\ req' = [req EXCEPT ![Agent] = Loaded("agent", S, NoKey)]
      /\ UNCHANGED <<users, row, held, gw, wire, worker, faults>>

AgentUpdate(p) ==
  LET rest == req[Agent].peers \ {p}
  IN  /\ req[Agent].op = "agent" /\ req[Agent].pc \in {"ok", "failed"}
      /\ IsFirst(p, req[Agent].peers)
      /\ row' = IF Exists(p) THEN [row EXCEPT ![p] = Revoked(@, req[Agent].pc = "ok")]
                ELSE row
      /\ req' = [req EXCEPT ![Agent] =
                   IF rest = {} THEN Idle
                   ELSE [@ EXCEPT !.pc = "loaded", !.peers = rest, !.obj[p] = NoRow]]
      /\ UNCHANGED <<users, held, gw, wire, worker, faults>>

-----------------------------------------------------------------------------
(***************************************************************************)
(* Faults: a process dies between two steps; the gateway's host reboots    *)
(* and wg0 comes back without peers.                                       *)
(***************************************************************************)
Crash(s) ==
  /\ req[s].pc # "idle"
  /\ faults.crashes < MaxCrashes
  /\ faults' = [faults EXCEPT !.crashes = @ + 1]
  /\ req' = [req EXCEPT ![s] = Idle]
  /\ worker' = IF s = Worker THEN [phase |-> "pending_revoke", todo |-> {}] ELSE worker
  /\ UNCHANGED <<users, row, held, gw, wire>>

Reboot ==
  /\ faults.reboots < MaxReboots
  /\ faults' = [faults EXCEPT !.reboots = @ + 1]
  /\ gw' = [k \in Keys |-> NoIp]
  /\ UNCHANGED <<users, row, held, wire, req, worker>>

-----------------------------------------------------------------------------
Start(s) ==
  \/ \E p \in Peers : \/ Recalculate(s, p)
                      \/ Provision(s, p)
                      \/ Retry(s, p)
                      \/ Remove(s, p)
                      \/ DebugProvision(s, p)
                      \/ Patch(s, p)
                      \/ Regenerate(s, p)
                      \/ RegisterKnown(s, p)
  \/ \E u \in Users : \/ RecalculateUser(s, u)
                      \/ DeleteUser(s, u)
                      \/ RegisterNew(s, u)
                      \/ Create(s, u)
                      \/ Enroll(s, u)

Continue(s) ==
  \/ AllocateVpnIp(s) \/ Insert(s) \/ InsertFails(s) \/ StorePrivateKey(s)
  \/ Reload(s) \/ Commit(s) \/ CommitDeleteUser(s)
  \/ \E p \in Peers : \/ GatewayOk(s, p)
                      \/ GatewayRefuses(s, p)
                      \/ AnswerLost(s, p)
                      \/ CallDelayed(s, p)

Next ==
  \/ \E s \in Clients : Start(s)
  \/ \E s \in Procs : Continue(s)
  \/ DelayedCall
  \/ WorkerList \/ AgentList
  \/ \E p \in Peers : WorkerTake(p) \/ AgentUpdate(p)
  \/ \E s \in Procs : Crash(s)
  \/ Reboot

Spec == Init /\ [][Next]_vars

\* The worker loops for ever and its calls are answered or time out; nobody is
\* obliged to send a request.
Fairness ==
  /\ WF_vars(WorkerList)
  /\ WF_vars(\E p \in Peers : WorkerTake(p))
  /\ WF_vars(Continue(Worker))
FairSpec == Spec /\ Fairness

-----------------------------------------------------------------------------
(***************************************************************************)
(* Properties                                                              *)
(***************************************************************************)

\* Two rows never share a public key or an address, and no row has the
\* gateway's: allocate_vpn_ip reads the used addresses in one statement and
\* register_peer inserts in another, so two registrations may choose the same
\* address, also the last one or one that an account deletion has just freed.
UniqueIdentity ==
  \A p, q \in Peers :
    Exists(p) => /\ row[p].ip # GatewayIp
                 /\ (p # q /\ Exists(q)) =>
                      row[p].key # row[q].key /\ row[p].ip # row[q].ip

\* Whatever the interleaving of sessions, late gateway calls and crashes, wg0
\* forwards the address of a row only to a key that this row has had: no peer
\* receives the traffic of another one.
AddressBelongsToHolder ==
  \A k \in Keys, p \in Peers :
    Exists(p) /\ gw[k] = row[p].ip => <<p, k>> \in held

Untouched(p) == \A s \in Procs : p \notin req[s].peers

\* A row that says provisioned, and that no session is working on, is what wg0
\* has: the gateway forwards the row's address to the row's key.
ProvisionedIsRouted ==
  \A p \in Peers : row[p].status = "provisioned" /\ Untouched(p)
                     => gw[row[p].key] = row[p].ip

\* A row that says removed, and that no session is working on, gives no access:
\* the gateway forwards nothing to its key.
RemovedIsUnrouted ==
  \A p \in Peers : row[p].status = "removed" /\ Untouched(p)
                     => gw[row[p].key] = NoIp

\* A private key in the table is the other half of the public key next to it,
\* so that the .conf and the QR code the API hands out can connect.
KeyPairMatches ==
  \A p \in Peers : Exists(p) /\ row[p].priv # NoKey => row[p].priv = row[p].key

\* A revocation is not forgotten: a row leaves pending_revoke only when the
\* gateway has answered, and a removed row never comes back to life.
RevocationIsKept ==
  [][\A p \in Peers :
       /\ row[p].status = "pending_revoke"
            => row'[p].status \in {"pending_revoke", "removed", "error"}
       /\ row[p].status = "removed" => row'[p].status \in {"removed", "deleted"}]_row

\* A removal is undone only by a session that had loaded the row before the
\* removal was committed, or by PATCH: whoever loads a row that is removed, or
\* waits to be revoked, never takes it back to pending or provisioned, also in
\* the second half of a handler that commits twice.
OnlyStaleSessionsRevive ==
  [][\A p \in Peers :
       row[p].status \in {"pending_revoke", "removed"} /\ row'[p].status \in {"pending", "provisioned"}
         => \E s \in Procs :
              /\ p \in req[s].peers /\ req'[s] # req[s]
              /\ \/ req[s].op = "patch"
                 \/ req[s].obj[p].status \notin {"pending_revoke", "removed"}]_row

\* The worker gets round to every pending row, whatever API requests, failures
\* and bounded crashes do meanwhile.
PendingIsHandled ==
  \A p \in Peers : row[p].status = "pending" ~> row[p].status # "pending"

\* A removed row is not put back into the queue of rows to provision.
RemovedIsNotPendingAgain ==
  [][\A p \in Peers : row[p].status = "removed" => row'[p].status # "pending"]_row

\* Once a revocation is requested the gateway stops forwarding to the peer's key.
RevokeDisablesAccess ==
  \A p \in Peers : row[p].status = "pending_revoke"
                     ~> ~(Exists(p) /\ gw[row[p].key] = row[p].ip)

\* The worker gets round to every row that waits for its revocation.
RevokeIsHandled ==
  \A p \in Peers : row[p].status = "pending_revoke" ~> row[p].status # "pending_revoke"
=============================================================================
