------------------------------ MODULE PolicySync ------------------------------
(***************************************************************************)
(* Which change of users, groups, resources and policies brings the routes *)
(* of which peers up to date: the handlers of app/api/v1/policies.py,      *)
(* groups.py, users.py and of the admin UI (ui_admin_fragments.py) with    *)
(* resource_service.py, policy_service.py and group_service.py, down to    *)
(* recalculate_peers_for_user and register_peer_for_user.                  *)
(*                                                                         *)
(* A handler reads its row, commits the change, finds the users affected   *)
(* and takes them one after another; each of these is a step, and requests *)
(* overlap between them.  The statements of one calculation are one step.  *)
(* A user has one peer here, which stands for all of the user's peers that *)
(* are pending, provisioned or in error; a network is the set of its       *)
(* addresses, which PolicyEngine shows to be what the engine works with.   *)
(***************************************************************************)
EXTENDS Integers, FiniteSets

CONSTANTS
  Users,       \* ids of users
  Groups,      \* ids of groups
  Policies,    \* ids of policies
  Resources,   \* ids of resources
  Address,     \* addresses
  Nets,        \* the networks a resource may be
  NoId,        \* NULL
  Clients,     \* requests in progress
  PolicyPayloads, \* the policies the forms send
  Databases,   \* the contents of the tables at the start
  Handlers,    \* the handlers that are used
  MayCrash,    \* whether a request may die half-way
  Pool,        \* addresses of the VPN subnet
  MaxOpen,     \* requests that may overlap
  MaxOps       \* bound: requests altogether

ASSUME IdAssumption ==
  /\ Users \subseteq Nat
  /\ NoId \notin Users /\ NoId \notin Groups
  /\ Nets \subseteq SUBSET Address
  /\ Pool \subseteq Nat
  /\ MayCrash \in BOOLEAN

\* A row has not been inserted, is inactive, active, or deleted.
RowState == {"none", "off", "on", "gone"}
Stored == {"off", "on"}

PolicyRow ==
  [state : RowState, user : Users \cup {NoId}, group : Groups \cup {NoId},
   res : Resources, effect : {"allow", "deny"}]

ResourceRow == [state : RowState, net : SUBSET Address]

\* check_subject of PolicyCreate.
OneSubject(row) == (row.user = NoId) # (row.group = NoId)

\* The tables at the start keep their foreign keys, and a peer has an address.
ASSUME DataAssumption ==
  /\ PolicyPayloads \subseteq PolicyRow
  /\ \A d \in Databases :
       /\ d.account \in [Users -> {"none", "on", "gone"}]
       /\ d.group \in [Groups -> RowState]
       /\ d.member \subseteq Users \X Groups
       /\ d.policy \in [Policies -> PolicyRow]
       /\ d.resource \in [Resources -> ResourceRow]
       /\ d.live \subseteq Users
       /\ d.holder \in [Pool -> Users \cup {NoId}]
       /\ \A m \in d.member : d.account[m[1]] = "on" /\ d.group[m[2]] \in Stored
       /\ \A u \in d.live : \E a \in Pool : d.holder[a] = u
       /\ \A a \in Pool : d.holder[a] # NoId => d.account[d.holder[a]] = "on"
       /\ \A p \in Policies :
            d.policy[p].state \in Stored =>
              /\ d.policy[p].user # NoId => d.account[d.policy[p].user] = "on"
              /\ d.policy[p].group # NoId => d.group[d.policy[p].group] \in Stored

VARIABLES
  account,   \* users: "none", "on" or "gone"
  group,     \* groups, with their is_active
  member,    \* user_group
  policy,    \* policies
  resource,  \* resources
  live,      \* users with a peer in service
  allowed,   \* its allowed_ips but for its own address
  holder,    \* the user whose row of peers has the address of the pool, or NoId
  req,       \* requests in progress
  owed,      \* users changed by a handler that recalculates nothing for them
  ops        \* requests so far

tables == <<account, group, member, policy, resource>>
peers == <<live, allowed, holder>>
vars == <<account, group, member, policy, resource, live, allowed, holder, req, owed, ops>>

Pc == {"idle", "commit", "affect", "take", "compute", "store", "register", "insert"}

NoRequest ==
  [pc |-> "idle", kind |-> "peer", id |-> NoId, old |-> {}, new |-> {},
   todo |-> {}, after |-> FALSE, registers |-> FALSE, forgets |-> FALSE,
   user |-> NoId, loaded |-> {}, routes |-> {}]

(***************************************************************************)
(* What the policies say.                                                  *)
(***************************************************************************)

\* calculate_allowed_ips_for_user over tables that may be partly stale.
Routes(u, groups, pol, res) ==
  LET Covered(effect) ==
        UNION {res[pol[p].res].net :
                 p \in {p \in Policies :
                          /\ pol[p].state = "on" /\ pol[p].effect = effect
                          /\ pol[p].user = u \/ pol[p].group \in groups
                          /\ res[pol[p].res].state = "on"}}
  IN Covered("allow") \ Covered("deny")

GroupsOf(u) == {g \in Groups : <<u, g>> \in member}

Entitled(u) == Routes(u, GroupsOf(u), policy, resource)

\* What a request computes: the object its handler holds is not read again,
\* only the WHERE clause is evaluated in the database.
Seen(r, u) ==
  IF account[u] # "on" THEN {}
  ELSE
    Routes(u,
      IF r.kind = "user" THEN r.new ELSE GroupsOf(u),
      IF r.kind = "policy"
        THEN [policy EXCEPT ![r.id] = [r.new EXCEPT !.state = policy[r.id].state]]
        ELSE policy,
      IF r.kind = "resource" THEN [resource EXCEPT ![r.id] = r.new] ELSE resource)

(***************************************************************************)
(* The users a change affects.                                             *)
(***************************************************************************)

\* mutant: the members of the group are forgotten
AffectedUser(row) == {u \in Users : row.user = u}

Affected(row) ==
  {u \in Users : row.user = u \/ <<u, row.group>> \in member}

AffectedByResource(r) ==
  UNION {Affected(policy[p]) : p \in {p \in Policies : policy[p].state = "on"
                                                       /\ policy[p].res = r}}

AffectedNow(r) ==
  IF r.kind = "policy" THEN Affected(r.new) ELSE AffectedByResource(r.id)

\* The users a request has yet to bring up to date.
Due(r) ==
  CASE r.pc = "commit" \/ r.kind = "peer" -> {}
    [] r.pc = "affect" /\ r.kind # "peer" -> r.todo \cup AffectedNow(r)
    [] OTHER -> r.todo

(***************************************************************************)
(* Requests.                                                               *)
(***************************************************************************)

Open == {c \in Clients : req[c].pc # "idle"}

MayStart(handler) ==
  handler \in Handlers /\ ops < MaxOps /\ Cardinality(Open) < MaxOpen

Start(c, handler, r) ==
  /\ MayStart(handler)
  /\ req[c].pc = "idle"
  /\ req' = [req EXCEPT ![c] = r]
  /\ ops' = ops + 1
  /\ UNCHANGED <<account, group, member, policy, resource, live, allowed, holder, owed>>

\* A handler that commits and recalculates nothing.
AtOnce(handler) ==
  /\ MayStart(handler)
  /\ ops' = ops + 1
  /\ UNCHANGED req

\* The request ends early; what it had left to do nobody does.
Fail(c) ==
  /\ req' = [req EXCEPT ![c] = NoRequest]
  /\ owed' = owed \cup Due(req[c])
  /\ UNCHANGED <<account, group, member, policy, resource, live, allowed, holder, ops>>

(***************************************************************************)
(* Policies.                                                               *)
(***************************************************************************)

PolicyChange(p, new) ==
  [NoRequest EXCEPT !.pc = "commit", !.kind = "policy", !.id = p,
                    !.old = policy[p], !.new = new]

NewPolicy(p, row) ==
  /\ policy[p].state = "none" /\ row.state = "on" /\ OneSubject(row)
  /\ \A d \in Open : req[d].kind = "policy" => req[d].id # p

\* The API refuses a second active policy that is equal also in its priority and
\* conditions, which nothing here tells apart; a refusal changes nothing.
CreatePolicy(c, p, row) ==
  /\ NewPolicy(p, row)
  /\ Start(c, "create_policy", [PolicyChange(p, row) EXCEPT !.after = TRUE])

UiCreatePolicy(c, p, row) ==
  /\ NewPolicy(p, row)
  /\ Start(c, "create_policy",
       [PolicyChange(p, row) EXCEPT !.after = TRUE, !.registers = TRUE])

\* The API looks for the users of the new subject only.
UpdatePolicy(c, p, row) ==
  /\ policy[p].state = "on" /\ OneSubject(row)
  /\ Start(c, "update_policy",
       [PolicyChange(p, row) EXCEPT !.after = TRUE, !.forgets = TRUE])

\* The UI takes those of the old one and of the new one.
UiUpdatePolicy(c, p, row) ==
  /\ policy[p].state \in Stored /\ OneSubject(row)
  /\ Start(c, "update_policy",
       [PolicyChange(p, row) EXCEPT
          !.todo = Affected(policy[p]), !.after = TRUE, !.registers = TRUE])

Disabled(p) ==
  [PolicyChange(p, [policy[p] EXCEPT !.state = "off"]) EXCEPT
     !.todo = Affected(policy[p])]

\* delete_policy of the API only switches the policy off.
SoftDeletePolicy(c, p) ==
  /\ policy[p].state = "on"
  /\ Start(c, "disable_policy", Disabled(p))

DisablePolicy(c, p) ==
  /\ policy[p].state \in Stored
  /\ Start(c, "disable_policy", [Disabled(p) EXCEPT !.registers = TRUE])

EnablePolicy(c, p) ==
  /\ policy[p].state \in Stored
  /\ Start(c, "enable_policy",
       [PolicyChange(p, [policy[p] EXCEPT !.state = "on"]) EXCEPT
          !.after = TRUE, !.registers = TRUE])

DeletePolicy(c, p) ==
  /\ policy[p].state \in Stored
  /\ Start(c, "delete_policy",
       [PolicyChange(p, [policy[p] EXCEPT !.state = "gone"]) EXCEPT
          !.todo = Affected(policy[p]), !.registers = TRUE])

\* INSERT and DELETE are about the row, UPDATE about the columns changed.
Flushed(old, new, db) ==
  IF old.state = "none" \/ new.state = "gone" THEN new
  ELSE [f \in DOMAIN db |-> IF new[f] # old[f] THEN new[f] ELSE db[f]]

\* An UPDATE that meets no row is an error.
RowLost(r, db) == db.state = "gone" /\ r.new.state # "gone" /\ r.new # r.old

ForeignKeysHold(row) ==
  row.state \in Stored =>
    /\ resource[row.res].state \in Stored
    /\ row.user # NoId => account[row.user] = "on"
    /\ row.group # NoId => group[row.group] \in Stored

PolicyHolds(r) ==
  /\ ~RowLost(r, policy[r.id])
  /\ ForeignKeysHold(Flushed(r.old, r.new, policy[r.id]))

CommitPolicy(c) ==
  LET r == req[c]
      row == Flushed(r.old, r.new, policy[r.id])
  IN
  /\ r.pc = "commit" /\ r.kind = "policy"
  /\ PolicyHolds(r)
  /\ policy' = [policy EXCEPT ![r.id] = row]
  /\ req' = [req EXCEPT
       ![c].pc = IF r.after THEN "affect" ELSE "take",
       ![c].new = IF r.old.state = r.new.state THEN row ELSE r.new]
  /\ owed' = IF r.forgets THEN owed \cup (Affected(r.old) \ Affected(row)) ELSE owed
  /\ UNCHANGED <<account, group, member, resource, live, allowed, holder, ops>>

(***************************************************************************)
(* Resources.                                                              *)
(***************************************************************************)

ResourceChange(r, new) ==
  [NoRequest EXCEPT !.pc = "commit", !.kind = "resource", !.id = r,
                    !.old = resource[r], !.new = new, !.after = TRUE]

CreateResource(c, r, net) ==
  /\ resource[r].state = "none"
  /\ \A d \in Open : req[d].kind = "resource" => req[d].id # r
  /\ Start(c, "create_resource", ResourceChange(r, [state |-> "on", net |-> net]))

UpdateResource(c, r, net) ==
  /\ resource[r].state = "on"
  /\ Start(c, "update_resource", ResourceChange(r, [resource[r] EXCEPT !.net = net]))

SoftDeleteResource(c, r) ==
  /\ resource[r].state = "on"
  /\ Start(c, "delete_resource", ResourceChange(r, [resource[r] EXCEPT !.state = "off"]))

EnableResource(c, r) ==
  /\ resource[r].state = "off"
  /\ Start(c, "enable_resource", ResourceChange(r, [resource[r] EXCEPT !.state = "on"]))

Used(r) == \E p \in Policies : policy[p].state \in Stored /\ policy[p].res = r

PermanentlyDeleteResource(r) ==
  /\ AtOnce("permanently_delete_resource")
  /\ resource[r].state = "off"
  /\ ~Used(r)
  /\ resource' = [resource EXCEPT ![r].state = "gone"]
  /\ UNCHANGED <<account, group, member, policy, live, allowed, holder, owed>>

CommitResource(c) ==
  LET r == req[c]
      row == Flushed(r.old, r.new, resource[r.id])
  IN
  /\ r.pc = "commit" /\ r.kind = "resource"
  /\ ~RowLost(r, resource[r.id])
  /\ resource' = [resource EXCEPT ![r.id] = row]
  /\ req' = [req EXCEPT ![c].pc = "affect", ![c].new = row]
  /\ UNCHANGED <<account, group, member, policy, live, allowed, holder, owed, ops>>

(***************************************************************************)
(* Groups and their members.  None of these recalculates a peer.           *)
(***************************************************************************)

CreateGroup(g) ==
  /\ AtOnce("create_group")
  /\ group[g] = "none"
  /\ group' = [group EXCEPT ![g] = "on"]
  /\ UNCHANGED <<account, member, policy, resource, live, allowed, holder, owed>>

UiCreateGroup(g, S) ==
  /\ AtOnce("create_group")
  /\ group[g] = "none"
  /\ group' = [group EXCEPT ![g] = "on"]
  /\ member' = member \cup {<<u, g>> : u \in {u \in S : account[u] = "on"}}
  /\ UNCHANGED <<account, policy, resource, live, allowed, holder, owed>>

Members(g) == {u \in Users : <<u, g>> \in member}

\* The edit form sends the whole list of members, and whether g is active.
EditGroup(g, S, state) ==
  LET new == {u \in S : account[u] = "on"} IN
  /\ AtOnce("edit_group")
  /\ group[g] \in Stored
  /\ group' = [group EXCEPT ![g] = state]
  /\ member' = {m \in member : m[2] # g} \cup {<<u, g>> : u \in new}
  /\ owed' = owed \cup (Members(g) \ new) \cup (new \ Members(g))
  /\ UNCHANGED <<account, policy, resource, live, allowed, holder>>

\* is_active of a group is stored and shown; no calculation reads it.
EnableGroup(g) ==
  /\ AtOnce("toggle_group")
  /\ group[g] \in Stored
  /\ group' = [group EXCEPT ![g] = "on"]
  /\ UNCHANGED <<account, member, policy, resource, live, allowed, holder, owed>>

DisableGroup(g) ==
  /\ AtOnce("toggle_group")
  /\ group[g] \in Stored
  /\ group' = [group EXCEPT ![g] = "off"]
  /\ UNCHANGED <<account, member, policy, resource, live, allowed, holder, owed>>

AddMember(u, g) ==
  /\ AtOnce("add_member")
  /\ account[u] = "on" /\ group[g] \in Stored
  /\ member' = member \cup {<<u, g>>}
  /\ owed' = owed \cup ({u} \ Members(g))
  /\ UNCHANGED <<account, group, policy, resource, live, allowed, holder>>

RemoveMember(u, g) ==
  /\ AtOnce("remove_member")
  /\ account[u] = "on" /\ group[g] \in Stored
  /\ member' = member \ {<<u, g>>}
  /\ owed' = owed \cup ({u} \cap Members(g))
  /\ UNCHANGED <<account, group, policy, resource, live, allowed, holder>>

\* The rows of policies outlive the subject that is deleted.
Orphaned(row, field, id) ==
  IF row[field] = id THEN [row EXCEPT ![field] = NoId] ELSE row

GroupGone(g) ==
  /\ AtOnce("delete_group")
  /\ group[g] \in Stored
  /\ group' = [group EXCEPT ![g] = "gone"]
  /\ member' = {m \in member : m[2] # g}
  /\ policy' = [p \in Policies |-> Orphaned(policy[p], "group", g)]
  /\ UNCHANGED <<account, resource, live, allowed, holder>>

DeleteGroup(g) ==
  /\ GroupGone(g)
  /\ owed' = owed \cup Members(g)

\* The UI refuses while a policy names the group.
UiDeleteGroup(g) ==
  /\ \A p \in Policies : policy[p].state \in Stored => policy[p].group # g
  /\ GroupGone(g)
  /\ UNCHANGED owed

(***************************************************************************)
(* Users.                                                                  *)
(***************************************************************************)

\* users.py and the form of the UI alike; is_active is left out, no
\* calculation reads it.
CreateUser(u) ==
  /\ AtOnce("create_user")
  /\ account[u] = "none"
  /\ account' = [account EXCEPT ![u] = "on"]
  /\ UNCHANGED <<group, member, policy, resource, live, allowed, holder, owed>>

\* The edit form assigns the whole list of groups.
EditUser(c, u, gs) ==
  /\ account[u] = "on"
  /\ Start(c, "edit_user",
       [NoRequest EXCEPT !.pc = "commit", !.kind = "user", !.id = u,
                         !.old = GroupsOf(u),
                         !.new = {g \in gs : group[g] \in Stored}, !.todo = {u}])

\* Rows of user_group to insert must be new, rows to delete must be there.
MembershipHolds(r) ==
  /\ account[r.id] = "on"
  /\ \A g \in r.new \ r.old : group[g] \in Stored /\ <<r.id, g>> \notin member
  /\ \A g \in r.old \ r.new : <<r.id, g>> \in member

CommitUser(c) ==
  LET r == req[c] IN
  /\ r.pc = "commit" /\ r.kind = "user"
  /\ MembershipHolds(r)
  /\ member' = (member \ {<<r.id, g>> : g \in r.old \ r.new})
                 \cup {<<r.id, g>> : g \in r.new \ r.old}
  /\ req' = [req EXCEPT ![c].pc = "take"]
  /\ UNCHANGED <<account, group, policy, resource, live, allowed, holder, owed, ops>>

CommitHolds(r) ==
  CASE r.kind = "policy" -> PolicyHolds(r)
    [] r.kind = "resource" -> ~RowLost(r, resource[r.id])
    [] r.kind = "user" -> MembershipHolds(r)

\* The database refuses the commit.
CommitFails(c) ==
  /\ req[c].pc = "commit"
  /\ ~CommitHolds(req[c])
  /\ Fail(c)

UserGone(u) ==
  /\ AtOnce("delete_user")
  /\ account[u] = "on"
  /\ account' = [account EXCEPT ![u] = "gone"]
  /\ member' = {m \in member : m[1] # u}
  /\ policy' = [p \in Policies |-> Orphaned(policy[p], "user", u)]
  /\ UNCHANGED <<group, resource, live, allowed, owed>>

\* Any row of a peer makes the deletion an error of the database.
DeleteUser(u) ==
  /\ \A a \in Pool : holder[a] # u
  /\ UserGone(u)
  /\ UNCHANGED holder

\* mutant: the rows of user_group stay behind
UiDeleteUserOnly(u) ==
  /\ AtOnce("delete_user")
  /\ account[u] = "on" /\ u \notin live /\ \A p \in Policies : policy[p].user # u
  /\ account' = [account EXCEPT ![u] = "gone"]
  /\ holder' = [a \in Pool |-> IF holder[a] = u THEN NoId ELSE holder[a]]
  /\ UNCHANGED <<group, member, policy, resource, live, allowed, owed>>

\* The UI refuses while a policy names the user or a peer is not removed, and
\* deletes the rows of removed peers first.
UiDeleteUser(u) ==
  /\ u \notin live
  /\ \A p \in Policies : policy[p].state \in Stored => policy[p].user # u
  /\ UserGone(u)
  /\ holder' = [a \in Pool |-> IF holder[a] = u THEN NoId ELSE holder[a]]

(***************************************************************************)
(* Peers.                                                                  *)
(***************************************************************************)

\* Removal and revocation, which PeerLifecycle models.
DropPeer(u) ==
  /\ AtOnce("drop_peer")
  /\ u \in live
  /\ live' = live \ {u}
  /\ UNCHANGED <<account, group, member, policy, resource, allowed, holder, owed>>

\* Registration of a peer, or recalculation of one by itself.
Enroll(c, u) ==
  /\ account[u] = "on"
  /\ Start(c, "enroll",
       [NoRequest EXCEPT !.pc = "take", !.todo = {u}, !.registers = TRUE])

(***************************************************************************)
(* The loop over the affected users.                                       *)
(***************************************************************************)

Affect(c) ==
  /\ req[c].pc = "affect"
  /\ req' = [req EXCEPT ![c].todo = @ \cup AffectedNow(req[c]), ![c].pc = "take"]
  /\ UNCHANGED <<account, group, member, policy, resource, live, allowed, holder, owed, ops>>

\* sorted(user_ids)
IsNext(c, u) == u \in req[c].todo /\ \A v \in req[c].todo : u <= v

Take(c, u) ==
  /\ req[c].pc = "take"
  /\ IsNext(c, u)
  /\ u \in live \/ req[c].registers
  /\ req' = [req EXCEPT ![c].pc = IF u \in live THEN "compute" ELSE "register",
                        ![c].user = u, ![c].loaded = allowed[u]]
  /\ UNCHANGED <<account, group, member, policy, resource, live, allowed, holder, owed, ops>>

\* mutant: a user without a peer is not taken off the list
PassOverAgain(c, u) ==
  /\ req[c].pc = "take"
  /\ IsNext(c, u)
  /\ u \notin live /\ ~req[c].registers
  /\ UNCHANGED vars

\* Nothing to recalculate, and the API and the resources register nobody.
PassOver(c, u) ==
  /\ req[c].pc = "take"
  /\ IsNext(c, u)
  /\ u \notin live /\ ~req[c].registers
  /\ req' = [req EXCEPT ![c].todo = @ \ {u}]
  /\ UNCHANGED <<account, group, member, policy, resource, live, allowed, holder, owed, ops>>

Compute(c) ==
  /\ req[c].pc = "compute"
  /\ req' = [req EXCEPT ![c].pc = "store", ![c].routes = Seen(req[c], req[c].user)]
  /\ UNCHANGED <<account, group, member, policy, resource, live, allowed, holder, owed, ops>>

UserDone(r) == [r EXCEPT !.pc = "take", !.todo = @ \ {r.user}]

\* The column is written when it differs from what was loaded; a peer removed
\* meanwhile may come back with it, as PeerLifecycle shows.
Store(c) ==
  LET r == req[c] IN
  /\ r.pc = "store"
  /\ allowed' = IF r.routes # r.loaded THEN [allowed EXCEPT ![r.user] = r.routes]
                ELSE allowed
  /\ live' \in {live, live \cup {r.user}}
  /\ req' = [req EXCEPT ![c] = UserDone(r)]
  /\ owed' = owed \ {r.user}
  /\ UNCHANGED <<account, group, member, policy, resource, holder, ops>>

\* register_peer_for_user: 404, 403 or an address and a new row.
Register(c) ==
  LET r == req[c] IN
  /\ r.pc = "register"
  /\ account[r.user] = "on"
  /\ Seen(r, r.user) # {}
  /\ req' = [req EXCEPT ![c].pc = "insert", ![c].routes = Seen(r, r.user)]
  /\ UNCHANGED <<account, group, member, policy, resource, live, allowed, holder, owed, ops>>

\* mutant: any error of the registration is passed over, not 403 alone
RegistrationSkipped(c) ==
  LET r == req[c] IN
  /\ \/ r.pc = "register" /\ Seen(r, r.user) = {}
     \/ r.pc = "insert" /\ \A a \in Pool : holder[a] # NoId
  /\ req' = [req EXCEPT ![c] = [r EXCEPT !.pc = "take", !.todo = @ \ {r.user}]]
  /\ UNCHANGED <<account, group, member, policy, resource, live, allowed, holder, owed, ops>>

NothingToRegister(c) ==
  LET r == req[c] IN
  /\ r.pc = "register"
  /\ account[r.user] = "on"
  /\ Seen(r, r.user) = {}
  /\ req' = [req EXCEPT ![c] = UserDone(r)]
  /\ UNCHANGED <<account, group, member, policy, resource, live, allowed, holder, owed, ops>>

\* The lowest address that no row has, removed rows included.
FirstFree(a) == holder[a] = NoId /\ \A b \in Pool : holder[b] = NoId => a <= b

Insert(c, a) ==
  LET r == req[c] IN
  /\ r.pc = "insert"
  /\ FirstFree(a)
  /\ account[r.user] = "on"
  /\ holder' = [holder EXCEPT ![a] = r.user]
  /\ live' = live \cup {r.user}
  /\ allowed' = [allowed EXCEPT ![r.user] = r.routes]
  /\ req' = [req EXCEPT ![c] = UserDone(r)]
  /\ owed' = owed \ {r.user}
  /\ UNCHANGED <<account, group, member, policy, resource, ops>>

\* The pool is used up or the user is gone: any status but 403 ends the loop.
RegistrationFails(c) ==
  LET r == req[c] IN
  /\ \/ r.pc \in {"register", "insert"} /\ account[r.user] # "on"
     \/ r.pc = "insert" /\ \A a \in Pool : holder[a] # NoId
  /\ Fail(c)

Finish(c) ==
  /\ req[c].pc = "take"
  /\ req[c].todo = {}
  /\ req' = [req EXCEPT ![c] = NoRequest]
  /\ UNCHANGED <<account, group, member, policy, resource, live, allowed, holder, owed, ops>>

Crash(c) ==
  /\ MayCrash
  /\ req[c].pc # "idle"
  /\ Fail(c)

(***************************************************************************)
(* The program.                                                            *)
(***************************************************************************)

Init ==
  \E d \in Databases :
    /\ account = d.account /\ group = d.group /\ member = d.member
    /\ policy = d.policy /\ resource = d.resource
    /\ live = d.live /\ holder = d.holder
    /\ allowed = [u \in Users |-> Entitled(u)]
    /\ req = [c \in Clients |-> NoRequest]
    /\ owed = {} /\ ops = 0

Step(c) ==
  \/ CommitPolicy(c) \/ CommitResource(c) \/ CommitUser(c)
  \/ CommitFails(c)
  \/ Affect(c)
  \/ \E u \in Users : Take(c, u) \/ PassOver(c, u)
  \/ Compute(c) \/ Store(c)
  \/ Register(c) \/ NothingToRegister(c) \/ RegistrationFails(c)
  \/ \E a \in Pool : Insert(c, a)
  \/ Finish(c)

PolicyHandler(c) ==
  \E p \in Policies :
    \/ \E row \in PolicyPayloads :
         LET edited == [row EXCEPT !.state = policy[p].state] IN
         \/ CreatePolicy(c, p, row) \/ UiCreatePolicy(c, p, row)
         \/ UpdatePolicy(c, p, edited) \/ UiUpdatePolicy(c, p, edited)
    \/ SoftDeletePolicy(c, p) \/ DisablePolicy(c, p)
    \/ EnablePolicy(c, p)
    \/ DeletePolicy(c, p)

ResourceHandler(c) ==
  \E r \in Resources :
    \/ \E net \in Nets : CreateResource(c, r, net) \/ UpdateResource(c, r, net)
    \/ SoftDeleteResource(c, r)
    \/ EnableResource(c, r)
    \/ PermanentlyDeleteResource(r)

GroupHandler ==
  \E g \in Groups :
    \/ CreateGroup(g)
    \/ \E S \in SUBSET Users :
         UiCreateGroup(g, S) \/ \E state \in Stored : EditGroup(g, S, state)
    \/ EnableGroup(g) \/ DisableGroup(g)
    \/ \E u \in Users : AddMember(u, g) \/ RemoveMember(u, g)
    \/ DeleteGroup(g) \/ UiDeleteGroup(g)

UserHandler(c) ==
  \E u \in Users :
    \/ CreateUser(u)
    \/ \E gs \in SUBSET Groups : EditUser(c, u, gs)
    \/ DeleteUser(u) \/ UiDeleteUser(u)
    \/ DropPeer(u)
    \/ Enroll(c, u)

Next ==
  \/ \E c \in Clients :
       \/ Step(c)
       \/ PolicyHandler(c) \/ ResourceHandler(c) \/ UserHandler(c)
       \/ Crash(c)
  \/ GroupHandler

\* The server goes on with the requests it has accepted.
Fairness == \A c \in Clients : WF_vars(Step(c))

Spec == Init /\ [][Next]_vars /\ Fairness

(***************************************************************************)
(* Properties.                                                             *)
(***************************************************************************)

RequestOk(r) ==
  /\ r.pc \in Pc
  /\ r.todo \subseteq Users
  /\ r.kind = "policy" => r.id \in Policies /\ r.old \in PolicyRow /\ r.new \in PolicyRow
  /\ r.kind = "resource" =>
       r.id \in Resources /\ r.old \in ResourceRow /\ r.new \in ResourceRow
  /\ r.kind = "user" => r.id \in Users /\ r.old \subseteq Groups /\ r.new \subseteq Groups
  /\ r.pc \in {"compute", "store", "register", "insert"} => r.user \in Users
  /\ r.routes \subseteq Address

\* The types of the variables; a membership joins a user and a group that exist.
TypeOK ==
  /\ account \in [Users -> {"none", "on", "gone"}]
  /\ group \in [Groups -> RowState]
  /\ member \subseteq Users \X Groups
  /\ policy \in [Policies -> PolicyRow]
  /\ resource \in [Resources -> ResourceRow]
  /\ live \subseteq Users
  /\ allowed \in [Users -> SUBSET Address]
  /\ holder \in [Pool -> Users \cup {NoId}]
  /\ owed \subseteq Users
  /\ \A c \in Clients : RequestOk(req[c])
  /\ \A m \in member : account[m[1]] = "on" /\ group[m[2]] \in Stored

Behind == UNION {Due(req[c]) : c \in Clients}

Contract ==
  INSTANCE AccessContract WITH grant <- [u \in Users |-> Entitled(u)],
                               view <- allowed, behind <- Behind

\* While requests do not overlap, a peer has the routes its owner is entitled to
\* unless a request has yet to come to it or the change was one of those after
\* which no handler recalculates.
InSync == Contract!InSync

\* Every step is one of the contract or changes nothing it can see, and nobody
\* stays behind: recalculate_users_after_policy_change goes through them all.
KeepsContract == Contract!Spec

\* A change of a policy in the UI leaves an affected user with a peer, or
\* without anything to route: the comment in recalculate_users_after_policy_change.
EntitledGetsPeer ==
  [][\A c \in Clients, u \in Users :
       req[c].kind = "policy" /\ req[c].registers /\ u \in Due(req[c]) =>
         \/ u \in Due(req[c])' \cup owed' \cup live'
         \/ Entitled(u)' = {}]_vars

\* A policy has exactly one subject, as the model says and PolicyCreate checks.
PoliciesHaveOneSubject ==
  \A p \in Policies : policy[p].state \in Stored => OneSubject(policy[p])

\* Once no request is open, a peer's stored routes hold no address of a
\* resource that is switched off unless its owner is entitled to it otherwise:
\* soft_delete_resource recalculates the peers.
InactiveIsUnreachable ==
  Open = {} =>
    \A u \in live \ owed, r \in Resources :
      resource[r].state # "on" => allowed[u] \cap resource[r].net \subseteq Entitled(u)

=============================================================================
