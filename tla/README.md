# A TLA+ model of the vpn-ztna control plane

vpn-ztna is a FastAPI service that hands out WireGuard access: it keeps users,
devices (peers), tenants, resources and access policies in Postgres, computes
for each peer the networks it may reach, and pushes keys and addresses to a
WireGuard interface through a second small service, `wg-gateway`. This
directory holds TLA+ models of it, TLC instances and TLAPS proofs. Paths below
are relative to the repository; `app/` stands for `src/api/app/`.

## 1. Inventory

| Component | State it keeps | Operations | Module |
|---|---|---|---|
| Peer service (`app/services/peer_service.py`, `app/models/peer.py`) | table `peers`: owner, public key, private key, address, `provisioning_status`, allowed_ips | register, register for user, recalculate (one / a user's), provision, remove, revoke, regenerate | PeerLifecycle |
| Peer API and UI handlers (`app/api/v1/peers.py`, `app/main.py`) | none of their own | the service calls, retry, enroll, PATCH, debug provision, sync-all, retry-errors | PeerLifecycle |
| Address allocation (`app/services/ip_allocator.py`) | reads `peers.vpn_ip` | first free host of the subnet | PeerLifecycle |
| Provision worker (`app/workers/provision_pending.py`) | the list of ids of a pass | pending pass, pending_revoke pass | PeerLifecycle |
| Gateway client, `wg-gateway` (`app/services/wg_client.py`, `src/wg-gateway/app/main.py`) | peer table of `wg0` | apply, remove, create the interface | PeerLifecycle |
| Host script (`src/scripts/revoke_pending_peers.sh`) | the list it read | remove and UPDATE by id | PeerLifecycle |
| Policy engine (`app/services/policy_engine.py`, `policy_service.py`) | none, pure | resource to network, subtract, aggregate, simulate | PolicyEngine |
| Access explanation (`app/services/access_explain_service.py`, `app/api/ui_policy_explain.py`, `app/api/v1/debug.py`) | none, pure | which policies grant or deny | PolicyEngine |
| Policy, resource and group changes (`app/services/resource_service.py`, `app/api/v1/{policies,resources,groups,users}.py`, `app/api/ui_admin_fragments.py`) | groups, policies, resources, memberships, `peers.allowed_ips` | CRUD, each with or without recalculation | PolicySync |
| Authentication sessions (`app/api/v1/auth.py`, `app/api/deps/auth.py`, `app/core/security.py`, `app/api/ui_auth.py`, `app/api/ui_admin.py`) | table `auth_sessions`, `users.token_version` | login, refresh, logout, revoke one, revoke all, password change, deactivation | AuthSessions |
| Users (`app/api/v1/users.py`, `ui_admin_fragments.py`) | users | create, groups, delete / password, deactivate / peers of a deleted user | PolicySync / AuthSessions / PeerLifecycle |
| Tenants (`app/services/tenant_service.py`) | tenants | create, update, delete | not modelled: no decision reads them |
| Audit log (`app/services/audit_service.py`) | append-only rows | append, list | not modelled: nothing reads it back into a decision |
| Configuration export, templates, deployment files, CLI | none | formatting, deployment, one-shot commands | not modelled |

How they interact. A handler opens one database session (`app/db/session.py`),
loads rows, checks a status, perhaps awaits an HTTP call to `wg-gateway`, and
commits. The worker and the host script do the same in processes of their own.
They share two things only: the tables, and `wg0`. There is no row lock, no
version column and no compare-and-set anywhere: READ COMMITTED and SQLAlchemy's
column-wise UPDATE by primary key decide what survives when two of its sessions meet. (A *session* is a database session in
this section and for peers, and a login session, a row of `auth_sessions`, where
AuthSessions is concerned.)

What is hard:

* concurrency: every `await` between load and commit is a place where another
  session, the worker or the script may change the row;
* partial failure: `wg0` and the table change in different steps; a call can be
  refused, executed with its answer lost, or executed after the caller gave up;
* crashes: a request or the worker dies between the call and the commit; the
  gateway's host reboots and `wg0` comes back without peers;
* status reuse: `pending` means "never applied" to `remove_peer_by_id` and
  "apply again" to a recalculation; `error` means a failed provisioning or a
  failed revocation;
* sessions and tokens: two refreshes of one token at once, a revocation racing
  a login;
* policies: network subtraction at the edges, and changes that recalculate too
  few peers or write results out of order.

What makes each component correct:

* peers: keys and addresses are unique; a provisioned row is what `wg0`
  forwards; a removed row has no route; a revocation is never forgotten; an
  address only ever goes to a key of the row that owns it; the stored key pair
  matches; everything queued is handled;
* policy engine: the networks computed are the addresses some applicable allow
  covers and no applicable deny does; explain and calculate agree;
* policy changes: once a change and its recalculations end, the `allowed_ips` of
  each affected peer are those of the policies in force;
* login sessions: a refresh token that was exchanged is dead for every later refresh;
  after a password change or revoke-all no token of an earlier login works; a revoked session stays revoked;
  a spent refresh token, presented again, ends its session;
* accounts: a deleted or deactivated user opens no session; a deleted user has no
  peer and no membership.

## 2. Modules

| Module | Role |
|---|---|
| `PeerLifecycle` | the specification: constants with named assumptions, state, one action per handler step, properties |
| `MCPeerLifecycle` | instances for TLC: owners, sets of operations, symmetry |
| `PeerLifecycleProofs` | proofs: types, uniqueness of keys and addresses, who may undo a removal |
| `PeerAddressProofs` | proofs: no peer receives the traffic of another one |
| `PeerRemovalProofs` | proofs: a removed row has no route, while no operation queues a row again |
| `PeerSerialProofs` | proofs: what holds while the sessions on a row do not overlap |
| `AuthSessions` | the specification of login sessions and `token_version` |
| `MCAuthSessions` | instances of it for TLC |
| `AuthSessionsProofs` | proofs: types, finality of revocation, completeness of cuts, spent tokens |
| `PolicyEngine` | the calculation of a user's networks as a state machine; the explanations, the simulation and the aggregation as operators |
| `MCPolicyEngine` | the tables TLC goes through |
| `PolicyEngineProofs` | proofs: types, that the networks computed are exact, and that explanation, simulation and aggregation agree with them, for addresses of any width |
| `AccessContract` | the abstract specification: what a peer's routes have to do with its owner's rights |
| `PolicySync` | the specification of the handlers that change users, groups, resources and policies; implements `AccessContract` |
| `MCPolicySync` | an instance of it for TLC, with its starting databases |
| `PolicySyncProofs` | proofs: types and the shape of requests, with overlap and crashes |
| `PolicyRefinementProofs` | proofs: peers stay in sync, every step is one of the contract, entitled users get peers |

How they meet. Authorisation is a guard in front of the other operations: PeerLifecycle
and PolicySync take every request as authorised, and AuthSessions says when one is.
PolicySync and PeerLifecycle share the rows of `peers`. PolicySync keeps the columns
PeerLifecycle leaves out (`allowed_ips`), knows of the life of a peer only that it comes
and goes (`Insert`, `DropPeer`), and lets a stale `Store` bring a removed peer back because
PeerLifecycle shows that the flush can (run `peer_race_revives`). PolicyEngine is one
calculation inside a step of PolicySync: `RoutesAreExact` is what lets PolicySync treat
networks as sets of addresses and write a calculation as a difference of two unions.
An account is deleted in three tables at once: its peers in PeerLifecycle
(`DeleteUser`), its memberships, policies and the refusals in PolicySync
(`UiDeleteUser`), and its sessions, whose tokens then name an account that is not there.

### PeerLifecycle: state and actions

`row[p]` is the row of table `peers` with primary key `p`, reduced to status,
public key, private key and address. `"absent"` is an id not given out yet,
`"deleted"` a row that was there. A key pair is one value: the public key and the
private half that belongs to it are equal, so `priv = key` says that they match.
`gw[k]` is the address `wg0` forwards to key `k`. `req[s]` is what process `s` (a
request, the worker or the script) remembers between two steps, `req[s].obj` being
the rows as it loaded them. `worker` is the list a pass of the worker still has to
go through. `wire` holds calls whose caller has timed out and that `wg-gateway` is
still to execute. `held` is a history of the keys each row has been committed
with, which nothing but a property and `FreshKeys` reads.

| Code | Actions |
|---|---|
| `get_peer_or_404` and the status checks after it | `Load`, `Guard`, `Can...` |
| `register_peer`: existing key / `allocate_vpn_ip` / INSERT / IntegrityError | `RegisterKnown` / `RegisterNew`, `AllocateVpnIp` / `Insert` / `InsertFails` |
| `register_peer_for_user`: second commit with the private key | `Create`, ..., `StorePrivateKey` |
| `enroll_peer_for_user`: create, recalculate, provision | `Enroll`, ..., `Continuation`, `Reload` |
| `recalculate_peer_by_id`, `recalculate_peers_for_user` | `Recalculate`, `RecalculateUser`, `Commit` |
| `provision_peer_by_id` | `Provision`, then a gateway outcome, then `Commit` |
| `revoke_peer_by_id` | `WorkerTake`, gateway outcome, `Commit` |
| `remove_peer_by_id`, retry, `regenerate_peer_keys`, PATCH | `Remove`, `Retry`, `Regenerate`, `Patch`, each with `Commit` |
| `debug_provision_peer_endpoint` | `DebugProvision` and a gateway outcome; nothing is written |
| UI deletion of a user | `DeleteUser`, `CommitDeleteUser` |
| `process_pending_once`, `process_pending_revoke_once`, `run_forever` | `WorkerList`, `WorkerTake` |
| `revoke_pending_peers.sh` | `AgentList`, gateway outcome, `AgentUpdate` |
| `wg set ... allowed-ips`, `wg set ... remove` | `Execute` in `GatewayOk`, `GatewayRefuses`, `AnswerLost`, `CallDelayed`, `DelayedCall` |
| a process killed, the host rebooted | `Crash`, `Reboot` |

The load, the gateway call and the commit of a handler are separate actions,
because other sessions run between them. The flush is SQLAlchemy's: `Flush` writes
the columns in which the new object differs from the one loaded and leaves the
others as they are *now*. An UPDATE of a row that was deleted meanwhile
(StaleDataError) and one that meets a unique constraint fail as a whole:
`CommitFails`.

`sync-all`, `retry-errors` and the retry of the UI load ids only and open one session
per id, so each is a number of `Provision` requests; removing or revoking in the
UI and in the API is the same `remove_peer_by_id`; enrolling from `/my` is `Enroll`.

Abstractions: `allowed_ips` (PolicySync keeps it), the wording of
`provisioning_error`, `revoked_at` and the audit log are left out, since no guard
reads them. WireGuard is modelled from what the commands of `wg-gateway` do to
its table; PostgreSQL and SQLAlchemy are modelled from how the code uses them.

`Overlap` says whether two sessions may work on the same row at once. The code
does nothing to prevent it. `Overlap = FALSE` is an assumption on the environment
(one administrator, and a worker that does not get in the way), under which the
stronger properties are claimed; the runs and the proof that need it say so. Even
then, sessions on different rows run side by side.

### AuthSessions: state and actions

`account[u]` is the row of `users`: `token_version` (`ver`) and `is_active`. `cuts`
is a history beside it: how many password changes and revoke-alls have been
committed. `sess[x]` is the row of `auth_sessions` with uuid `x`: account, `refresh_jti`,
`is_revoked`, whether `expires_at` has passed, and as a history, `since`, the `cuts` its login
had read. `tokens` holds every token handed out, and any of them may be presented at any
time, again and again. One value stands for an access and a refresh token
issued together; the UI login gives no refresh token (`NoJti`). `redeemed` counts
successful refreshes per jti. `req[s]` is the request `s`: the account columns as it
loaded them, the token, and the rows its bulk UPDATE has found.

| Code | Actions |
|---|---|
| `login`, `ui_login_submit` | `Login`, then `IssueTokens` |
| `get_current_user`, `get_current_user_from_cookie` | `Present` (the account), `LoadSession` (the session, expiry) |
| `refresh_access_token` | `Refresh`, `LoadSession` with reuse detection, then `Rotate` or `RevokeSession` |
| `logout`, `ui_logout` | `Logout`, `RevokeSession` |
| `revoke_single_session` | `RevokeSingle`, `LoadSession`, `LoadTarget`, `RevokeSession` |
| `revoke_other_sessions`, `revoke_all_sessions` | `RevokeOthers` / `RevokeAll`, `LoadSession`, `BulkRevoke`, `Commit` |
| UI password change, UI deactivation | `ChangePassword` / `Toggle`, `FlushAccount`, `BulkRevoke`, `Commit` |
| `PUT /users/{id}` with a password | `PutPassword`, `Commit` |
| `is_active` over PUT or the edit form, UI activation | `PutActive` / `Toggle`, `Commit` |
| `expires_at` passes; a request dies | `Expire`; `Crash` |

The flush that locks the row of `users` is an action where it comes before the bulk
UPDATE (autoflush), because a second password change waits there with the version it has
already read. Revoke-all locks in the opposite order; the deadlock PostgreSQL then
resolves by ending one of the two is a `Crash`. A rotated row that a bulk UPDATE has
locked is written in the other order in the database; the two orders end in the same
row, so the model does not wait.

Left out: the expiry of the JWTs, which only makes a token useless earlier;
`last_seen_at`, ip and user agent; which accounts are administrators; `reset_password.py`,
a command run by hand, which writes a password and revokes nothing. An account that is
deleted takes its sessions with it, and none of its tokens passes `Present` again.

`Overlap` names the pairs of requests that may run at once although the code has no
lock for them: `"refresh"` of one session, and writers of one token `"version"`. In the
code both may. Runs and proofs that need turns leave the name out.

### PolicyEngine: state and actions

`Me` is the user asked about, `policies` and `resources` the two tables, constant after
`Init`. The other variables are the locals of `calculate_allowed_ips_for_user` and
`subtract_many`, sets because the order in which they go through their lists does not
matter to the result; TLC and the proof take every order.

| Code | Definitions |
|---|---|
| `ipaddress`: masking, `subnet_of`, `overlaps`, `address_exclude` | `Masked`, `SubnetOf`, `Overlaps`, `AddressExclude` |
| `resource_to_network`, `subtract_network` | `ResourceToNetwork`, `SubtractNetwork` |
| `calculate_allowed_ips_for_user`: query and loop / next allow / `extend` / return | `Collect` / `Choose` / `Extend` / `Finish` |
| `subtract_many`: one round of the outer loop | `Subtract` |
| `explain_user_access`, the access check | `PolicyApplies`, `MatchedPolicies`, `Decision`, `UserAccess`, `Allowed` |
| the matrix of `debug.py` | `DebugDecision` |
| `_simulate_policies_for_peer`, `resource_to_cidr` | `Text`, `ResourceToCidr`, `InSimulation`, `SimulationStep`, `Simulated`, `FullTunnel` |
| `aggregate_cidrs` | `MergeSiblings`, `WithoutNested`, `AggregateCidrs` |

`ipaddress` is modelled bit by bit, because what it does with host bits and with halves
is what the properties are about; the simulation compares texts, so a text is an address,
a length and whether a `/len` is written at all. IPv6 is left out.

### PolicySync: state and actions

`account`, `group`, `member`, `policy` and `resource` are the tables. A user has one
peer, which stands for all of the user's peers in service; `live` says that it is there,
`allowed[u]` is its `allowed_ips` without its own `/32`, `holder[a]` the user
whose row has address `a` of the pool. `req[c]` is a request: the object as its handler loaded
it (`old`), as the form changes it (`new`), and the loop over the users affected.
`owed` is a history: the users a change has touched and no handler will recalculate for
it. `ops` counts requests.

| Code | Actions |
|---|---|
| `create_policy`, `update_policy`, `delete_policy` of the API | `CreatePolicy`, `UpdatePolicy`, `SoftDeletePolicy` |
| create, edit, disable, enable, delete a policy in the UI | `UiCreatePolicy`, `UiUpdatePolicy`, `DisablePolicy`, `EnablePolicy`, `DeletePolicy` |
| `create_resource`, `update_resource`, `soft_delete_resource`, enable | `CreateResource`, `UpdateResource`, `SoftDeleteResource`, `EnableResource` |
| permanent deletion of a resource | `PermanentlyDeleteResource` |
| groups and members, API and UI | `CreateGroup`, `UiCreateGroup`, `EditGroup`, `EnableGroup`, `DisableGroup`, `AddMember`, `RemoveMember`, `DeleteGroup`, `UiDeleteGroup` |
| users, API and UI | `CreateUser`, `EditUser`, `DeleteUser`, `UiDeleteUser` |
| the commit of a handler | `CommitPolicy`, `CommitResource`, `CommitUser`, or `CommitFails` |
| the query for the affected users, after the commit | `Affect` |
| `recalculate_peers_for_user`: load, calculate, write | `Take`, `Compute`, `Store`; `PassOver` without a peer |
| `register_peer_for_user` from `recalculate_users_after_policy_change` | `Register`, `Insert`, `NothingToRegister` (its 403), `RegistrationFails` (any other status) |
| the loop ends; the process dies | `Finish`; `Crash` |
| removal; registration or recalculation of one peer | `DropPeer`; `Enroll` |

`Flushed` is SQLAlchemy's column-wise UPDATE as in PeerLifecycle, `ForeignKeysHold` and
`MembershipHolds` what the database refuses. `Seen` is what a request calculates: the
objects its own session has loaded are not read again, the others are read fresh.

Simplifications. The statements of one calculation are one step. Whether an account is
active is left out, since no calculation reads it. A resource that the policy object of a
handler keeps loaded is read afresh. Ids are never used a second time. What the schema
refuses (a policy with both subjects or none) is not among the inputs.

`AccessContract` knows neither tables nor requests: a user's grant changes, whoever has a
peer and is touched falls `behind` or is `owed`, and a peer that is refreshed gets what is
granted at that moment. The refinement maps `grant` to `Entitled`, what the tables give
each user now, `view` to `allowed`, and `behind` to `Behind`, the users some request still
has on its list or will find by its query. `Served` adds that nobody stays behind.

## 3. Properties and runs

Each run is `tlc -config <run>.cfg <module>`, with MCPeerLifecycle for the `peer_` runs,
MCAuthSessions for the `auth_` runs, MCPolicyEngine for `policy_engine` and
MCPolicySync for the other `policy_` runs.

| Run | Shows |
|---|---|
| `peer_serial` | `TypeOK`, `ProvisionedIsRouted`, `KeyPairMatches`, `RevocationIsKept` with no overlap on a row, every operation but PATCH and the script, lost answers, refusals and one crash |
| `peer_core` | `RemovedIsUnrouted` for the operations that never take a row back to `pending`, with the script, account deletion and a reboot; `UniqueIdentity` with two registrations that overlap statement by statement, a pool that runs out, and addresses that an account deletion frees |
| `peer_overlap` | `AddressBelongsToHolder` and `OnlyStaleSessionsRevive` with worker and request overlapping on a row, PATCH and one late gateway call |
| `peer_liveness` | `PendingIsHandled`, `RevokeIsHandled` under the worker's fairness, with overlap and a crash |
| `auth_revocation` | `TypeOK`, `RevokedIsFinal`, `CutIsComplete` with every operation, requests that overlap and die half way; only writers of one version take turns |
| `auth_rotation` | `SpentTokenIsRefused`, `ReuseRevokesSession` while refreshes of one session overlap, with one token and with different ones |
| `policy_engine` | `TypeOK`, `RoutesAreExact`, `DecisionsMatchRoutes`, `SimulationHidesNothing`, `AggregateIsExact` for every table of the instance |
| `policy_serial` | `TypeOK`, `InSync`, `KeepsContract` (the refinement with its liveness) and `EntitledGetsPeer` with every handler, one request at a time, any of which may die |

Four more runs end in a violation. Each is a disagreement of the code with what
a comment, a test or a page of the repository says:

* `peer_removed_routed`: a provisioned row that was recalculated is `pending`; to
  remove it then marks it removed without a gateway call
  (`peer_service.py:385`), although `wg0` still has its key.
* `peer_race_revives`: a recalculation that loaded the row before a removal
  writes `pending` over `removed`, in spite of the test at `peer_service.py:78`.
* `policy_overlap` (`InactiveIsUnreachable`): two requests about one resource overlap.
  Each recalculates with the resource as it loaded or refreshed it, so the one that began
  before the resource was switched off may be the last to write `allowed_ips`, and a peer
  keeps a route to a resource that is off.
* `policy_orphan` (`PoliciesHaveOneSubject`): deleting a group over the API sets
  `group_id` of its policies to NULL, so an active policy is left with no subject. The
  engine then ignores it; the explanation and the simulation apply it to everyone.

These also bound the claims above: `RemovedIsUnrouted` excludes the operations that
queue a row again; `ProvisionedIsRouted`, `KeyPairMatches` and
`RevocationIsKept` exclude overlap and PATCH, and `InSync` excludes overlap, because with
them they are false. What overlap leaves of the removal of a peer is
`OnlyStaleSessionsRevive`: only a session that had loaded the row before the removal, or
PATCH, takes it back. What it leaves of the exchange of a refresh token is
`SpentTokenIsRefused` with `ReuseRevokesSession`: two refreshes that had both read the
session exchange one token twice, but none that reads it later does, and of the two new
tokens only the one committed last leads on; the other ends the session.

### Disagreements without a run of their own

These need a changed constant or two:

* PATCH replaces the public key and leaves the private key that configurations and
  QR codes are made of (`app/models/peer.py:26`): `KeyPairMatches` with
  `Ops = {"create", "patch", "remove"}`, `Peers = {1}`, `Keys = {k1, k2}`, `Hosts = {1, 2}`.
* PATCH puts a removed row back into the queue (`app/api/v1/peers.py:536`), while
  `peer_service.py:113` says that a removed peer is not to be reanimated with the
  same key: `RemovedIsNotPendingAgain` with those `Ops` and `Overlap = FALSE`.
* A revocation the gateway refuses goes to `error` (`peer_service.py:344`), which no
  pass of the worker reads and whose retry provisions; access stays:
  `RevokeDisablesAccess` under `FairSpec` with `Ops = {"create", "remove", "worker"}`,
  `Overlap = TRUE`, `Keys = {k1}`.
* `token_version` is read, raised and written (`app/api/ui_admin_fragments.py:851`), so two
  overlapping password changes raise it once. A login that read the account between them
  keeps its access although the second answers "Password updated. All sessions
  revoked." (line 865): `CutIsComplete` with `Ops = {"login", "password"}`,
  `Overlap = {"version"}`, three clients, one sid and one jti, `MayCrash = FALSE`.
* `refresh_jti` is compared in one statement and replaced in a later one
  (`app/api/v1/auth.py:380`), so two overlapping requests both redeem one token, while
  `src/api/tests/test_auth_sessions.py:72`, `test_old_refresh_token_cannot_be_reused`,
  sends them one after the other: `SingleRedemption`, as an invariant of `auth_rotation`.
* `POST /policies/` recalculates the peers of the affected users and registers none
  (`app/api/v1/policies.py:102`), while `src/README.md:18` says «при создании политики
  автоматически создаётся и настраивается WireGuard-пир для всех затронутых
  пользователей». Only the UI does that, and `EntitledGetsPeer` speaks of requests with
  `registers`, those of the UI; without that premise it is false.

Nothing in the repository is contradicted by the following, but these are what
`Overlap = FALSE` keeps out of the peer properties. Each takes `Overlap = TRUE`,
`Peers = {1}`, `Hosts = {1, 2}` and no fault:

* `Ops = {"create", "provision", "regenerate"}`, two clients and two keys: a rotation
  commits between the two commits of `register_peer_for_user` (`peer_service.py:198`), and the
  second stores the first private key beside the new public one (`KeyPairMatches`); a rotation
  between the load and the commit of a provisioning leaves a provisioned row whose key
  `wg0` does not have (`ProvisionedIsRouted`).
* `Ops = {"create", "provision", "remove", "worker", "agent"}`: a provisioning that loaded
  the row before the removal calls the gateway after the script's `wg set ... remove`,
  and the script then writes `removed` over a row that `wg0` forwards
  (`src/scripts/revoke_pending_peers.sh:30`, `RemovedIsUnrouted`).

These are written into the models, as guards, as premises of a property, or as `owed`:

* Changes of membership over the groups API and the group forms, and the deletion of a
  group, recalculate nobody; PUT of a policy over the API recalculates the users of the
  new subject only. These users are `owed`.
* A policy without a subject applies to everyone in the explanation and the
  simulation, and to nobody in the engine (`SingleSubjects`, `SimulatedOnly`).
* A deny on a host written with a `/len` or a service written with a port is
  ignored by the engine, which cannot convert it (`Convertible`), and carried out by
  the simulation.
* The explanation says "allow" for a resource part of which another policy denies
  (`RoutesFollow` names that other policy).
* The simulation reports an empty result as `0.0.0.0/0`, a full tunnel (`FullTunnel`).
* `explain_peer_access` compares the calculated networks with `allowed_ips`, which holds
  the peer's own `/32` besides, so its `in_sync` is practically never true; not modelled.
* A disabled group and a deactivated account keep their routes: no calculation reads
  `is_active` of either.
* PUT and DELETE of `/resources` pass a row where the service expects an id and end in
  an error before they change anything; a second PUT route behind the first is never
  reached. They have no action.

### Bounds

Peers. Two rows of two users, two or three keys, two usable addresses beside the
gateway's (so the second allocation meets a used address and a third is refused),
one or two clients (two in `peer_core`, where registrations overlap) next to worker and script, at most one late call, one crash,
one reboot. The interactions the properties are about are between two rows (one
key or address in two places), two sessions on a row, and one fault between two of
their steps. Three keys are there where rotation needs a fresh one after both rows
have theirs. A row and an address are never reused within more than one deletion.
Keys and clients are interchangeable and reduced by symmetry, not in the
liveness and violation runs.

Login sessions. One account, since no handler relates two of them, two
sessions, two or three jtis, two requests, and at most two cuts (`MaxCuts`). A
race is between two requests. The number of sessions and jtis bounds the number of logins
and refreshes: when they are used up, `IssueFails` and `RotateFails` end the request, and
once nothing is left to present the model stops, which is why these runs switch
deadlock checking off; the code has no such end.

Policy engine. Addresses of three bits, three resources each of any of eight shapes, among
them networks that hold one another, meet at an edge, are equal or inactive, a text with
host bits set, and the two texts the engine cannot convert; three policies, direct or
through a group, allow or deny, active or not, sharing a resource or not. A single
subtraction relates two networks; with three there is one whose remains are
subtracted from again. The calculation ends, so deadlock checking is off.

Policy changes. Two users, a group, two policies, two resources (of one address and of
two), two addresses of the pool, five databases to start from (empty; a user with a peer and
no policy; a group with members with and without peers; one whose pool removed rows have
used up), three requests (`MaxOps`). Three make it possible to build a policy, change
it and change something it rests on. With a used-up pool a registration fails
half-way through the loop, and the users after it are `owed`. Deadlock checking is off
because nothing can happen once `ops` has reached its bound.

### Fairness

`run_forever` loops without end, its HTTP calls have timeouts, and an
exception on one id is caught and the next is taken: weak fairness of listing,
taking and continuing *of the worker*. Nobody is obliged to send requests, to run
the script, or to succeed at the gateway. In AuthSessions a request in progress
continues, and nobody has to send one; `ReuseRevokesSession` is claimed for requests
that do not die. In PolicySync the server goes on with each request it has accepted
(`WF_vars(Step(c))`): the handlers' loops are over finite lists and wait for nothing but
the database. A request may still die (`Crash`), and then its users are `owed`
instead of `behind`; `Served` therefore holds with crashes.

## 4. Proofs

All theorems are about every set of rows, users, keys, addresses, tables and clients and
every bound. They rest on the named assumptions of the specifications. In
`PeerLifecycle`: ids and addresses are naturals, sentinels are not values, the worker
and the script are processes of their own. In `AuthSessions`: sentinels are not
values, and the switches have their ranges. In `PolicyEngine`: the tables hold rows, and a
policy's resource is in each resource table; the policies of a table form a sequence. In
`PolicySync`: the starting databases keep their foreign keys, a live peer has an address
and an address a user who exists.

* `TypeCorrect` (`Spec => []TypeOK`), `IdentityIsUnique`
  (`Spec => []UniqueIdentity`), with overlap and all faults. `UniqueIdentity` is
  not inductive: the address that `Insert` writes was chosen earlier.
  `IdentityInv` adds that a session about to insert holds a host other than the
  gateway's, and that PATCH and regeneration work on at most one row, so that one
  flush cannot give its key to two rows.
* `RevivalsAreStale` (`Spec => OnlyStaleSessionsRevive`), with overlap, PATCH, late calls,
  crashes and reboots. `GuardInv`: between load and commit the rows as a session loaded them
  pass the guard of its operation. A commit that takes a row from `pending_revoke` or
  `removed` back to `pending` or `provisioned` has changed the status it had loaded, and no
  guard but PATCH's lets it load one of those two and make one of the others of it.
* `AddressIsHeld` (`Spec => []AddressBelongsToHolder` without `delete_user`), with
  overlap, late calls, crashes and reboots. `HolderInv` follows an address from
  the table into a snapshot, a gateway call, a late call and `wg0`: whoever
  carries `<<key, address>>` got it from a row whose history `held` contains that key.
  Account deletion is excluded because it frees an address that a key left in `wg0` may
  still own; a later row is then given it and the old key keeps its traffic until
  the row is provisioned.
* `KeyPairsMatch` (`Spec => []KeyPairMatches`) and `RevocationsAreKept`
  (`Spec => RevocationIsKept`) under `Serial`: the sessions on one row take turns and there
  is no PATCH. Script, account deletion, late calls, crashes and reboots are in. `SerialInv`
  is about the table: no two sessions hold a row, a snapshot equals its row while the
  session runs, the guard that admitted it still holds, and a row the script holds is
  `pending_revoke`. Neither property is inductive alone: that a commit leaves
  `pending_revoke` only with an answer needs to know what the session had loaded.
* `ProvisionedReachesGateway` (`Spec => []ProvisionedIsRouted`) under `Undisturbed`, which
  adds to `Serial` that calls are not late, the host stays up, script and crashes are not
  in one behaviour, nor are debug provisioning and account deletion. Refusals, lost answers
  and (without the script) crashes are in. `RouteInv` adds to `SerialInv` what `wg0` has for
  a row at each point of its session, except while the worker revokes it; that another
  row's call leaves the route alone needs `UniqueIdentity`. The two exclusions were found
  by TLC when `RouteInv` was checked before it was proved:
  - the worker lists a row as `pending_revoke`; the script's removal of it is refused and
    the row becomes `error`; an administrator provisions it; the worker, which does not look
    at the status again unless it is `removed` (`provision_pending.py:72`), takes it out of
    `wg0` and dies before its commit. The row says `provisioned` and has no route;
  - a debug call for a row that was deleted while it ran takes over an address that has
    been given to a new row meanwhile.
* `RemovalReachesGateway` (`Spec => []RemovedIsUnrouted`, in `PeerRemovalProofs`) under
  `NeverRequeued`: the operations of `peer_core`, turns on a row, no late call and no crash;
  script, account deletion, refusals, lost answers and reboots are in. Since `remove_peer`
  marks a `pending` row removed with no call to the gateway, `RemovalInv` says that `wg0`
  has nothing for a pending row unless a session is between its call and its commit; that
  `wg0` forwards to keys of the table only, so that a new row's key is unknown to it; and
  that a row whose removal was answered is out of `wg0` before the commit. The conditions are
  those that break it: a crash after a provisioning call, and an operation that queues a
  row again, leave a routed row `pending`; a late provisioning is executed after the
  removal.
* Of AuthSessions, in `AuthSessionsProofs`: `TypeCorrect` and `RevocationIsFinal`
  (`Spec => RevokedIsFinal`) with every overlap and crashes, from `SessionInv`: what
  tokens and requests refer to exists, so a new session never takes the place of a
  revoked one.
* `CutsAreComplete` (`Spec => []CutIsComplete` when `"version"` is not in `Overlap`).
  `VersionInv`: the version equals the number of cuts, a token carries the version its
  session's login had read, and a writer in progress has the current version. Without
  turns the first and the last fail, as two overlapping password changes show.
* `SpentTokensAreRefused` (`Spec => SpentTokenIsRefused`), with every overlap, crashes and
  lost answers. `RedemptionInv`: a jti that was exchanged is on no session any more and in
  some token, so it is never drawn again; and a token whose jti a session has is a token of
  that session. The second part is what the second of two exchanges of one token needs: it
  replaces a `refresh_jti` that is no longer the token's, and must not touch a session that
  could have the token's jti.

* Of PolicyEngine, in `PolicyEngineProofs`, for addresses of any width and any tables:
  `TypeCorrect` and `RoutesAreExactAlways` (`Spec => []RoutesAreExact`). The lemmas say
  what `Masked`, `Sibling`, `AddressExclude` and `SubtractNetwork` do to the addresses
  covered: subtracting takes away exactly those of the denied network. `LoopInv` carries
  that through the loops: every address of the result is allowed and not denied, those of
  `current` are clear of the denied networks already taken, and an allowed address that no
  deny covers is in the result, in `current`, or in a network still pending.
  `RoutesAreExact` speaks of the end only, so it cannot be inductive.
* Also in `PolicyEngineProofs`, from `LoopInv`: `DecisionsAreRoutes`
  (`Spec => []DecisionsMatchRoutes`), `SimulationIsComplete`
  (`Spec => []SimulationHidesNothing`) and `AggregationIsExact`
  (`Spec => []AggregateIsExact`). The last two are about functions defined by recursion over
  the policies of a user and over the rounds of `aggregate_cidrs`. `IntervalInduction` and
  `IntervalRecursion` give what they rest on: a property of 0 that passes from `n` to
  `n + 1` holds up to a bound, and a function defined from its value one place before
  exists. Both are derived from the well-foundedness of the naturals. For the simulation
  the induction shows that a routed address, once inside an allowed text, stays inside the
  texts kept, since no deny that takes a text away covers it. For the aggregation, that a
  round keeps the addresses and leaves networks that lie apart, and that a round which
  changes something leaves fewer, so that the rounds the function allows are enough for no
  two networks to be left that could be merged.
* Of PolicySync, in `PolicySyncProofs`: `TypeCorrect`, with any overlap and crashes; the
  inductive invariant adds the fields of a request (`Shape`).
* In `PolicyRefinementProofs`, under `Serial` (one request at a time; it may die):
  `PeersStayInSync` (`Spec => []InSync`), `ImplementsContract`
  (`Spec => Contract!Init /\ [][Contract!Next]_Contract!vars`, the safety part of
  `KeepsContract`) and `EntitledUsersGetPeers` (`Spec => EntitledGetsPeer`).
  `InSync` is not inductive: that a stored result is right depends on what the request
  remembers. `SerialInv` adds, in `Good`, that the row a request holds is the row stored,
  that at commit the list of users covers those of the old subject and the query will find
  those of the new one, and that the routes calculated are current; and, in `Keys`, that
  policies name users and groups that exist (so that a group just created has no policy,
  and its members gain nothing) and that a live peer holds an address (so that a deleted
  user has no peer). The argument goes step by step: each action is one of the contract or
  leaves `grant`, `live`, `view`, `behind` and `owed` alone, and no action of the contract
  breaks `InSync`.

Only model-checked:

* `PendingIsHandled`, `RevokeIsHandled`, and `Served` as part of `KeepsContract`: liveness
  under fairness is out of the prover's reach, and so is `ReuseRevokesSession`, which says
  that a replayed token *leads to* the end of its session.
* `ProvisionedIsRouted` with account deletion and debug provisioning in one instance: with
  the one client of `peer_serial` the trace above does not happen, with two it can, so
  there is no theorem to prove.

## 5. Not modelled

* Tenants: single rows of a table that no other table refers to and no decision reads.
* The audit log: append-only, nothing reads it back into a decision.
* Configuration text, QR codes, statistics, the tables, forms and pages of the UI, the
  pages and redirects in `app/main.py`, pagination and filters: reads and formatting.
* The debug endpoints other than the matrix, which print rows, and provisioning from there,
  which is `DebugProvision`.
* `app/services/access_service.py`, and `calculate_allowed_ips` and
  `recalculate_all_peers_in_group` of `policy_service.py`: nothing calls them.
* Deployment files, templates and the administration scripts other than
  `revoke_pending_peers.sh`: run by hand, one at a time.
* IPv6: the subnet of the VPN is IPv4. `resource_to_network` accepts IPv6 texts, and makes
  of a bare IPv6 host the whole `/32` around it.
* What overlapping policy changes still guarantee: `InSync` and the contract are false of
  them, as `policy_overlap` shows, and nothing weaker is stated beyond the types.

What the models make coarser than the code:

* A gateway that is not configured: `_gateway_headers` then raises a `RuntimeError`
  (`app/services/wg_client.py:28`) that no handler turns into `error`, so the row stays as it
  was. The address and the token are taken as configured.
* `aggregate_cidrs` takes texts and refuses one with host bits (`strict=True`,
  `policy_service.py:58`). `AggregateCidrs` takes networks, which have none: what it is
  shown for are the networks the engine has calculated.
* `CommitResource` is the commit of a resource and the `refresh` awaited after it
  (`resource_service.py:98`); `AddMember` and `RemoveMember` load, check and commit in one
  step (`groups.py:97`). `InSync` and the contract are claimed for one request at a time,
  where nothing runs in between.
* `POST /policies/` refuses a second active policy equal in all columns
  (`policies.py:73`). Priority and conditions, which two equal rows of the model may differ
  in, are left out, so `CreatePolicy` admits every policy; a refusal would change nothing.

Hazards of PROJECT.json without a property carry a note. Most of them are what the code
really does wrong, so that the property which would speak of them is false (section 3) or
is claimed under a condition that keeps them out. Of two more nothing in the repository
says what ought to happen. After a reboot of the host `wg0` has no peers, and no process applies provisioned
rows again (`src/wg-gateway/app/main.py:56`; `Reboot` is an action, and
`ProvisionedIsRouted` is claimed without it). Deactivation over PUT or the edit form
revokes no session, so that reactivation gives them all back (`app/api/v1/users.py:99`;
`PutActive` is an action).

## 6. What could be added

The safety half of `ReuseRevokesSession` as a theorem (the request that presents a spent
token cannot end without revoking); that `AggregateCidrs` does not depend on the order
in which the networks come; and PolicySync with several peers per user, which
PeerLifecycle has and PolicySync folds into one.
