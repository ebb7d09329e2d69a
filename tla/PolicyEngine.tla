----------------------------- MODULE PolicyEngine -----------------------------
(***************************************************************************)
(* What the access policies of one user come to:                           *)
(* calculate_allowed_ips_for_user (app/services/policy_engine.py), run for *)
(* the user Me, a member of the groups MyGroups, over one table of         *)
(* policies and one of resources; and the three explanations the program   *)
(* gives of the same tables: explain_user_resource_access and              *)
(* explain_peer_access (app/services/access_explain_service.py),           *)
(* _simulate_policies_for_peer (app/services/policy_service.py) and the    *)
(* matrix of app/api/v1/debug.py.                                          *)
(*                                                                         *)
(* An address is Width bits.  A network is what Python's ipaddress keeps:  *)
(* a network address whose host bits are zero, and a prefix length.        *)
(***************************************************************************)
EXTENDS Integers, Sequences, FiniteSets

CONSTANTS
  Width,           \* bits of an address (32 in the program)
  Me,              \* the user asked about
  MyGroups,        \* ids of the groups Me is a member of
  NoId,            \* NULL in user_id or group_id
  PolicyTables,    \* the policy tables considered, each in order of priority, scope and id
  ResourceTables,  \* the resource tables considered
  VpnIp            \* vpn_ip of the peer an explanation is asked for

Bit == {0, 1}
Address == [1..Width -> Bit]

Network ==
  {n \in [bits : Address, len : 0..Width] :
     \A i \in 1..Width : i > n.len => n.bits[i] = 0}

Kind == {"cidr", "host", "service"}

\* How the text of an address is written: bare, with a /len, with a :port.
Form == {"bare", "masked", "port"}

ResourceRow ==
  [kind : Kind, form : Form, addr : Address, len : 0..Width, active : BOOLEAN]

ASSUME WidthAssumption == Width \in Nat

ASSUME SubjectAssumption ==
  /\ Me # NoId
  /\ NoId \notin MyGroups

ASSUME TableAssumption ==
  /\ VpnIp \in Address
  /\ \A table \in ResourceTables :
       \A r \in DOMAIN table : table[r] \in ResourceRow
  /\ \A policies \in PolicyTables :
       /\ Len(policies) \in Nat /\ DOMAIN policies = 1..Len(policies)
       /\ \A k \in DOMAIN policies :
            /\ policies[k].effect \in {"allow", "deny"}
            /\ policies[k].active \in BOOLEAN
            /\ \A table \in ResourceTables : policies[k].resource \in DOMAIN table

(***************************************************************************)
(* Python's ipaddress.                                                     *)
(***************************************************************************)

Covers(n, a) == \A i \in 1..n.len : a[i] = n.bits[i]

Covered(nets, a) == \E n \in nets : Covers(n, a)

MaskedKeeping(a, len) == [bits |-> a, len |-> len]   \* mutant: host bits are kept
\* ip_network(addr/len, strict=False) clears the host bits.
Masked(a, len) ==
  [bits |-> [i \in 1..Width |-> IF i <= len THEN a[i] ELSE 0], len |-> len]

SubnetOf(m, n) == n.len <= m.len /\ Covers(n, m.bits)

Overlaps(m, n) == SubnetOf(m, n) \/ SubnetOf(n, m)

\* The half beside d when the network of its first k - 1 bits is halved.
Sibling(d, k) ==
  [bits |-> [i \in 1..Width |-> IF i < k THEN d.bits[i]
                                ELSE IF i = k THEN 1 - d.bits[i] ELSE 0],
   len |-> k]

\* address_exclude halves base until one half is denied; it keeps the others.
AddressExclude(base, denied) ==
  {Sibling(denied, k) : k \in (base.len + 1)..denied.len}

(***************************************************************************)
(* policy_engine.py.                                                       *)
(***************************************************************************)

\* The network of a resource, as a set with at most one element.
ResourceToNetwork(r) ==
  CASE r.kind = "cidr" -> {Masked(r.addr, r.len)}
    [] r.kind # "cidr" /\ r.form = "bare" -> {Masked(r.addr, Width)}
    [] OTHER -> {}

SubtractWhole(base, denied) ==   \* mutant: a partial overlap takes all of base
  IF Overlaps(base, denied) THEN {} ELSE {base}
SubtractNetwork(base, denied) ==
  CASE ~Overlaps(base, denied) -> {base}
    [] SubnetOf(base, denied) -> {}
    [] OTHER -> AddressExclude(base, denied)

Applies(p) == p.user = Me \/ p.group \in MyGroups

VARIABLES
  policies,   \* rows of policies, in order
  resources,  \* rows of resources, by id
  stage,      \* "collect", "choose", "subtract" or "done"
  allow,      \* allow_networks
  deny,       \* deny_networks
  pending,    \* allow networks not yet subtracted from
  left,       \* deny networks not yet taken from current
  current,    \* result of subtract_many so far
  final       \* final_networks

vars == <<policies, resources, stage, allow, deny, pending, left, current, final>>

\* The networks of the policies in force with one effect.
NetworksOf(effect) ==
  UNION {ResourceToNetwork(resources[policies[k].resource]) :
           k \in {k \in DOMAIN policies :
                    /\ policies[k].active
                    /\ Applies(policies[k])
                    /\ resources[policies[k].resource].active
                    /\ policies[k].effect = effect}}

Init ==
  /\ policies \in PolicyTables
  /\ resources \in ResourceTables
  /\ stage = "collect"
  /\ allow = {} /\ deny = {}
  /\ pending = {} /\ left = {} /\ current = {} /\ final = {}

\* The loop over the policies.
Collect ==
  /\ stage = "collect"
  /\ allow' = NetworksOf("allow")
  /\ deny' = NetworksOf("deny")
  /\ pending' = allow'
  /\ stage' = "choose"
  /\ UNCHANGED <<policies, resources, left, current, final>>

\* subtract_many is called with the next allow network.
Choose(n) ==
  /\ stage = "choose"
  /\ n \in pending
  /\ pending' = pending \ {n}
  /\ current' = {n}
  /\ left' = deny
  /\ stage' = "subtract"
  /\ UNCHANGED <<policies, resources, allow, deny, final>>

\* One round of its outer loop.
Subtract(d) ==
  /\ stage = "subtract"
  /\ d \in left
  /\ left' = left \ {d}
  /\ current' = UNION {SubtractNetwork(n, d) : n \in current}
  /\ UNCHANGED <<policies, resources, stage, allow, deny, pending, final>>

\* final_networks.extend(...)
Extend ==
  /\ stage = "subtract"
  /\ left = {}
  /\ final' = final \cup current
  /\ stage' = "choose"
  /\ UNCHANGED <<policies, resources, allow, deny, pending, left, current>>

Finish ==
  /\ stage = "choose"
  /\ pending = {}
  /\ stage' = "done"
  /\ UNCHANGED <<policies, resources, allow, deny, pending, left, current, final>>

Next ==
  \/ Collect
  \/ \E n \in pending : Choose(n)
  \/ \E d \in left : Subtract(d)
  \/ Extend
  \/ Finish

Spec == Init /\ [][Next]_vars

(***************************************************************************)
(* The explanations.                                                       *)
(***************************************************************************)

\* access_explain_service: a policy without a subject applies to everyone.
PolicyApplies(p) ==
  \/ p.user = Me
  \/ p.user = NoId /\ p.group \in MyGroups
  \/ p.user = NoId /\ p.group = NoId

MatchedPolicies(r) ==
  {k \in DOMAIN policies :
     policies[k].active /\ policies[k].resource = r /\ PolicyApplies(policies[k])}

Effects(ks) == {policies[k].effect : k \in ks}

DecisionAllowFirst(effects) ==   \* mutant: the branches are swapped
  CASE "allow" \in effects -> "allow"
    [] "allow" \notin effects /\ "deny" \in effects -> "deny"
    [] OTHER -> "none"
\* Deny wins over allow, nothing means deny.
DecisionOn(effects) ==
  CASE "deny" \in effects -> "deny"
    [] "deny" \notin effects /\ "allow" \in effects -> "allow"
    [] OTHER -> "none"

Decision(r) == DecisionOn(Effects(MatchedPolicies(r)))

\* explain_user_access: the rows for an active user, one per active resource.
UserAccess ==
  [r \in {r \in DOMAIN resources : resources[r].active} |-> Decision(r)]

\* access_check: "allowed" for a resource that is not hidden by a 404.
Allowed(r) == resources[r].active /\ Decision(r) = "allow"

\* debug.py reads the policies of the user only, whether active or not.
DebugDecision(r) ==
  DecisionOn(Effects({k \in DOMAIN policies :
                        policies[k].resource = r /\ policies[k].user = Me}))

(***************************************************************************)
(* _simulate_policies_for_peer works on texts: a text is its address, its  *)
(* length and whether it has a /len at all.                                *)
(***************************************************************************)

Text(a, len, bare) == [addr |-> a, len |-> len, bare |-> bare]

ResourceToCidr(r) ==
  CASE r.kind = "cidr" -> Text(r.addr, r.len, r.form = "bare")
    [] r.kind # "cidr" /\ r.form = "masked" -> Text(r.addr, r.len, FALSE)
    [] OTHER -> Text(r.addr, Width, FALSE)

InSimulationUser(p) == p.user = Me   \* mutant: group policies are not read
\* global, group and user policies; the order of the table is theirs.
InSimulation(p) ==
  \/ p.user = Me
  \/ p.group \in MyGroups
  \/ p.user = NoId /\ p.group = NoId

SimulationStep(texts, p) ==
  LET r == resources[p.resource] IN
  CASE ~(p.active /\ InSimulation(p) /\ r.active) -> texts
    [] p.active /\ InSimulation(p) /\ r.active /\ p.effect = "allow" ->
         texts \cup {ResourceToCidr(r)}
    [] OTHER -> texts \ {ResourceToCidr(r)}

Simulated ==
  LET after[k \in 0..Len(policies)] ==
        IF k = 0 THEN {Text(VpnIp, Width, TRUE)}
        ELSE SimulationStep(after[k - 1], policies[k])
  IN after[Len(policies)]

\* Nothing left is reported as 0.0.0.0/0, and so as a full tunnel.
FullTunnel ==
  \/ Simulated = {}
  \/ Text([i \in 1..Width |-> 0], 0, FALSE) \in Simulated

SimulationCovers(a) ==
  \/ FullTunnel
  \/ \E t \in Simulated : Covers(Masked(t.addr, t.len), a)

(***************************************************************************)
(* aggregate_cidrs.                                                        *)
(***************************************************************************)

Parent(n) == Masked(n.bits, n.len - 1)

HasNeighbour(n, nets) ==   \* mutant: any two networks of one length merge
  n.len > 0 /\ \E m \in nets : m # n /\ m.len = n.len
HasSibling(n, nets) == n.len > 0 /\ Sibling(n, n.len) \in nets

\* One round of the merge loop: both halves of a network become the network.
MergeSiblings(nets) ==
  {n \in nets : ~HasSibling(n, nets)}
    \cup {Parent(n) : n \in {m \in nets : HasSibling(m, nets)}}

\* ipaddress.collapse_addresses drops the networks that lie inside another.
\* What else it does, merging halves, the loop that follows does again.
WithoutNested(nets) ==
  {n \in nets : ~\E m \in nets : m # n /\ SubnetOf(n, m)}

\* The loop runs until nothing merges: after Width rounds nothing can.
AggregateCidrs(nets) ==
  LET after[k \in 0..Width] ==
        IF k = 0 THEN WithoutNested(nets) ELSE MergeSiblings(after[k - 1])
  IN after[Width]

(***************************************************************************)
(* Properties.                                                             *)
(***************************************************************************)

\* The types of the variables.
TypeOK ==
  /\ policies \in PolicyTables
  /\ resources \in ResourceTables
  /\ stage \in {"collect", "choose", "subtract", "done"}
  /\ allow \subseteq Network
  /\ deny \subseteq Network
  /\ pending \subseteq Network
  /\ left \subseteq Network
  /\ current \subseteq Network
  /\ final \subseteq Network

\* The engine can turn the resource into a network.
Convertible(r) == r.kind = "cidr" \/ r.form = "bare"

\* The address belongs to the resource, bit by bit.
OfResource(r, a) ==
  /\ Convertible(r)
  /\ \A i \in 1..Width : r.kind # "cidr" \/ i <= r.len => a[i] = r.addr[i]

InForce(k, effect) ==
  /\ policies[k].active
  /\ Applies(policies[k])
  /\ resources[policies[k].resource].active
  /\ policies[k].effect = effect

\* Some policy in force with this effect is about the address.
Named(effect, a) ==
  \E k \in DOMAIN policies :
    InForce(k, effect) /\ OfResource(resources[policies[k].resource], a)

\* The networks computed hold exactly the addresses of the resources that are
\* allowed, less those of the resources that are denied, however the denied
\* networks lie to the allowed ones: calculate_allowed_ips_for_user.
RoutesAreExact ==
  stage = "done" =>
    \A a \in Address :
      Covered(final, a) <=> Named("allow", a) /\ ~Named("deny", a)

\* Every policy has one subject, as PolicyCreate requires.
SingleSubjects ==
  \A k \in DOMAIN policies : (policies[k].user = NoId) # (policies[k].group = NoId)

\* What a decision about resource r says of the routes: a denied resource has
\* none, an allowed one all but what another resource denies, and one without
\* a policy those another allowed resource gives it.
RoutesFollow(r, decision) ==
  \A a \in Address :
    OfResource(resources[r], a) =>
      CASE decision = "deny" -> ~Covered(final, a)
        [] decision = "allow" ->
             ~Covered(final, a) =>
               \E k \in DOMAIN policies :
                 /\ InForce(k, "deny") /\ policies[k].resource # r
                 /\ OfResource(resources[policies[k].resource], a)
        [] OTHER ->
             Covered(final, a) =>
               \E s \in DOMAIN resources :
                 s # r /\ Allowed(s) /\ OfResource(resources[s], a)

\* The decision explain_user_access gives about an active resource is the one
\* the engine's networks carry out; so is the decision of the debug matrix
\* where it sees every policy that counts.
DecisionsMatchRoutes ==
  stage = "done" /\ SingleSubjects =>
    \A r \in DOMAIN UserAccess :
        /\ RoutesFollow(r, UserAccess[r])
        /\ (\A k \in DOMAIN policies :
             policies[k].resource = r =>
               policies[k].active /\ policies[k].group \notin MyGroups)
           => RoutesFollow(r, DebugDecision(r))

\* A deny that the simulation carries out and the engine does not.
SimulatedOnly(p) ==
  /\ p.active /\ p.effect = "deny" /\ InSimulation(p)
  /\ ~Applies(p) \/ ~Convertible(resources[p.resource])

\* The simulation the policy explanation of a peer shows never hides an
\* address that the engine routes, although it applies the policies one after
\* the other by priority and compares texts where the engine subtracts.
SimulationHidesNothing ==
  stage = "done" /\ ~(\E k \in DOMAIN policies : SimulatedOnly(policies[k])) =>
    \A a \in Address : Covered(final, a) => SimulationCovers(a)

\* aggregate_cidrs keeps the set of addresses, as its docstring guarantees,
\* and leaves nothing that could be written shorter.
AggregateIsExact ==
  stage = "done" =>
    LET nets == AggregateCidrs(final) IN
    /\ \A a \in Address : Covered(nets, a) <=> Covered(final, a)
    /\ \A n \in nets : ~HasSibling(n, nets)
    /\ \A n, m \in nets : SubnetOf(n, m) => n = m

=============================================================================
