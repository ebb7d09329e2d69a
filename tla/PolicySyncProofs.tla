--------------------------- MODULE PolicySyncProofs ---------------------------
(***************************************************************************)
(* TypeOK holds of every behaviour, for any users, groups, policies,       *)
(* resources and requests, overlapping or not; and what each handler opens *)
(* its request with, which PolicyRefinementProofs uses.                    *)
(***************************************************************************)
EXTENDS PolicySync, FiniteSetTheorems, TLAPS

Kinds == {"peer", "policy", "resource", "user"}

\* What TypeOK says of a request, as a record.
Request ==
  [pc : Pc, kind : Kinds, id : Users \cup Policies \cup Resources \cup {NoId},
   old : PolicyRow \cup ResourceRow \cup SUBSET Groups,
   new : PolicyRow \cup ResourceRow \cup SUBSET Groups,
   todo : SUBSET Users, after : BOOLEAN, registers : BOOLEAN, forgets : BOOLEAN,
   user : Users \cup {NoId}, loaded : SUBSET Address, routes : SUBSET Address]

\* Every client has a request.
Shape == req \in [Clients -> Request]

Typed == TypeOK /\ Shape

(***************************************************************************)
(* Types.                                                                  *)
(***************************************************************************)

\* The idle request is a request.
LEMMA IdleRequest == NoRequest \in Request /\ RequestOk(NoRequest)
<1>1. {} \in PolicyRow \cup ResourceRow \cup SUBSET Groups
  OBVIOUS
<1>2. /\ NoRequest.pc \in Pc /\ NoRequest.kind \in Kinds
      /\ NoRequest.todo = {} /\ NoRequest.routes = {}
      /\ NoRequest.kind = "peer" /\ NoRequest.pc = "idle"
  BY DEF NoRequest, Pc, Kinds
<1> QED
  BY <1>1, <1>2 DEF NoRequest, Request, RequestOk, Pc, Kinds

\* Routes are sets of addresses.
LEMMA RoutesType ==
  ASSUME NEW u, NEW gs, NEW pol \in [Policies -> PolicyRow],
         NEW res \in [Resources -> ResourceRow]
  PROVE  Routes(u, gs, pol, res) \in SUBSET Address
<1>1. \A p \in Policies : res[pol[p].res].net \subseteq Address
  BY DEF PolicyRow, ResourceRow
<1> QED
  BY <1>1 DEF Routes

\* So is what a request computes.
LEMMA SeenType ==
  ASSUME TypeOK, NEW r \in Request, RequestOk(r), NEW u
  PROVE  Seen(r, u) \in SUBSET Address
<1> DEFINE gs == IF r.kind = "user" THEN r.new ELSE GroupsOf(u)
           pol == IF r.kind = "policy"
                    THEN [policy EXCEPT ![r.id] = [r.new EXCEPT !.state = policy[r.id].state]]
                    ELSE policy
           res == IF r.kind = "resource" THEN [resource EXCEPT ![r.id] = r.new] ELSE resource
<1>1. pol \in [Policies -> PolicyRow]
  <2>1. CASE r.kind = "policy"
    <3>1. r.id \in Policies /\ r.new \in PolicyRow
      BY <2>1 DEF RequestOk
    <3>2. policy[r.id].state \in RowState
      BY <3>1 DEF TypeOK, PolicyRow
    <3>3. [r.new EXCEPT !.state = policy[r.id].state] \in PolicyRow
      BY <3>1, <3>2 DEF PolicyRow
    <3> QED
      BY <2>1, <3>1, <3>3 DEF TypeOK
  <2>2. CASE r.kind # "policy"
    BY <2>2 DEF TypeOK
  <2> QED
    BY <2>1, <2>2
<1>2. res \in [Resources -> ResourceRow]
  BY DEF TypeOK, RequestOk
<1>3. Routes(u, gs, pol, res) \in SUBSET Address
  <2> HIDE DEF gs, pol, res
  <2> QED
    BY <1>1, <1>2, RoutesType
<1> QED
  BY <1>3 DEF Seen

\* A client that is given a request keeps the types of all requests.
LEMMA GivenRequest ==
  ASSUME Typed, NEW c \in Clients, NEW r \in Request, RequestOk(r),
         req' = [req EXCEPT ![c] = r]
  PROVE  Shape' /\ \A d \in Clients : RequestOk(req[d])'
<1>1. Shape'
  BY DEF Typed, Shape
<1>2. ASSUME NEW d \in Clients PROVE RequestOk(req[d])'
  <2>1. CASE d = c
    <3>1. req'[d] = r
      BY <2>1 DEF Typed, Shape
    <3> QED
      BY <3>1 DEF RequestOk
  <2>2. CASE d # c
    <3>1. req'[d] = req[d] /\ RequestOk(req[d])
      BY <2>2 DEF Typed, Shape, TypeOK
    <3> QED
      BY <3>1 DEF RequestOk
  <2> QED
    BY <2>1, <2>2
<1> QED
  BY <1>1, <1>2

\* Requests that stay as they are keep their types.
LEMMA SameRequests ==
  ASSUME Typed, UNCHANGED req
  PROVE  Shape' /\ \A d \in Clients : RequestOk(req[d])'
BY DEF Typed, Shape, TypeOK, RequestOk

\* Starting a request keeps the types.
LEMMA StartType ==
  ASSUME Typed, NEW c \in Clients, NEW h, NEW r \in Request, RequestOk(r), Start(c, h, r)
  PROVE  Typed'
<1>1. Shape' /\ \A d \in Clients : RequestOk(req[d])'
  BY GivenRequest DEF Start
<1> QED
  BY <1>1 DEF Start, Typed, TypeOK

\* The users a policy affects are users.
LEMMA AffectedType ==
  ASSUME NEW row
  PROVE  Affected(row) \in SUBSET Users
BY DEF Affected

(***************************************************************************)
(* The requests that handlers open.                                        *)
(***************************************************************************)

\* A change of a policy holds the stored row, and somebody will look for the
\* users of the old subject and of the new one.
Covers(r) ==
  /\ r.old = policy[r.id]
  /\ r.old.state = "on" =>
       \/ Affected(r.old) \subseteq r.todo
       \/ r.after /\ r.forgets
       \/ r.after /\ r.new.user = r.old.user /\ r.new.group = r.old.group
  /\ r.new.state = "on" => r.after

\* What a request holds agrees with the tables.
Good(r) ==
  /\ r.pc = "idle" => r = NoRequest
  /\ r.pc = "commit" =>
       /\ r.kind = "policy" => Covers(r)
       /\ r.kind = "resource" => r.old = resource[r.id]
       /\ r.kind = "user" => r.old = GroupsOf(r.id) /\ r.todo = {r.id}
  /\ r.pc \notin {"idle", "commit"} =>
       /\ r.kind = "policy" => r.new = policy[r.id]
       /\ r.kind = "resource" => r.new = resource[r.id]
       /\ r.kind = "user" => r.new = GroupsOf(r.id) /\ r.todo \subseteq {r.id}
  /\ r.pc = "affect" => r.kind # "user"
  /\ r.pc \in {"compute", "store", "register", "insert"} => r.user \in r.todo
  /\ r.pc \in {"compute", "store"} => r.user \in live /\ r.loaded = allowed[r.user]
  /\ r.pc \in {"register", "insert"} => r.user \notin live
  /\ r.pc \in {"store", "insert"} => r.routes = Entitled(r.user)

\* A handler opens a request that is well-formed and good.
Opens(c) ==
  \E h \in Handlers, r \in Request :
    RequestOk(r) /\ Good(r) /\ Due(r) = {} /\ r.pc # "idle" /\ Start(c, h, r)

\* The record of a change of p.
ChangesPolicy(q, p, row) ==
  /\ q \in Request /\ q.pc = "commit" /\ q.kind = "policy" /\ q.id = p
  /\ q.old = policy[p] /\ q.new = row
  /\ q.todo = {} /\ q.routes = {} /\ q.after = FALSE /\ q.forgets = FALSE

\* A change of a policy is a request.
LEMMA PolicyChangeType ==
  ASSUME TypeOK, NEW p \in Policies, NEW row \in PolicyRow
  PROVE  ChangesPolicy(PolicyChange(p, row), p, row)
<1> DEFINE q == PolicyChange(p, row)
<1>1. NoRequest \in Request
  BY IdleRequest
<1>2. policy[p] \in PolicyRow
  BY DEF TypeOK
<1>3. [NoRequest EXCEPT !.pc = "commit", !.kind = "policy"] \in Request
  BY <1>1 DEF Request, Pc, Kinds
<1>4. [[NoRequest EXCEPT !.pc = "commit", !.kind = "policy"] EXCEPT
         !.id = p, !.old = policy[p], !.new = row] \in Request
  BY <1>2, <1>3 DEF Request
<1>5. q \in Request
  BY <1>4 DEF PolicyChange
<1>6. /\ q.pc = "commit" /\ q.kind = "policy" /\ q.id = p
      /\ q.old = policy[p] /\ q.new = row
  BY <1>1 DEF PolicyChange, Request
<1>7. /\ q.todo = NoRequest.todo /\ q.after = NoRequest.after
      /\ q.forgets = NoRequest.forgets /\ q.routes = NoRequest.routes
  BY <1>1 DEF PolicyChange, Request
<1>8. /\ NoRequest.todo = {} /\ NoRequest.routes = {}
      /\ NoRequest.after = FALSE /\ NoRequest.forgets = FALSE
  BY DEF NoRequest
<1> QED
  BY <1>5, <1>6, <1>7, <1>8 DEF ChangesPolicy

\* A handler of policies opens such a request.
LEMMA PolicyOpens ==
  ASSUME TypeOK, NEW c \in Clients, NEW h \in Handlers, NEW p \in Policies,
         NEW row \in PolicyRow, NEW r \in Request,
         r.pc = "commit", r.kind = "policy", r.id = p, r.old = policy[p], r.new = row,
         r.todo \subseteq Users, r.routes = {}, Covers(r), Start(c, h, r)
  PROVE  Opens(c)
<1>1. RequestOk(r)
  BY DEF RequestOk, Pc, TypeOK
<1>2. Good(r)
  BY DEF Good
<1>3. Due(r) = {} /\ r.pc # "idle"
  BY DEF Due
<1> QED
  BY <1>1, <1>2, <1>3 DEF Opens

\* So does CreatePolicy.
LEMMA CreatePolicyOpens ==
  ASSUME TypeOK, NEW c \in Clients, NEW p \in Policies, NEW row \in PolicyRow,
         CreatePolicy(c, p, row)
  PROVE  Opens(c)
<1> DEFINE q == PolicyChange(p, row)
           r == [q EXCEPT !.after = TRUE]
<1>1. policy[p] \in PolicyRow
  BY DEF TypeOK
<1>2. Start(c, "create_policy", r) /\ "create_policy" \in Handlers
  BY DEF CreatePolicy, Start, MayStart
<1>3. policy[p].state = "none"
  BY DEF CreatePolicy, NewPolicy
<1>4. ChangesPolicy(q, p, row)
  BY PolicyChangeType
<1> HIDE DEF q
<1>5. /\ q \in Request /\ q.pc = "commit" /\ q.kind = "policy" /\ q.id = p
      /\ q.old = policy[p] /\ q.new = row /\ q.todo = {} /\ q.routes = {}
  BY <1>4 DEF ChangesPolicy
<1>6. /\ r \in Request /\ r.pc = "commit" /\ r.kind = "policy" /\ r.id = p
      /\ r.old = policy[p] /\ r.new = row /\ r.routes = {}
      /\ r.todo = {} /\ r.after
  BY <1>5, AffectedType DEF Request
<1>7. r.todo \subseteq Users
  BY <1>6, AffectedType
<1> HIDE DEF r
<1>8. Covers(r)
  BY <1>6, <1>3 DEF Covers
<1> QED
  BY <1>2, <1>6, <1>7, <1>8, PolicyOpens

\* So does UiCreatePolicy.
LEMMA UiCreatePolicyOpens ==
  ASSUME TypeOK, NEW c \in Clients, NEW p \in Policies, NEW row \in PolicyRow,
         UiCreatePolicy(c, p, row)
  PROVE  Opens(c)
<1> DEFINE q == PolicyChange(p, row)
           r == [q EXCEPT !.after = TRUE, !.registers = TRUE]
<1>1. policy[p] \in PolicyRow
  BY DEF TypeOK
<1>2. Start(c, "create_policy", r) /\ "create_policy" \in Handlers
  BY DEF UiCreatePolicy, Start, MayStart
<1>3. policy[p].state = "none"
  BY DEF UiCreatePolicy, NewPolicy
<1>4. ChangesPolicy(q, p, row)
  BY PolicyChangeType
<1> HIDE DEF q
<1>5. /\ q \in Request /\ q.pc = "commit" /\ q.kind = "policy" /\ q.id = p
      /\ q.old = policy[p] /\ q.new = row /\ q.todo = {} /\ q.routes = {}
  BY <1>4 DEF ChangesPolicy
<1>6. /\ r \in Request /\ r.pc = "commit" /\ r.kind = "policy" /\ r.id = p
      /\ r.old = policy[p] /\ r.new = row /\ r.routes = {}
      /\ r.todo = {} /\ r.after
  BY <1>5, AffectedType DEF Request
<1>7. r.todo \subseteq Users
  BY <1>6, AffectedType
<1> HIDE DEF r
<1>8. Covers(r)
  BY <1>6, <1>3 DEF Covers
<1> QED
  BY <1>2, <1>6, <1>7, <1>8, PolicyOpens

\* So does UpdatePolicy.
LEMMA UpdatePolicyOpens ==
  ASSUME TypeOK, NEW c \in Clients, NEW p \in Policies, NEW row \in PolicyRow,
         UpdatePolicy(c, p, row)
  PROVE  Opens(c)
<1> DEFINE q == PolicyChange(p, row)
           r == [q EXCEPT !.after = TRUE, !.forgets = TRUE]
<1>1. policy[p] \in PolicyRow
  BY DEF TypeOK
<1>2. Start(c, "update_policy", r) /\ "update_policy" \in Handlers
  BY DEF UpdatePolicy, Start, MayStart
<1>3. ChangesPolicy(q, p, row)
  BY PolicyChangeType
<1> HIDE DEF q
<1>4. /\ q \in Request /\ q.pc = "commit" /\ q.kind = "policy" /\ q.id = p
      /\ q.old = policy[p] /\ q.new = row /\ q.todo = {} /\ q.routes = {}
  BY <1>3 DEF ChangesPolicy
<1>5. /\ r \in Request /\ r.pc = "commit" /\ r.kind = "policy" /\ r.id = p
      /\ r.old = policy[p] /\ r.new = row /\ r.routes = {}
      /\ r.todo = {} /\ r.after /\ r.forgets
  BY <1>4, AffectedType DEF Request
<1>6. r.todo \subseteq Users
  BY <1>5, AffectedType
<1> HIDE DEF r
<1>7. Covers(r)
  BY <1>5 DEF Covers
<1> QED
  BY <1>2, <1>5, <1>6, <1>7, PolicyOpens

\* So does UiUpdatePolicy.
LEMMA UiUpdatePolicyOpens ==
  ASSUME TypeOK, NEW c \in Clients, NEW p \in Policies, NEW row \in PolicyRow,
         UiUpdatePolicy(c, p, row)
  PROVE  Opens(c)
<1> DEFINE q == PolicyChange(p, row)
           r == [q EXCEPT !.todo = Affected(policy[p]), !.after = TRUE, !.registers = TRUE]
<1>1. policy[p] \in PolicyRow
  BY DEF TypeOK
<1>2. Start(c, "update_policy", r) /\ "update_policy" \in Handlers
  BY DEF UiUpdatePolicy, Start, MayStart
<1>3. ChangesPolicy(q, p, row)
  BY PolicyChangeType
<1> HIDE DEF q
<1>4. /\ q \in Request /\ q.pc = "commit" /\ q.kind = "policy" /\ q.id = p
      /\ q.old = policy[p] /\ q.new = row /\ q.todo = {} /\ q.routes = {}
  BY <1>3 DEF ChangesPolicy
<1>5. /\ r \in Request /\ r.pc = "commit" /\ r.kind = "policy" /\ r.id = p
      /\ r.old = policy[p] /\ r.new = row /\ r.routes = {}
      /\ r.todo = Affected(policy[p]) /\ r.after
  BY <1>4, AffectedType DEF Request
<1>6. r.todo \subseteq Users
  BY <1>5, AffectedType
<1> HIDE DEF r
<1>7. Covers(r)
  BY <1>5 DEF Covers
<1> QED
  BY <1>2, <1>5, <1>6, <1>7, PolicyOpens

\* So does SoftDeletePolicy.
LEMMA SoftDeletePolicyOpens ==
  ASSUME TypeOK, NEW c \in Clients, NEW p \in Policies,
         SoftDeletePolicy(c, p)
  PROVE  Opens(c)
<1> DEFINE row == [policy[p] EXCEPT !.state = "off"]
           q == PolicyChange(p, row)
           r == [q EXCEPT !.todo = Affected(policy[p])]
<1>1. policy[p] \in PolicyRow
  BY DEF TypeOK
<1>2. /\ row \in PolicyRow /\ row.state = "off"
      /\ row.user = policy[p].user /\ row.group = policy[p].group
  BY <1>1 DEF PolicyRow, RowState
<1>3. Start(c, "disable_policy", r) /\ "disable_policy" \in Handlers
  BY DEF SoftDeletePolicy, Start, MayStart, Disabled
<1> HIDE DEF row
<1>4. ChangesPolicy(q, p, row)
  BY <1>2, PolicyChangeType
<1> HIDE DEF q
<1>5. /\ q \in Request /\ q.pc = "commit" /\ q.kind = "policy" /\ q.id = p
      /\ q.old = policy[p] /\ q.new = row /\ q.todo = {} /\ q.routes = {}
  BY <1>4 DEF ChangesPolicy
<1>6. /\ r \in Request /\ r.pc = "commit" /\ r.kind = "policy" /\ r.id = p
      /\ r.old = policy[p] /\ r.new = row /\ r.routes = {}
      /\ r.todo = Affected(policy[p])
  BY <1>5, AffectedType DEF Request
<1>7. r.todo \subseteq Users
  BY <1>6, AffectedType
<1> HIDE DEF r
<1>8. Covers(r)
  BY <1>6, <1>2 DEF Covers
<1> QED
  BY <1>2, <1>3, <1>6, <1>7, <1>8, PolicyOpens

\* So does EnablePolicy.
LEMMA EnablePolicyOpens ==
  ASSUME TypeOK, NEW c \in Clients, NEW p \in Policies,
         EnablePolicy(c, p)
  PROVE  Opens(c)
<1> DEFINE row == [policy[p] EXCEPT !.state = "on"]
           q == PolicyChange(p, row)
           r == [q EXCEPT !.after = TRUE, !.registers = TRUE]
<1>1. policy[p] \in PolicyRow
  BY DEF TypeOK
<1>2. /\ row \in PolicyRow /\ row.state = "on"
      /\ row.user = policy[p].user /\ row.group = policy[p].group
  BY <1>1 DEF PolicyRow, RowState
<1>3. Start(c, "enable_policy", r) /\ "enable_policy" \in Handlers
  BY DEF EnablePolicy, Start, MayStart
<1> HIDE DEF row
<1>4. ChangesPolicy(q, p, row)
  BY <1>2, PolicyChangeType
<1> HIDE DEF q
<1>5. /\ q \in Request /\ q.pc = "commit" /\ q.kind = "policy" /\ q.id = p
      /\ q.old = policy[p] /\ q.new = row /\ q.todo = {} /\ q.routes = {}
  BY <1>4 DEF ChangesPolicy
<1>6. /\ r \in Request /\ r.pc = "commit" /\ r.kind = "policy" /\ r.id = p
      /\ r.old = policy[p] /\ r.new = row /\ r.routes = {}
      /\ r.todo = {} /\ r.after
  BY <1>5, AffectedType DEF Request
<1>7. r.todo \subseteq Users
  BY <1>6, AffectedType
<1> HIDE DEF r
<1>8. Covers(r)
  BY <1>6, <1>2 DEF Covers
<1> QED
  BY <1>2, <1>3, <1>6, <1>7, <1>8, PolicyOpens

\* So does DeletePolicy.
LEMMA DeletePolicyOpens ==
  ASSUME TypeOK, NEW c \in Clients, NEW p \in Policies,
         DeletePolicy(c, p)
  PROVE  Opens(c)
<1> DEFINE row == [policy[p] EXCEPT !.state = "gone"]
           q == PolicyChange(p, row)
           r == [q EXCEPT !.todo = Affected(policy[p]), !.registers = TRUE]
<1>1. policy[p] \in PolicyRow
  BY DEF TypeOK
<1>2. /\ row \in PolicyRow /\ row.state = "gone"
      /\ row.user = policy[p].user /\ row.group = policy[p].group
  BY <1>1 DEF PolicyRow, RowState
<1>3. Start(c, "delete_policy", r) /\ "delete_policy" \in Handlers
  BY DEF DeletePolicy, Start, MayStart
<1> HIDE DEF row
<1>4. ChangesPolicy(q, p, row)
  BY <1>2, PolicyChangeType
<1> HIDE DEF q
<1>5. /\ q \in Request /\ q.pc = "commit" /\ q.kind = "policy" /\ q.id = p
      /\ q.old = policy[p] /\ q.new = row /\ q.todo = {} /\ q.routes = {}
  BY <1>4 DEF ChangesPolicy
<1>6. /\ r \in Request /\ r.pc = "commit" /\ r.kind = "policy" /\ r.id = p
      /\ r.old = policy[p] /\ r.new = row /\ r.routes = {}
      /\ r.todo = Affected(policy[p])
  BY <1>5, AffectedType DEF Request
<1>7. r.todo \subseteq Users
  BY <1>6, AffectedType
<1> HIDE DEF r
<1>8. Covers(r)
  BY <1>6, <1>2 DEF Covers
<1> QED
  BY <1>2, <1>3, <1>6, <1>7, <1>8, PolicyOpens

\* So does DisablePolicy.
LEMMA DisablePolicyOpens ==
  ASSUME TypeOK, NEW c \in Clients, NEW p \in Policies, DisablePolicy(c, p)
  PROVE  Opens(c)
<1> DEFINE row == [policy[p] EXCEPT !.state = "off"]
           q == PolicyChange(p, row)
           r == [[q EXCEPT !.todo = Affected(policy[p])] EXCEPT !.registers = TRUE]
<1>1. policy[p] \in PolicyRow
  BY DEF TypeOK
<1>2. row \in PolicyRow /\ row.state = "off"
  BY <1>1 DEF PolicyRow, RowState
<1>3. Start(c, "disable_policy", r) /\ "disable_policy" \in Handlers
  BY DEF DisablePolicy, Start, MayStart, Disabled
<1> HIDE DEF row
<1>4. ChangesPolicy(q, p, row)
  BY <1>2, PolicyChangeType
<1> HIDE DEF q
<1>5. /\ q \in Request /\ q.pc = "commit" /\ q.kind = "policy" /\ q.id = p
      /\ q.old = policy[p] /\ q.new = row /\ q.routes = {}
  BY <1>4 DEF ChangesPolicy
<1>6. /\ r \in Request /\ r.pc = "commit" /\ r.kind = "policy" /\ r.id = p
      /\ r.old = policy[p] /\ r.new = row /\ r.routes = {}
      /\ r.todo = Affected(policy[p])
  BY <1>5, AffectedType DEF Request
<1>7. r.todo \subseteq Users
  BY <1>6, AffectedType
<1> HIDE DEF r
<1>8. Covers(r)
  BY <1>2, <1>6 DEF Covers
<1> QED
  BY <1>2, <1>3, <1>6, <1>7, <1>8, PolicyOpens

\* The record of a change of resource x.
ChangesResource(q, x, new) ==
  /\ q \in Request /\ q.pc = "commit" /\ q.kind = "resource" /\ q.id = x
  /\ q.old = resource[x] /\ q.new = new
  /\ q.todo = {} /\ q.routes = {}

\* A change of a resource is a request.
LEMMA ResourceChangeType ==
  ASSUME TypeOK, NEW x \in Resources, NEW new \in ResourceRow
  PROVE  ChangesResource(ResourceChange(x, new), x, new)
<1> DEFINE q == ResourceChange(x, new)
<1>1. NoRequest \in Request
  BY IdleRequest
<1>2. resource[x] \in ResourceRow
  BY DEF TypeOK
<1>3. [NoRequest EXCEPT !.pc = "commit", !.kind = "resource"] \in Request
  BY <1>1 DEF Request, Pc, Kinds
<1>4. [[NoRequest EXCEPT !.pc = "commit", !.kind = "resource"] EXCEPT
         !.id = x, !.old = resource[x], !.new = new, !.after = TRUE] \in Request
  BY <1>2, <1>3 DEF Request
<1>5. q \in Request
  BY <1>4 DEF ResourceChange
<1>6. /\ q.pc = "commit" /\ q.kind = "resource" /\ q.id = x
      /\ q.old = resource[x] /\ q.new = new
  BY <1>1 DEF ResourceChange, Request
<1>7. q.todo = NoRequest.todo /\ q.routes = NoRequest.routes
  BY <1>1 DEF ResourceChange, Request
<1>8. NoRequest.todo = {} /\ NoRequest.routes = {}
  BY DEF NoRequest
<1> QED
  BY <1>5, <1>6, <1>7, <1>8 DEF ChangesResource

\* A handler of resources opens such a request.
LEMMA ResourceOpens ==
  ASSUME TypeOK, NEW c \in Clients, NEW h \in Handlers, NEW x \in Resources,
         NEW new \in ResourceRow, Start(c, h, ResourceChange(x, new))
  PROVE  Opens(c)
<1> DEFINE r == ResourceChange(x, new)
<1>1. ChangesResource(r, x, new)
  BY ResourceChangeType
<1>2. Start(c, h, r)
  OBVIOUS
<1> HIDE DEF r
<1>3. /\ r \in Request /\ r.pc = "commit" /\ r.kind = "resource" /\ r.id = x
      /\ r.old = resource[x] /\ r.new = new /\ r.todo = {} /\ r.routes = {}
  BY <1>1 DEF ChangesResource
<1>4. RequestOk(r)
  BY <1>3 DEF RequestOk, Pc, TypeOK
<1>5. Good(r)
  BY <1>3 DEF Good
<1>6. Due(r) = {} /\ r.pc # "idle"
  BY <1>3 DEF Due
<1> QED
  BY <1>2, <1>3, <1>4, <1>5, <1>6 DEF Opens

\* So do the handlers of resources, permanent deletion aside.
LEMMA ResourceHandlerOpens ==
  ASSUME TypeOK, NEW c \in Clients, ResourceHandler(c)
  PROVE  Opens(c) \/ \E x \in Resources : PermanentlyDeleteResource(x)
<1>1. ASSUME NEW x \in Resources, NEW net \in Nets, CreateResource(c, x, net)
      PROVE  Opens(c)
  <2>1. [state |-> "on", net |-> net] \in ResourceRow
    BY IdAssumption DEF ResourceRow, RowState
  <2>2. /\ Start(c, "create_resource", ResourceChange(x, [state |-> "on", net |-> net]))
        /\ "create_resource" \in Handlers
    BY <1>1 DEF CreateResource, Start, MayStart
  <2> QED
    BY <2>1, <2>2, ResourceOpens
<1>2. ASSUME NEW x \in Resources, NEW net \in Nets, UpdateResource(c, x, net)
      PROVE  Opens(c)
  <2>1. [resource[x] EXCEPT !.net = net] \in ResourceRow
    BY IdAssumption DEF ResourceRow, RowState, TypeOK
  <2>2. /\ Start(c, "update_resource", ResourceChange(x, [resource[x] EXCEPT !.net = net]))
        /\ "update_resource" \in Handlers
    BY <1>2 DEF UpdateResource, Start, MayStart
  <2> QED
    BY <2>1, <2>2, ResourceOpens
<1>3. ASSUME NEW x \in Resources, SoftDeleteResource(c, x)
      PROVE  Opens(c)
  <2>1. [resource[x] EXCEPT !.state = "off"] \in ResourceRow
    BY DEF ResourceRow, RowState, TypeOK
  <2>2. /\ Start(c, "delete_resource", ResourceChange(x, [resource[x] EXCEPT !.state = "off"]))
        /\ "delete_resource" \in Handlers
    BY <1>3 DEF SoftDeleteResource, Start, MayStart
  <2> QED
    BY <2>1, <2>2, ResourceOpens
<1>4. ASSUME NEW x \in Resources, EnableResource(c, x)
      PROVE  Opens(c)
  <2>1. [resource[x] EXCEPT !.state = "on"] \in ResourceRow
    BY DEF ResourceRow, RowState, TypeOK
  <2>2. /\ Start(c, "enable_resource", ResourceChange(x, [resource[x] EXCEPT !.state = "on"]))
        /\ "enable_resource" \in Handlers
    BY <1>4 DEF EnableResource, Start, MayStart
  <2> QED
    BY <2>1, <2>2, ResourceOpens
<1> QED
  BY <1>1, <1>2, <1>3, <1>4 DEF ResourceHandler

\* So do all handlers of policies.
LEMMA PolicyHandlerOpens ==
  ASSUME TypeOK, NEW c \in Clients, PolicyHandler(c)
  PROVE  Opens(c)
<1>1. PICK p \in Policies :
        \/ \E row \in PolicyPayloads :
             LET edited == [row EXCEPT !.state = policy[p].state] IN
             \/ CreatePolicy(c, p, row) \/ UiCreatePolicy(c, p, row)
             \/ UpdatePolicy(c, p, edited) \/ UiUpdatePolicy(c, p, edited)
        \/ SoftDeletePolicy(c, p) \/ DisablePolicy(c, p)
        \/ EnablePolicy(c, p)
        \/ DeletePolicy(c, p)
  BY DEF PolicyHandler
<1>2. CASE SoftDeletePolicy(c, p) \/ DisablePolicy(c, p)
             \/ EnablePolicy(c, p) \/ DeletePolicy(c, p)
  BY <1>2, SoftDeletePolicyOpens, DisablePolicyOpens, EnablePolicyOpens, DeletePolicyOpens
<1>3. ASSUME NEW row \in PolicyPayloads,
             LET edited == [row EXCEPT !.state = policy[p].state] IN
             \/ CreatePolicy(c, p, row) \/ UiCreatePolicy(c, p, row)
             \/ UpdatePolicy(c, p, edited) \/ UiUpdatePolicy(c, p, edited)
      PROVE  Opens(c)
  <2> DEFINE edited == [row EXCEPT !.state = policy[p].state]
  <2>1. row \in PolicyRow
    BY DataAssumption
  <2>2. edited \in PolicyRow
    BY <2>1 DEF TypeOK, PolicyRow
  <2>3. \/ CreatePolicy(c, p, row) \/ UiCreatePolicy(c, p, row)
        \/ UpdatePolicy(c, p, edited) \/ UiUpdatePolicy(c, p, edited)
    BY <1>3
  <2> HIDE DEF edited
  <2> QED
    BY <2>1, <2>2, <2>3, CreatePolicyOpens, UiCreatePolicyOpens,
       UpdatePolicyOpens, UiUpdatePolicyOpens
<1> QED
  BY <1>1, <1>2, <1>3

\* So does the edit form of a user.
LEMMA EditUserOpens ==
  ASSUME TypeOK, NEW c \in Clients, NEW u \in Users, NEW gs \in SUBSET Groups,
         EditUser(c, u, gs)
  PROVE  Opens(c)
<1> DEFINE new == {g \in gs : group[g] \in Stored}
           r == [NoRequest EXCEPT !.pc = "commit", !.kind = "user", !.id = u,
                                  !.old = GroupsOf(u), !.new = new, !.todo = {u}]
<1>1. NoRequest \in Request
  BY IdleRequest
<1>2. GroupsOf(u) \in SUBSET Groups /\ new \in SUBSET Groups
  BY DEF GroupsOf
<1>3. Start(c, "edit_user", r) /\ "edit_user" \in Handlers
  BY DEF EditUser, Start, MayStart
<1> HIDE DEF new
<1>4. [NoRequest EXCEPT !.pc = "commit", !.kind = "user"] \in Request
  BY <1>1 DEF Request, Pc, Kinds
<1>5. [[NoRequest EXCEPT !.pc = "commit", !.kind = "user"] EXCEPT
         !.id = u, !.old = GroupsOf(u), !.new = new, !.todo = {u}] \in Request
  BY <1>2, <1>4 DEF Request
<1>6. /\ r \in Request /\ r.pc = "commit" /\ r.kind = "user" /\ r.id = u
      /\ r.old = GroupsOf(u) /\ r.new = new /\ r.todo = {u}
  BY <1>1, <1>5 DEF Request
<1>7. r.routes = NoRequest.routes
  BY <1>1 DEF Request
<1>8. NoRequest.routes = {}
  BY DEF NoRequest
<1> HIDE DEF r
<1>9. RequestOk(r)
  BY <1>2, <1>6, <1>7, <1>8 DEF RequestOk, Pc
<1>10. Good(r)
  BY <1>6 DEF Good
<1>11. Due(r) = {} /\ r.pc # "idle"
  BY <1>6 DEF Due
<1> QED
  BY <1>3, <1>6, <1>9, <1>10, <1>11 DEF Opens

\* So does the registration of a peer.
LEMMA EnrollOpens ==
  ASSUME TypeOK, NEW c \in Clients, NEW u \in Users, Enroll(c, u)
  PROVE  Opens(c)
<1> DEFINE r == [NoRequest EXCEPT !.pc = "take", !.todo = {u}, !.registers = TRUE]
<1>1. NoRequest \in Request
  BY IdleRequest
<1>2. Start(c, "enroll", r) /\ "enroll" \in Handlers
  BY DEF Enroll, Start, MayStart
<1>3. r \in Request /\ r.pc = "take" /\ r.todo = {u}
  BY <1>1 DEF Request, Pc
<1>4. r.routes = NoRequest.routes /\ r.kind = NoRequest.kind
  BY <1>1 DEF Request
<1>5. NoRequest.routes = {} /\ NoRequest.kind = "peer"
  BY DEF NoRequest
<1> HIDE DEF r
<1>6. RequestOk(r)
  BY <1>3, <1>4, <1>5 DEF RequestOk, Pc
<1>7. Good(r)
  BY <1>3, <1>4, <1>5 DEF Good
<1>8. Due(r) = {} /\ r.pc # "idle"
  BY <1>3, <1>4, <1>5 DEF Due
<1> QED
  BY <1>2, <1>3, <1>6, <1>7, <1>8 DEF Opens

(***************************************************************************)
(* Every step keeps the types.                                             *)
(***************************************************************************)

\* The users a request has before it are users.
LEMMA DueType ==
  ASSUME NEW r \in Request
  PROVE  Due(r) \in SUBSET Users
<1>1. r.todo \in SUBSET Users
  BY DEF Request
<1>2. AffectedNow(r) \in SUBSET Users
  BY AffectedType DEF AffectedNow, AffectedByResource
<1> QED
  BY <1>1, <1>2 DEF Due

\* What a handler writes is a row.
LEMMA FlushedPolicy ==
  ASSUME NEW old \in PolicyRow, NEW new \in PolicyRow, NEW db \in PolicyRow
  PROVE  Flushed(old, new, db) \in PolicyRow
<1>1. DOMAIN db = {"state", "user", "group", "res", "effect"}
  BY DEF PolicyRow
<1> QED
  BY <1>1 DEF Flushed, PolicyRow

\* The same of a resource.
LEMMA FlushedResource ==
  ASSUME NEW old \in ResourceRow, NEW new \in ResourceRow, NEW db \in ResourceRow
  PROVE  Flushed(old, new, db) \in ResourceRow
<1>1. DOMAIN db = {"state", "net"}
  BY DEF ResourceRow
<1> QED
  BY <1>1 DEF Flushed, ResourceRow

\* The initial states are typed.
LEMMA InitType == Init => Typed
<1> SUFFICES ASSUME Init PROVE Typed
  OBVIOUS
<1>1. PICK d \in Databases :
        /\ account = d.account /\ group = d.group /\ member = d.member
        /\ policy = d.policy /\ resource = d.resource
        /\ live = d.live /\ holder = d.holder
        /\ allowed = [u \in Users |-> Entitled(u)]
        /\ req = [c \in Clients |-> NoRequest]
        /\ owed = {} /\ ops = 0
  BY DEF Init
<1>2. /\ account \in [Users -> {"none", "on", "gone"}]
      /\ group \in [Groups -> RowState]
      /\ member \subseteq Users \X Groups
      /\ policy \in [Policies -> PolicyRow]
      /\ resource \in [Resources -> ResourceRow]
      /\ live \subseteq Users
      /\ holder \in [Pool -> Users \cup {NoId}]
      /\ \A m \in member : account[m[1]] = "on" /\ group[m[2]] \in Stored
  BY <1>1, DataAssumption
<1>3. allowed \in [Users -> SUBSET Address]
  BY <1>1, <1>2, RoutesType DEF Entitled
<1>4. Shape /\ \A c \in Clients : RequestOk(req[c])
  BY <1>1, IdleRequest DEF Shape
<1> QED
  BY <1>1, <1>2, <1>3, <1>4 DEF Typed, TypeOK

\* The request of a client.
LEMMA HeldRequest ==
  ASSUME Typed, NEW c \in Clients
  PROVE  req[c] \in Request /\ RequestOk(req[c])
BY DEF Typed, Shape, TypeOK

\* A request keeps its type while its change stays the same.
LEMMA SameChange ==
  ASSUME NEW r \in Request, RequestOk(r), NEW q \in Request,
         q.kind = r.kind, q.id = r.id, q.old = r.old, q.new = r.new,
         q.pc \in {"compute", "store", "register", "insert"} => q.user \in Users
  PROVE  RequestOk(q)
BY DEF Request, RequestOk

\* Opening a request keeps the types.
LEMMA OpensType ==
  ASSUME Typed, NEW c \in Clients, Opens(c)
  PROVE  Typed'
BY StartType DEF Opens

\* So does giving a request up.
LEMMA FailType ==
  ASSUME Typed, NEW c \in Clients, Fail(c)
  PROVE  Typed'
<1>1. Shape' /\ \A d \in Clients : RequestOk(req[d])'
  BY IdleRequest, GivenRequest DEF Fail
<1>2. Due(req[c]) \subseteq Users
  BY HeldRequest, DueType
<1> QED
  BY <1>1, <1>2 DEF Fail, Typed, TypeOK

\* So do the commits.
LEMMA CommitPolicyType ==
  ASSUME Typed, NEW c \in Clients, CommitPolicy(c)
  PROVE  Typed'
<1> DEFINE r == req[c]
           row == Flushed(r.old, r.new, policy[r.id])
           pc == IF r.after THEN "affect" ELSE "take"
           new == IF r.old.state = r.new.state THEN row ELSE r.new
           q == [r EXCEPT !.pc = pc, !.new = new]
<1>1. /\ r \in Request /\ RequestOk(r) /\ r.kind = "policy"
      /\ policy' = [policy EXCEPT ![r.id] = row]
      /\ req' = [req EXCEPT ![c] = q]
      /\ owed' = IF r.forgets THEN owed \cup (Affected(r.old) \ Affected(row)) ELSE owed
      /\ UNCHANGED <<account, group, member, resource, live, allowed, holder>>
  BY HeldRequest DEF CommitPolicy, Typed, Shape
<1>2. r.id \in Policies /\ r.old \in PolicyRow /\ r.new \in PolicyRow
  BY <1>1 DEF RequestOk
<1>3. row \in PolicyRow
  BY <1>2, FlushedPolicy DEF Typed, TypeOK
<1> HIDE DEF row
<1>4. new \in PolicyRow /\ pc \in {"affect", "take"}
  BY <1>2, <1>3
<1> HIDE DEF new, pc, r
<1>5. /\ q \in Request /\ q.pc = pc /\ q.kind = r.kind /\ q.id = r.id /\ q.old = r.old
      /\ q.new = new /\ q.routes = r.routes /\ q.todo = r.todo
  BY <1>1, <1>4 DEF Request, Pc
<1> HIDE DEF q
<1>6. RequestOk(q)
  BY <1>1, <1>2, <1>4, <1>5 DEF RequestOk, Pc
<1>7. Shape' /\ \A d \in Clients : RequestOk(req[d])'
  BY <1>1, <1>5, <1>6, GivenRequest
<1>8. policy' \in [Policies -> PolicyRow]
  BY <1>1, <1>2, <1>3 DEF Typed, TypeOK
<1>9. owed' \subseteq Users
  BY <1>1, AffectedType DEF Typed, TypeOK
<1> QED
  BY <1>1, <1>7, <1>8, <1>9 DEF Typed, TypeOK

\* The commit of a resource.
LEMMA CommitResourceType ==
  ASSUME Typed, NEW c \in Clients, CommitResource(c)
  PROVE  Typed'
<1> DEFINE r == req[c]
           row == Flushed(r.old, r.new, resource[r.id])
           q == [r EXCEPT !.pc = "affect", !.new = row]
<1>1. /\ r \in Request /\ RequestOk(r) /\ r.kind = "resource"
      /\ resource' = [resource EXCEPT ![r.id] = row]
      /\ req' = [req EXCEPT ![c] = q]
      /\ UNCHANGED <<account, group, member, policy, live, allowed, holder, owed>>
  BY HeldRequest DEF CommitResource, Typed, Shape
<1>2. r.id \in Resources /\ r.old \in ResourceRow /\ r.new \in ResourceRow
  BY <1>1 DEF RequestOk
<1>3. row \in ResourceRow
  BY <1>2, FlushedResource DEF Typed, TypeOK
<1> HIDE DEF row, r
<1>4. /\ q \in Request /\ q.pc = "affect" /\ q.kind = r.kind /\ q.id = r.id
      /\ q.old = r.old /\ q.new = row /\ q.routes = r.routes /\ q.todo = r.todo
  BY <1>1, <1>3 DEF Request, Pc
<1> HIDE DEF q
<1>5. RequestOk(q)
  BY <1>1, <1>2, <1>3, <1>4 DEF RequestOk, Pc
<1>6. Shape' /\ \A d \in Clients : RequestOk(req[d])'
  BY <1>1, <1>4, <1>5, GivenRequest
<1>7. resource' \in [Resources -> ResourceRow]
  BY <1>1, <1>2, <1>3 DEF Typed, TypeOK
<1> QED
  BY <1>1, <1>6, <1>7 DEF Typed, TypeOK

\* The commit of a user: only groups and accounts that are there get joined.
LEMMA CommitUserType ==
  ASSUME Typed, NEW c \in Clients, CommitUser(c)
  PROVE  Typed'
<1> DEFINE r == req[c]
           q == [r EXCEPT !.pc = "take"]
           gained == {<<r.id, g>> : g \in r.new \ r.old}
           lost == {<<r.id, g>> : g \in r.old \ r.new}
<1>1. /\ r \in Request /\ RequestOk(r) /\ r.kind = "user" /\ MembershipHolds(r)
      /\ member' = (member \ lost) \cup gained
      /\ req' = [req EXCEPT ![c] = q]
      /\ UNCHANGED <<account, group, policy, resource, live, allowed, holder, owed>>
  BY HeldRequest DEF CommitUser, Typed, Shape
<1>2. r.id \in Users /\ r.old \subseteq Groups /\ r.new \subseteq Groups
  BY <1>1 DEF RequestOk
<1>3. \A m \in gained : m \in Users \X Groups /\ account[m[1]] = "on" /\ group[m[2]] \in Stored
  BY <1>1, <1>2 DEF MembershipHolds
<1> HIDE DEF gained, lost, r
<1>4. /\ q \in Request /\ q.pc = "take" /\ q.kind = r.kind /\ q.id = r.id
      /\ q.old = r.old /\ q.new = r.new
  BY <1>1 DEF Request, Pc
<1> HIDE DEF q
<1>5. RequestOk(q)
  BY <1>1, <1>4, SameChange
<1>6. Shape' /\ \A d \in Clients : RequestOk(req[d])'
  BY <1>1, <1>4, <1>5, GivenRequest
<1> QED
  BY <1>1, <1>3, <1>6 DEF Typed, TypeOK

\* Looking for the users keeps the types.
LEMMA AffectType ==
  ASSUME Typed, NEW c \in Clients, Affect(c)
  PROVE  Typed'
<1> DEFINE r == req[c]
           more == AffectedNow(r)
           q == [r EXCEPT !.todo = r.todo \cup more, !.pc = "take"]
<1>1. /\ r \in Request /\ RequestOk(r)
      /\ req' = [req EXCEPT ![c] = q]
      /\ UNCHANGED <<account, group, member, policy, resource, live, allowed, holder, owed>>
  BY HeldRequest DEF Affect, Typed, Shape
<1>2. more \in SUBSET Users
  BY AffectedType DEF AffectedNow, AffectedByResource
<1> HIDE DEF r, more
<1>3. /\ q \in Request /\ q.pc = "take" /\ q.kind = r.kind /\ q.id = r.id
      /\ q.old = r.old /\ q.new = r.new
  BY <1>1, <1>2 DEF Request, Pc
<1> HIDE DEF q
<1>4. Shape' /\ \A d \in Clients : RequestOk(req[d])'
  BY <1>1, <1>3, SameChange, GivenRequest
<1> QED
  BY <1>1, <1>4 DEF Typed, TypeOK

\* Taking the next user does.
LEMMA TakeType ==
  ASSUME Typed, NEW c \in Clients, NEW u \in Users, Take(c, u)
  PROVE  Typed'
<1> DEFINE r == req[c]
           pc == IF u \in live THEN "compute" ELSE "register"
           loaded == allowed[u]
           q == [r EXCEPT !.pc = pc, !.user = u, !.loaded = loaded]
<1>1. /\ r \in Request /\ RequestOk(r)
      /\ req' = [req EXCEPT ![c] = q]
      /\ UNCHANGED <<account, group, member, policy, resource, live, allowed, holder, owed>>
  BY HeldRequest DEF Take, Typed, Shape
<1>2. pc \in {"compute", "register"} /\ loaded \in SUBSET Address
  BY DEF Typed, TypeOK
<1> HIDE DEF r, pc, loaded
<1>3. /\ q \in Request /\ q.pc = pc /\ q.kind = r.kind /\ q.id = r.id
      /\ q.old = r.old /\ q.new = r.new /\ q.user = u
  BY <1>1, <1>2 DEF Request, Pc
<1> HIDE DEF q
<1>4. Shape' /\ \A d \in Clients : RequestOk(req[d])'
  BY <1>1, <1>3, SameChange, GivenRequest
<1> QED
  BY <1>1, <1>4 DEF Typed, TypeOK

\* Passing over a user without a peer does.
LEMMA PassOverType ==
  ASSUME Typed, NEW c \in Clients, NEW u \in Users, PassOver(c, u)
  PROVE  Typed'
<1> DEFINE r == req[c]
           q == [r EXCEPT !.todo = r.todo \ {u}]
<1>1. /\ r \in Request /\ RequestOk(r) /\ r.pc = "take"
      /\ req' = [req EXCEPT ![c] = q]
      /\ UNCHANGED <<account, group, member, policy, resource, live, allowed, holder, owed>>
  BY HeldRequest DEF PassOver, Typed, Shape
<1> HIDE DEF r
<1>2. /\ q \in Request /\ q.pc = "take" /\ q.kind = r.kind /\ q.id = r.id
      /\ q.old = r.old /\ q.new = r.new
  BY <1>1 DEF Request
<1> HIDE DEF q
<1>3. Shape' /\ \A d \in Clients : RequestOk(req[d])'
  BY <1>1, <1>2, SameChange, GivenRequest
<1> QED
  BY <1>1, <1>3 DEF Typed, TypeOK

\* Computing the routes does, for a peer or for a registration.
LEMMA ComputeType ==
  ASSUME Typed, NEW c \in Clients, Compute(c) \/ Register(c)
  PROVE  Typed'
<1> DEFINE r == req[c]
           routes == Seen(r, r.user)
<1>1. PICK pc \in {"store", "insert"} :
        /\ r \in Request /\ RequestOk(r) /\ r.pc \in {"compute", "register"}
        /\ req' = [req EXCEPT ![c] = [r EXCEPT !.pc = pc, !.routes = routes]]
        /\ UNCHANGED <<account, group, member, policy, resource, live, allowed, holder, owed>>
  <2>1. CASE Compute(c)
    BY <2>1, HeldRequest DEF Compute, Typed, Shape
  <2>2. CASE Register(c)
    BY <2>2, HeldRequest DEF Register, Typed, Shape
  <2> QED
    BY <2>1, <2>2
<1> DEFINE q == [r EXCEPT !.pc = pc, !.routes = routes]
<1>2. routes \in SUBSET Address
  BY <1>1, SeenType DEF Typed
<1>3. r.user \in Users
  BY <1>1 DEF RequestOk
<1> HIDE DEF r, routes
<1>4. /\ q \in Request /\ q.pc = pc /\ q.kind = r.kind /\ q.id = r.id
      /\ q.old = r.old /\ q.new = r.new /\ q.user = r.user
  BY <1>1, <1>2 DEF Request, Pc
<1>5. req' = [req EXCEPT ![c] = q]
  BY <1>1
<1> HIDE DEF q
<1>6. Shape' /\ \A d \in Clients : RequestOk(req[d])'
  BY <1>1, <1>3, <1>4, <1>5, SameChange, GivenRequest
<1> QED
  BY <1>1, <1>6 DEF Typed, TypeOK

\* A request that is done with a user is a request.
LEMMA UserDoneType ==
  ASSUME NEW r \in Request, RequestOk(r)
  PROVE  UserDone(r) \in Request /\ RequestOk(UserDone(r))
<1> DEFINE q == [r EXCEPT !.pc = "take", !.todo = r.todo \ {r.user}]
<1>1. /\ q \in Request /\ q.pc = "take" /\ q.kind = r.kind /\ q.id = r.id
      /\ q.old = r.old /\ q.new = r.new
  BY DEF Request, Pc
<1>2. UserDone(r) = q
  BY DEF UserDone
<1> HIDE DEF q
<1> QED
  BY <1>1, <1>2, SameChange

\* Storing the routes, inserting a peer and registering nobody keep the types.
LEMMA StoreType ==
  ASSUME Typed, NEW c \in Clients, Store(c)
  PROVE  Typed'
<1>1. /\ req[c] \in Request /\ RequestOk(req[c]) /\ req[c].pc = "store"
      /\ req' = [req EXCEPT ![c] = UserDone(req[c])]
      /\ allowed' \in {allowed, [allowed EXCEPT ![req[c].user] = req[c].routes]}
      /\ live' \in {live, live \cup {req[c].user}} /\ owed' = owed \ {req[c].user}
      /\ UNCHANGED <<account, group, member, policy, resource, holder>>
  BY HeldRequest DEF Store
<1>2. req[c].user \in Users /\ req[c].routes \in SUBSET Address
  BY <1>1 DEF RequestOk
<1>3. Shape' /\ \A d \in Clients : RequestOk(req[d])'
  BY <1>1, UserDoneType, GivenRequest
<1>4. allowed' \in [Users -> SUBSET Address] /\ live' \subseteq Users /\ owed' \subseteq Users
  BY <1>1, <1>2 DEF Typed, TypeOK
<1> QED
  BY <1>1, <1>3, <1>4 DEF Typed, TypeOK

\* The insertion.
LEMMA InsertType ==
  ASSUME Typed, NEW c \in Clients, NEW a \in Pool, Insert(c, a)
  PROVE  Typed'
<1>1. /\ req[c] \in Request /\ RequestOk(req[c]) /\ req[c].pc = "insert"
      /\ req' = [req EXCEPT ![c] = UserDone(req[c])]
      /\ holder' = [holder EXCEPT ![a] = req[c].user]
      /\ allowed' = [allowed EXCEPT ![req[c].user] = req[c].routes]
      /\ live' = live \cup {req[c].user} /\ owed' = owed \ {req[c].user}
      /\ UNCHANGED <<account, group, member, policy, resource>>
  BY HeldRequest DEF Insert
<1>2. req[c].user \in Users /\ req[c].routes \in SUBSET Address
  BY <1>1 DEF RequestOk
<1>3. Shape' /\ \A d \in Clients : RequestOk(req[d])'
  BY <1>1, UserDoneType, GivenRequest
<1>4. /\ allowed' \in [Users -> SUBSET Address] /\ live' \subseteq Users
      /\ owed' \subseteq Users /\ holder' \in [Pool -> Users \cup {NoId}]
  BY <1>1, <1>2 DEF Typed, TypeOK
<1> QED
  BY <1>1, <1>3, <1>4 DEF Typed, TypeOK

\* A user the policies give nothing.
LEMMA NothingToRegisterType ==
  ASSUME Typed, NEW c \in Clients, NothingToRegister(c)
  PROVE  Typed'
<1>1. /\ req[c] \in Request /\ RequestOk(req[c])
      /\ req' = [req EXCEPT ![c] = UserDone(req[c])]
      /\ UNCHANGED <<account, group, member, policy, resource, live, allowed, holder, owed>>
  BY HeldRequest DEF NothingToRegister
<1>2. Shape' /\ \A d \in Clients : RequestOk(req[d])'
  BY <1>1, UserDoneType, GivenRequest
<1> QED
  BY <1>1, <1>2 DEF Typed, TypeOK

\* The end of a request.
LEMMA FinishType ==
  ASSUME Typed, NEW c \in Clients, Finish(c)
  PROVE  Typed'
<1>1. Shape' /\ \A d \in Clients : RequestOk(req[d])'
  BY IdleRequest, GivenRequest DEF Finish
<1> QED
  BY <1>1 DEF Finish, Typed, TypeOK

\* All steps of a request.
LEMMA StepType ==
  ASSUME Typed, NEW c \in Clients, Step(c)
  PROVE  Typed'
BY CommitPolicyType, CommitResourceType, CommitUserType, FailType, AffectType, TakeType,
   PassOverType, ComputeType, StoreType, InsertType, NothingToRegisterType, FinishType
   DEF Step, CommitFails, RegistrationFails

\* Rows that lose their subject are rows.
LEMMA OrphanedType ==
  ASSUME NEW row \in PolicyRow, NEW id, NEW field \in {"user", "group"}
  PROVE  Orphaned(row, field, id) \in PolicyRow
BY DEF Orphaned, PolicyRow

\* The handlers of groups keep the types.
LEMMA GroupHandlerType ==
  ASSUME Typed, GroupHandler
  PROVE  Typed'
<1>1. PICK g \in Groups :
        \/ CreateGroup(g) \/ EnableGroup(g) \/ DisableGroup(g)
        \/ \E S \in SUBSET Users :
             UiCreateGroup(g, S) \/ \E state \in Stored : EditGroup(g, S, state)
        \/ \E u \in Users : AddMember(u, g) \/ RemoveMember(u, g)
        \/ GroupGone(g) /\ owed' \in {owed, owed \cup Members(g)}
  BY DEF GroupHandler, DeleteGroup, UiDeleteGroup
<1>2. UNCHANGED req => Shape' /\ \A d \in Clients : RequestOk(req[d])'
  BY SameRequests
<1>3. CASE CreateGroup(g) \/ EnableGroup(g) \/ DisableGroup(g)
  BY <1>2, <1>3
     DEF CreateGroup, EnableGroup, DisableGroup, AtOnce, Typed, TypeOK, RowState, Stored
<1>4. ASSUME NEW S \in SUBSET Users, UiCreateGroup(g, S)
      PROVE  Typed'
  BY <1>2, <1>4 DEF UiCreateGroup, AtOnce, Typed, TypeOK, RowState, Stored
<1>5. ASSUME NEW S \in SUBSET Users, NEW state \in Stored, EditGroup(g, S, state)
      PROVE  Typed'
  <2>1. Members(g) \subseteq Users
    BY DEF Members
  <2>2. /\ group' \in [Groups -> RowState] /\ group' = [group EXCEPT ![g] = state]
        /\ member' = {m \in member : m[2] # g} \cup {<<u, g>> : u \in {u \in S : account[u] = "on"}}
        /\ owed' \subseteq Users
        /\ UNCHANGED <<account, policy, resource, live, allowed, holder, req>>
    BY <1>5, <2>1 DEF EditGroup, AtOnce, Typed, TypeOK, RowState, Stored
  <2>3. /\ member' \subseteq Users \X Groups
        /\ \A m \in member' : account[m[1]] = "on" /\ group'[m[2]] \in Stored
    BY <2>2 DEF Typed, TypeOK
  <2> QED
    BY <1>2, <2>2, <2>3 DEF Typed, TypeOK
<1>6. ASSUME NEW u \in Users, AddMember(u, g) \/ RemoveMember(u, g)
      PROVE  Typed'
  <2>1. /\ member' \in {member \cup {<<u, g>>}, member \ {<<u, g>>}}
        /\ account[u] = "on" /\ group[g] \in Stored
        /\ UNCHANGED <<account, group, policy, resource, live, allowed, holder, req>>
    BY <1>6 DEF AddMember, RemoveMember, AtOnce
  <2>2. owed' \subseteq Users
    BY <1>6 DEF AddMember, RemoveMember, Typed, TypeOK
  <2>3. /\ member' \subseteq Users \X Groups
        /\ \A m \in member' : account[m[1]] = "on" /\ group[m[2]] \in Stored
    BY <2>1 DEF Typed, TypeOK
  <2> QED
    BY <1>2, <2>1, <2>2, <2>3 DEF Typed, TypeOK
<1>7. CASE GroupGone(g) /\ owed' \in {owed, owed \cup Members(g)}
  <2>1. policy' \in [Policies -> PolicyRow]
    BY <1>7, OrphanedType DEF GroupGone, Typed, TypeOK
  <2>2. owed' \subseteq Users
    BY <1>7 DEF Members, Typed, TypeOK
  <2> QED
    BY <1>2, <1>7, <2>1, <2>2 DEF GroupGone, AtOnce, Typed, TypeOK, RowState, Stored
<1> QED
  BY <1>1, <1>3, <1>4, <1>5, <1>6, <1>7

\* So do those of users that open no request, and permanent deletion.
LEMMA UserHandlerType ==
  ASSUME Typed, NEW c \in Clients, UserHandler(c)
  PROVE  Typed'
<1>1. UNCHANGED req => Shape' /\ \A d \in Clients : RequestOk(req[d])'
  BY SameRequests
<1>2. ASSUME NEW u \in Users, CreateUser(u)
      PROVE  Typed'
  BY <1>1, <1>2 DEF CreateUser, AtOnce, Typed, TypeOK
<1>3. ASSUME NEW u \in Users, DeleteUser(u) \/ UiDeleteUser(u)
      PROVE  Typed'
  <2>1. UserGone(u)
    BY <1>3 DEF DeleteUser, UiDeleteUser
  <2>2. holder' \in [Pool -> Users \cup {NoId}]
    BY <1>3 DEF DeleteUser, UiDeleteUser, Typed, TypeOK
  <2>3. policy' \in [Policies -> PolicyRow]
    BY <2>1, OrphanedType DEF UserGone, Typed, TypeOK
  <2> QED
    BY <1>1, <2>1, <2>2, <2>3 DEF UserGone, AtOnce, Typed, TypeOK
<1>4. ASSUME NEW u \in Users, DropPeer(u)
      PROVE  Typed'
  BY <1>1, <1>4 DEF DropPeer, AtOnce, Typed, TypeOK
<1>5. ASSUME NEW u \in Users, NEW gs \in SUBSET Groups, EditUser(c, u, gs)
      PROVE  Typed'
  BY <1>5, EditUserOpens, OpensType DEF Typed
<1>6. ASSUME NEW u \in Users, Enroll(c, u)
      PROVE  Typed'
  BY <1>6, EnrollOpens, OpensType DEF Typed
<1> QED
  BY <1>2, <1>3, <1>4, <1>5, <1>6 DEF UserHandler

\* Permanent deletion.
LEMMA PermanentlyDeleteType ==
  ASSUME Typed, NEW x \in Resources, PermanentlyDeleteResource(x)
  PROVE  Typed'
<1>1. Shape' /\ \A d \in Clients : RequestOk(req[d])'
  BY SameRequests DEF PermanentlyDeleteResource, AtOnce
<1>2. resource' \in [Resources -> ResourceRow]
  BY DEF PermanentlyDeleteResource, Typed, TypeOK, ResourceRow, RowState
<1> QED
  BY <1>1, <1>2 DEF PermanentlyDeleteResource, AtOnce, Typed, TypeOK

\* Every step keeps the types.
LEMMA NextType == Typed /\ [Next]_vars => Typed'
<1> SUFFICES ASSUME Typed, [Next]_vars PROVE Typed'
  OBVIOUS
<1>1. ASSUME NEW c \in Clients, Step(c) \/ Crash(c)
      PROVE  Typed'
  BY <1>1, StepType, FailType DEF Crash
<1>2. ASSUME NEW c \in Clients, PolicyHandler(c)
      PROVE  Typed'
  BY <1>2, PolicyHandlerOpens, OpensType DEF Typed
<1>3. ASSUME NEW c \in Clients, ResourceHandler(c)
      PROVE  Typed'
  BY <1>3, ResourceHandlerOpens, OpensType, PermanentlyDeleteType DEF Typed
<1>4. CASE UNCHANGED vars
  <2>1. Shape' /\ \A d \in Clients : RequestOk(req[d])'
    BY <1>4, SameRequests DEF vars
  <2> QED
    BY <1>4, <2>1 DEF vars, Typed, TypeOK
<1> QED
  BY <1>1, <1>2, <1>3, <1>4, UserHandlerType, GroupHandlerType DEF Next

\* Whatever requests overlap and whichever die half-way, the tables keep their
\* types, and every membership joins a user and a group that are still there:
\* the foreign keys of user_group and the cascades of the deletions.
THEOREM TypeCorrect == Spec => []TypeOK
<1>1. Typed => TypeOK
  BY DEF Typed
<1> QED
  BY InitType, NextType, <1>1, PTL DEF Spec

=============================================================================
