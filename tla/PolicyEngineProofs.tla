-------------------------- MODULE PolicyEngineProofs --------------------------
(***************************************************************************)
(* For every width of an address, every table of policies and every table  *)
(* of resources: the networks the engine computes hold exactly the         *)
(* addresses that are allowed and not denied, the explanations agree with  *)
(* them where they should, and aggregating them changes no address.        *)
(***************************************************************************)
EXTENDS PolicyEngine, WellFoundedInduction, TLAPS

-----------------------------------------------------------------------------
(* Induction and recursion over an interval of the naturals, from the least *)
(* element of a set: the loops of the program that the model writes as      *)
(* recursive functions are followed round by round.                         *)

\* A non-empty set of naturals has a least element.
LEMMA LeastIndex ==
  ASSUME NEW T, T \subseteq Nat, T # {}
  PROVE  \E k \in T : \A j \in T : k <= j
<1> DEFINE R == OpToRel(<, Nat)
<1>1. IsWellFoundedOn(R, Nat)
  BY NatLessThanWellFounded
<1>2. R = {ss \in Nat \X Nat : ss[1] < ss[2]}
  BY Zenon DEF OpToRel
<1> HIDE DEF R
<1>3. PICK k \in T : \A j \in T : ~(<<j, k>> \in R)
  BY <1>1, WFMin, Zenon
<1>4. ASSUME NEW j \in T, j < k PROVE FALSE
  <2>1. <<j, k>> \in Nat \X Nat
    OBVIOUS
  <2>2. <<j, k>> \in R
    BY <2>1, <1>2, <1>4
  <2> QED BY <2>2, <1>3
<1>5. \A j \in T : ~(j < k)
  BY <1>4
<1> QED BY <1>5

\* What holds of 0, and of n + 1 if it holds of n, holds up to N.
LEMMA IntervalInduction ==
  ASSUME NEW N \in Nat, NEW T, 0 \in T, \A n \in 0..(N - 1) : n \in T => n + 1 \in T
  PROVE  0..N \subseteq T
<1> DEFINE U == {n \in 0..N : n \notin T}
<1> SUFFICES ASSUME U # {} PROVE FALSE
  OBVIOUS
<1>0. U \subseteq Nat
  OBVIOUS
<1>1. PICK m \in U : \A j \in U : m <= j
  <2> HIDE DEF U
  <2> QED
    BY <1>0, LeastIndex
<1>2. m \in 0..N /\ m \notin T /\ m # 0
  OBVIOUS
<1>3. m - 1 \in 0..(N - 1) /\ (m - 1) + 1 = m
  BY <1>2
<1>4. m - 1 \notin U
  BY <1>1, <1>3
<1>5. m - 1 \in T
  BY <1>3, <1>4
<1> QED
  BY <1>2, <1>3, <1>5

\* f starts with start and takes the steps Step[1], ..., Step[N].
Iterates(f, N, S, start, Step) ==
  /\ f \in [0..N -> S]
  /\ f[0] = start
  /\ \A k \in 1..N : f[k] = Step[k][f[k - 1]]

\* A function defined from its value one place before exists.
LEMMA IntervalRecursion ==
  ASSUME NEW N \in Nat, NEW S, NEW start \in S, NEW Step \in [1..N -> [S -> S]]
  PROVE  \E f : Iterates(f, N, S, start, Step)
<1> DEFINE Upto(n) == \E f \in [0..n -> S] :
                        f[0] = start /\ \A k \in 1..n : f[k] = Step[k][f[k - 1]]
           T == {n \in 0..N : Upto(n)}
<1>1. Upto(0)
  <2> DEFINE f == [k \in 0..0 |-> start]
  <2>1. f \in [0..0 -> S] /\ f[0] = start /\ 1..0 = {}
    OBVIOUS
  <2> QED
    BY <2>1
<1>2. ASSUME NEW n \in 0..(N - 1), Upto(n) PROVE Upto(n + 1)
  <2>1. PICK f \in [0..n -> S] : f[0] = start /\ \A k \in 1..n : f[k] = Step[k][f[k - 1]]
    BY <1>2
  <2> DEFINE g == [k \in 0..(n + 1) |-> IF k \in 0..n THEN f[k] ELSE Step[n + 1][f[n]]]
  <2>2. Step[n + 1][f[n]] \in S
    <3>1. n + 1 \in 1..N /\ f[n] \in S
      OBVIOUS
    <3> QED
      BY <3>1
  <2>3. g \in [0..(n + 1) -> S]
    BY <2>2
  <2>4. g[0] = start
    BY <2>1
  <2>5. ASSUME NEW k \in 1..(n + 1) PROVE g[k] = Step[k][g[k - 1]]
    <3>1. CASE k \in 1..n
      <4>1. k \in 0..(n + 1) /\ k - 1 \in 0..(n + 1) /\ k \in 0..n /\ k - 1 \in 0..n
        BY <3>1
      <4>2. g[k] = f[k] /\ g[k - 1] = f[k - 1]
        BY <4>1
      <4> QED
        BY <2>1, <3>1, <4>2
    <3>2. CASE k = n + 1
      <4>1. k - 1 = n /\ n \in 0..(n + 1) /\ n \in 0..n /\ k \in 0..(n + 1) /\ k \notin 0..n
        BY <3>2
      <4>2. g[k] = Step[n + 1][f[n]] /\ g[k - 1] = f[n]
        BY <4>1
      <4> QED
        BY <3>2, <4>2
    <3> QED
      BY <3>1, <3>2
  <2> HIDE DEF g
  <2> QED
    BY <2>3, <2>4, <2>5
<1>3. 0 \in T /\ \A n \in 0..(N - 1) : n \in T => n + 1 \in T
  <2> HIDE DEF Upto
  <2> QED
    BY <1>1, <1>2
<1>4. 0..N \subseteq T
  <2> HIDE DEF T
  <2> QED
    BY <1>3, IntervalInduction
<1>5. Upto(N)
  <2> HIDE DEF Upto
  <2> QED
    BY <1>4
<1> QED
  BY <1>5 DEF Iterates

-----------------------------------------------------------------------------
(* Networks and their addresses.                                           *)

\* Clearing the host bits of an address makes a network.
LEMMA MaskedIsNetwork ==
  ASSUME NEW a \in Address, NEW len \in 0..Width
  PROVE  /\ Masked(a, len) \in Network
         /\ \A b \in Address :
              Covers(Masked(a, len), b) <=> \A i \in 1..len : b[i] = a[i]
<1> DEFINE bits == [i \in 1..Width |-> IF i <= len THEN a[i] ELSE 0]
<1>1. Masked(a, len) = [bits |-> bits, len |-> len]
  BY DEF Masked
<1>2. bits \in Address
  BY DEF Address, Bit
<1>3. \A i \in 1..Width : i > len => bits[i] = 0
  BY WidthAssumption
<1>4. \A i \in 1..len : i \in 1..Width /\ bits[i] = a[i]
  BY WidthAssumption
<1>5. Masked(a, len) \in [bits : Address, len : 0..Width]
  BY <1>1, <1>2
<1> HIDE DEF bits
<1>6. Masked(a, len) \in Network
  BY <1>1, <1>3, <1>5 DEF Network
<1>7. \A b \in Address : Covers(Masked(a, len), b) <=> \A i \in 1..len : b[i] = a[i]
  BY <1>1, <1>4 DEF Covers
<1> QED BY <1>6, <1>7

\* A half of a denied network is a network.
LEMMA SiblingIsNetwork ==
  ASSUME NEW d \in Network, NEW k \in 1..Width
  PROVE  /\ Sibling(d, k) \in Network
         /\ \A b \in Address :
              Covers(Sibling(d, k), b)
                <=> (\A i \in 1..(k - 1) : b[i] = d.bits[i]) /\ b[k] = 1 - d.bits[k]
<1> DEFINE bits == [i \in 1..Width |-> IF i < k THEN d.bits[i]
                                   ELSE IF i = k THEN 1 - d.bits[i] ELSE 0]
<1>1. Sibling(d, k) = [bits |-> bits, len |-> k]
  BY DEF Sibling
<1>2. \A i \in 1..Width : d.bits[i] \in {0, 1}
  BY DEF Network, Address, Bit
<1>3. \A i \in 1..Width : bits[i] \in {0, 1}
  BY <1>2, WidthAssumption
<1>4. bits \in Address
  BY <1>3 DEF Address, Bit
<1>5. \A i \in 1..Width : i > k => bits[i] = 0
  BY WidthAssumption
<1>6. /\ \A i \in 1..(k - 1) : i \in 1..Width /\ i \in 1..k /\ bits[i] = d.bits[i]
      /\ bits[k] = 1 - d.bits[k] /\ k \in 1..k
      /\ \A i \in 1..k : i = k \/ i \in 1..(k - 1)
  BY WidthAssumption
<1>7. Sibling(d, k) \in [bits : Address, len : 0..Width]
  BY <1>1, <1>4, WidthAssumption
<1> HIDE DEF bits
<1>8. Sibling(d, k) \in Network
  BY <1>1, <1>5, <1>7 DEF Network
<1>9. \A b \in Address :
        Covers(Sibling(d, k), b)
          <=> (\A i \in 1..(k - 1) : b[i] = d.bits[i]) /\ b[k] = 1 - d.bits[k]
  BY <1>1, <1>6 DEF Covers
<1> QED BY <1>8, <1>9

\* Two networks that share an address lie one inside the other.
LEMMA SharedAddress ==
  ASSUME NEW n \in Network, NEW d \in Network, NEW a \in Address,
         Covers(n, a), Covers(d, a)
  PROVE  Overlaps(n, d)
<1>1. n.len \in Nat /\ d.len \in Nat
  BY WidthAssumption DEF Network
<1>2. CASE n.len <= d.len
  BY <1>1, <1>2 DEF Covers, Overlaps, SubnetOf
<1>3. CASE d.len <= n.len
  BY <1>1, <1>3 DEF Covers, Overlaps, SubnetOf
<1> QED BY <1>1, <1>2, <1>3

\* Every address of a network is one of the network around it.
LEMMA SubnetCovers ==
  ASSUME NEW n \in Network, NEW d \in Network, NEW a \in Address,
         SubnetOf(n, d), Covers(n, a)
  PROVE  Covers(d, a)
BY WidthAssumption DEF Covers, SubnetOf, Network, Address

\* What address_exclude keeps: the first bit in which an address differs from
\* the denied network tells the half that holds it.
LEMMA ExcludeCovers ==
  ASSUME NEW n \in Network, NEW d \in Network, NEW a \in Address,
         n.len < d.len, Covers(n, d.bits)
  PROVE  Covered(AddressExclude(n, d), a) <=> Covers(n, a) /\ ~Covers(d, a)
<1>0. /\ n.len \in 0..Width /\ d.len \in 0..Width
      /\ n.bits \in Address /\ d.bits \in Address
      /\ \A i \in 1..n.len : d.bits[i] = n.bits[i]
  BY DEF Network, Covers
<1>1. ASSUME NEW k \in (n.len + 1)..d.len, Covers(Sibling(d, k), a)
      PROVE  Covers(n, a) /\ ~Covers(d, a)
  <2>1. /\ k \in 1..Width /\ k \in 1..d.len
        /\ \A i \in 1..n.len : i \in 1..(k - 1)
    BY <1>0, WidthAssumption
  <2>2. (\A i \in 1..(k - 1) : a[i] = d.bits[i]) /\ a[k] = 1 - d.bits[k]
    BY <1>1, <2>1, SiblingIsNetwork
  <2>3. Covers(n, a)
    BY <1>0, <2>1, <2>2 DEF Covers
  <2>4. d.bits[k] \in {0, 1}
    BY <1>0, <2>1 DEF Address, Bit
  <2>5. a[k] # d.bits[k]
    BY <2>2, <2>4
  <2> QED BY <2>1, <2>3, <2>5 DEF Covers
<1>2. ASSUME Covers(n, a), ~Covers(d, a)
      PROVE  \E k \in (n.len + 1)..d.len : Covers(Sibling(d, k), a)
  <2> DEFINE T == {i \in 1..d.len : a[i] # d.bits[i]}
  <2>1. T \subseteq Nat /\ T # {}
    BY <1>0, <1>2 DEF Covers
  <2>2. PICK k \in T : \A j \in T : k <= j
    BY <2>1, LeastIndex
  <2>3. k \in 1..d.len /\ a[k] # d.bits[k]
    OBVIOUS
  <2>4. \A i \in 1..(k - 1) : a[i] = d.bits[i]
    BY <1>0, <2>2, <2>3, WidthAssumption
  <2>5. k \in (n.len + 1)..d.len
    BY <1>0, <1>2, <2>3, WidthAssumption DEF Covers
  <2>6. k \in 1..Width
    BY <1>0, <2>3, WidthAssumption
  <2>7. a[k] \in {0, 1} /\ d.bits[k] \in {0, 1}
    BY <1>0, <2>6 DEF Address, Bit
  <2>8. a[k] = 1 - d.bits[k]
    BY <2>3, <2>7
  <2>9. Covers(Sibling(d, k), a)
    BY <2>4, <2>6, <2>8, SiblingIsNetwork
  <2> QED BY <2>5, <2>9
<1> QED BY <1>1, <1>2 DEF Covered, AddressExclude

\* subtract_network keeps exactly the addresses of base that are not denied.
LEMMA SubtractCovers ==
  ASSUME NEW n \in Network, NEW d \in Network
  PROVE  /\ SubtractNetwork(n, d) \subseteq Network
         /\ \A a \in Address :
              Covered(SubtractNetwork(n, d), a) <=> Covers(n, a) /\ ~Covers(d, a)
<1>1. CASE ~Overlaps(n, d)
  <2>1. SubtractNetwork(n, d) = {n}
    BY <1>1 DEF SubtractNetwork, Overlaps
  <2> QED BY <1>1, <2>1, SharedAddress DEF Covered
<1>2. CASE Overlaps(n, d) /\ SubnetOf(n, d)
  <2>1. SubtractNetwork(n, d) = {}
    BY <1>2 DEF SubtractNetwork
  <2> QED BY <1>2, <2>1, SubnetCovers DEF Covered
<1>3. CASE Overlaps(n, d) /\ ~SubnetOf(n, d)
  <2>1. SubtractNetwork(n, d) = AddressExclude(n, d)
    BY <1>3 DEF SubtractNetwork
  <2>2. n.len < d.len /\ Covers(n, d.bits)
    <3>1. n.len <= d.len /\ Covers(n, d.bits)
      BY <1>3 DEF Overlaps, SubnetOf
    <3>2. n.len # d.len
      BY <1>3, <3>1 DEF SubnetOf, Covers, Network
    <3> QED BY <3>1, <3>2 DEF Network
  <2>3. AddressExclude(n, d) \subseteq Network
    <3>1. \A k \in (n.len + 1)..d.len : k \in 1..Width
      BY WidthAssumption DEF Network
    <3> QED BY <3>1, SiblingIsNetwork DEF AddressExclude
  <2> QED BY <2>1, <2>2, <2>3, ExcludeCovers
<1> QED BY <1>1, <1>2, <1>3


\* The network of a resource holds the addresses the resource is about.
LEMMA ResourceNetwork ==
  ASSUME NEW r \in ResourceRow
  PROVE  /\ ResourceToNetwork(r) \subseteq Network
         /\ \A a \in Address : Covered(ResourceToNetwork(r), a) <=> OfResource(r, a)
<1>0. /\ r.addr \in Address /\ r.len \in 0..Width /\ Width \in 0..Width
      /\ \A i \in 1..r.len : i \in 1..Width
  BY WidthAssumption DEF ResourceRow
<1>1. CASE r.kind = "cidr"
  <2>1. ResourceToNetwork(r) = {Masked(r.addr, r.len)}
    BY <1>1 DEF ResourceToNetwork
  <2>2. \A a \in Address : OfResource(r, a) <=> \A i \in 1..r.len : a[i] = r.addr[i]
    BY <1>0, <1>1 DEF OfResource, Convertible
  <2> QED BY <1>0, <2>1, <2>2, MaskedIsNetwork DEF Covered
<1>2. CASE r.kind # "cidr" /\ r.form = "bare"
  <2>1. ResourceToNetwork(r) = {Masked(r.addr, Width)}
    BY <1>2 DEF ResourceToNetwork
  <2>2. \A a \in Address : OfResource(r, a) <=> \A i \in 1..Width : a[i] = r.addr[i]
    BY <1>2 DEF OfResource, Convertible
  <2> QED BY <1>0, <2>1, <2>2, MaskedIsNetwork DEF Covered
<1>3. CASE r.kind # "cidr" /\ r.form # "bare"
  BY <1>3 DEF ResourceToNetwork, Covered, OfResource, Convertible
<1> QED BY <1>1, <1>2, <1>3

\* The networks collected for an effect are the addresses policies name.
LEMMA CollectedNetworks ==
  ASSUME TypeOK, NEW effect
  PROVE  /\ NetworksOf(effect) \subseteq Network
         /\ \A a \in Address : Covered(NetworksOf(effect), a) <=> Named(effect, a)
<1> DEFINE K == {k \in DOMAIN policies :
                   /\ policies[k].active
                   /\ Applies(policies[k])
                   /\ resources[policies[k].resource].active
                   /\ policies[k].effect = effect}
           N(k) == ResourceToNetwork(resources[policies[k].resource])
<1>1. \A k \in DOMAIN policies : resources[policies[k].resource] \in ResourceRow
  BY TableAssumption DEF TypeOK
<1>2. \A k \in K : InForce(k, effect)
  BY DEF InForce
<1>3. \A k \in DOMAIN policies : InForce(k, effect) => k \in K
  BY DEF InForce
<1>4. \A k \in K : /\ N(k) \subseteq Network
                   /\ \A a \in Address :
                        Covered(N(k), a) <=> OfResource(resources[policies[k].resource], a)
  BY <1>1, ResourceNetwork
<1>5. NetworksOf(effect) = UNION {N(k) : k \in K}
  BY DEF NetworksOf
<1> HIDE DEF N
<1>6. \A a \in Address : Covered(UNION {N(k) : k \in K}, a) <=> \E k \in K : Covered(N(k), a)
  BY DEF Covered
<1>7. \A a \in Address :
        Named(effect, a)
          <=> \E k \in K : OfResource(resources[policies[k].resource], a)
  BY <1>2, <1>3 DEF Named
<1>8. UNION {N(k) : k \in K} \subseteq Network
  BY <1>4
<1> QED BY <1>4, <1>5, <1>6, <1>7, <1>8

\* Taking a denied network from every network of a set.
LEMMA SubtractRound ==
  ASSUME NEW nets \in SUBSET Network, NEW d \in Network
  PROVE  LET rest == UNION {SubtractNetwork(n, d) : n \in nets} IN
         /\ rest \subseteq Network
         /\ \A a \in Address :
              Covered(rest, a) <=> Covered(nets, a) /\ ~Covers(d, a)
<1> DEFINE rest == UNION {SubtractNetwork(n, d) : n \in nets}
<1>1. rest \subseteq Network
  BY SubtractCovers
<1>2. \A a \in Address :
        Covered(rest, a) <=> \E n \in nets : Covered(SubtractNetwork(n, d), a)
  BY DEF Covered
<1>3. \A a \in Address :
        Covered(rest, a) <=> Covered(nets, a) /\ ~Covers(d, a)
  BY <1>2, SubtractCovers DEF Covered
<1> QED BY <1>1, <1>3

\* The types hold initially and every step keeps them.
LEMMA TypeStep ==
  /\ Init => TypeOK
  /\ TypeOK /\ [Next]_vars => TypeOK'
<1>1. Init => TypeOK
  BY DEF Init, TypeOK
<1>2. ASSUME TypeOK, [Next]_vars PROVE TypeOK'
  <2>1. CASE Collect
    <3>1. allow' \subseteq Network /\ deny' \subseteq Network
      BY <1>2, <2>1, CollectedNetworks DEF Collect
    <3> QED BY <1>2, <2>1, <3>1 DEF Collect, TypeOK
  <2>2. ASSUME NEW n \in pending, Choose(n) PROVE TypeOK'
    BY <1>2, <2>2 DEF Choose, TypeOK
  <2>3. ASSUME NEW d \in left, Subtract(d) PROVE TypeOK'
    <3>1. current' \subseteq Network
      BY <1>2, <2>3, SubtractRound DEF Subtract, TypeOK
    <3> QED BY <1>2, <2>3, <3>1 DEF Subtract, TypeOK
  <2>4. CASE Extend
    BY <1>2, <2>4 DEF Extend, TypeOK
  <2>5. CASE Finish
    BY <1>2, <2>5 DEF Finish, TypeOK
  <2>6. CASE UNCHANGED vars
    BY <1>2, <2>6 DEF vars, TypeOK
  <2> QED BY <1>2, <2>1, <2>2, <2>3, <2>4, <2>5, <2>6 DEF Next
<1> QED BY <1>1, <1>2

\* Every variable keeps its type.
THEOREM TypeCorrect == Spec => []TypeOK
<1>1. Init => TypeOK /\ (TypeOK /\ [Next]_vars => TypeOK')
  BY TypeStep
<1> QED BY TypeStep, PTL DEF Spec


(***************************************************************************)
(* The invariant of the loops.  Every address the result holds is allowed  *)
(* and not denied; current has lost the denied networks already taken; and *)
(* an address that is allowed and not denied is in the result, in current  *)
(* or in a network still to be worked on.                                  *)
(***************************************************************************)
Collected ==
  IF stage = "collect" THEN final = {} /\ left = {}
  ELSE /\ allow = NetworksOf("allow")
       /\ deny = NetworksOf("deny")
       /\ pending \subseteq allow
       /\ left \subseteq deny
       /\ stage = "done" => pending = {}

Sound(a) ==
  /\ Covered(final, a) => Covered(allow, a) /\ ~Covered(deny, a)
  /\ stage = "subtract" /\ Covered(current, a) =>
       Covered(allow, a) /\ ~Covered(deny \ left, a)

Complete(a) ==
  Covered(allow, a) /\ ~Covered(deny, a) =>
    \/ Covered(final, a)
    \/ Covered(pending, a)
    \/ stage = "subtract" /\ Covered(current, a)

LoopInv ==
  /\ TypeOK
  /\ Collected
  /\ \A a \in Address : stage # "collect" => Sound(a) /\ Complete(a)

\* Before the loop over the policies nothing has been computed.
LEMMA LoopInit == Init => LoopInv
BY TypeStep DEF Init, LoopInv, Collected

\* Collecting the networks starts the loop with all of them to be worked on.
LEMMA LoopCollect == LoopInv /\ Collect => LoopInv'
<1> SUFFICES ASSUME LoopInv, Collect PROVE LoopInv'
  OBVIOUS
<1>1. TypeOK'
  BY TypeStep DEF LoopInv, Next
<1>2. NetworksOf("allow")' = NetworksOf("allow") /\ NetworksOf("deny")' = NetworksOf("deny")
  BY DEF Collect, NetworksOf, Applies, ResourceToNetwork, Masked
<1>3. allow' = NetworksOf("allow") /\ deny' = NetworksOf("deny") /\ pending' = allow'
  BY DEF Collect
<1>4. stage' = "choose" /\ final' = {} /\ left' = {}
  BY DEF Collect, LoopInv, Collected
<1>5. Collected'
  BY <1>2, <1>3, <1>4 DEF Collected
<1>6. ASSUME NEW a \in Address PROVE Sound(a)' /\ Complete(a)'
  BY <1>3, <1>4 DEF Sound, Complete, Covered
<1> QED BY <1>1, <1>5, <1>6 DEF LoopInv

\* Calling subtract_many moves a network from pending to current.
LEMMA LoopChoose ==
  ASSUME LoopInv, NEW n \in pending, Choose(n)
  PROVE  LoopInv'
<1>1. TypeOK'
  BY TypeStep DEF LoopInv, Next
<1>2. /\ stage = "choose" /\ stage' = "subtract"
      /\ pending' = pending \ {n} /\ current' = {n} /\ left' = deny
      /\ allow' = allow /\ deny' = deny /\ final' = final
      /\ policies' = policies /\ resources' = resources
  BY DEF Choose
<1>3. NetworksOf("allow")' = NetworksOf("allow") /\ NetworksOf("deny")' = NetworksOf("deny")
  BY <1>2 DEF NetworksOf, Applies, ResourceToNetwork, Masked
<1>4. Collected'
  BY <1>2, <1>3 DEF Collected, LoopInv
<1>5. n \in allow
  BY <1>2 DEF LoopInv, Collected
<1>6. ASSUME NEW a \in Address PROVE Sound(a)' /\ Complete(a)'
  <2>1. Sound(a) /\ Complete(a)
    BY <1>2 DEF LoopInv
  <2>2. Covered(current', a) <=> Covers(n, a)
    BY <1>2 DEF Covered
  <2>3. ~Covered(deny \ left', a)
    BY <1>2 DEF Covered
  <2>4. Covered(pending, a) => Covered(pending', a) \/ Covers(n, a)
    BY <1>2 DEF Covered
  <2>5. Covers(n, a) => Covered(allow, a)
    BY <1>5 DEF Covered
  <2>6. Sound(a)'
    BY <1>2, <2>1, <2>2, <2>3, <2>5 DEF Sound, Covered, Covers
  <2>7. Complete(a)'
    BY <1>2, <2>1, <2>2, <2>4 DEF Complete, Covered, Covers
  <2> QED BY <2>6, <2>7
<1> QED BY <1>1, <1>4, <1>6 DEF LoopInv

\* One round of subtract_many takes one denied network from current.
LEMMA LoopSubtract ==
  ASSUME LoopInv, NEW d \in left, Subtract(d)
  PROVE  LoopInv'
<1>1. TypeOK'
  BY TypeStep DEF LoopInv, Next
<1>2. /\ stage = "subtract" /\ stage' = "subtract"
      /\ current' = UNION {SubtractNetwork(m, d) : m \in current}
      /\ left' = left \ {d}
      /\ pending' = pending /\ allow' = allow /\ deny' = deny /\ final' = final
      /\ policies' = policies /\ resources' = resources
  BY DEF Subtract
<1>3. NetworksOf("allow")' = NetworksOf("allow") /\ NetworksOf("deny")' = NetworksOf("deny")
  BY <1>2 DEF NetworksOf, Applies, ResourceToNetwork, Masked
<1>4. Collected'
  BY <1>2, <1>3 DEF Collected, LoopInv
<1>5. d \in deny /\ d \in Network /\ current \in SUBSET Network
  BY <1>2 DEF LoopInv, Collected, TypeOK
<1>6. ASSUME NEW a \in Address PROVE Sound(a)' /\ Complete(a)'
  <2>1. Sound(a) /\ Complete(a)
    BY <1>2 DEF LoopInv
  <2>2. Covered(current', a) <=> Covered(current, a) /\ ~Covers(d, a)
    BY <1>2, <1>5, SubtractRound
  <2>3. Covered(deny \ left', a) => Covered(deny \ left, a) \/ Covers(d, a)
    BY <1>2 DEF Covered
  <2>4. Covers(d, a) => Covered(deny, a)
    BY <1>5 DEF Covered
  <2>5. Sound(a)'
    BY <1>2, <2>1, <2>2, <2>3 DEF Sound, Covered, Covers
  <2>6. Complete(a)'
    BY <1>2, <2>1, <2>2, <2>4 DEF Complete, Covered, Covers
  <2> QED BY <2>5, <2>6
<1> QED BY <1>1, <1>4, <1>6 DEF LoopInv

\* Adding current to the result once every denied network is taken.
LEMMA LoopExtend == LoopInv /\ Extend => LoopInv'
<1> SUFFICES ASSUME LoopInv, Extend PROVE LoopInv'
  OBVIOUS
<1>1. TypeOK'
  BY TypeStep DEF LoopInv, Next
<1>2. /\ stage = "subtract" /\ stage' = "choose" /\ left = {} /\ left' = left
      /\ final' = final \cup current
      /\ pending' = pending /\ allow' = allow /\ deny' = deny /\ current' = current
      /\ policies' = policies /\ resources' = resources
  BY DEF Extend
<1>3. NetworksOf("allow")' = NetworksOf("allow") /\ NetworksOf("deny")' = NetworksOf("deny")
  BY <1>2 DEF NetworksOf, Applies, ResourceToNetwork, Masked
<1>4. Collected'
  BY <1>2, <1>3 DEF Collected, LoopInv
<1>5. ASSUME NEW a \in Address PROVE Sound(a)' /\ Complete(a)'
  <2>1. Sound(a) /\ Complete(a)
    BY <1>2 DEF LoopInv
  <2>2. Covered(final', a) <=> Covered(final, a) \/ Covered(current, a)
    BY <1>2 DEF Covered
  <2>3. deny \ left = deny
    BY <1>2
  <2>4. Sound(a)'
    BY <1>2, <2>1, <2>2, <2>3 DEF Sound, Covered, Covers
  <2>5. Complete(a)'
    BY <1>2, <2>1, <2>2 DEF Complete, Covered, Covers
  <2> QED BY <2>4, <2>5
<1> QED BY <1>1, <1>4, <1>5 DEF LoopInv

\* The loop ends when no network is left to be worked on.
LEMMA LoopFinish == LoopInv /\ Finish => LoopInv'
<1> SUFFICES ASSUME LoopInv, Finish PROVE LoopInv'
  OBVIOUS
<1>1. TypeOK'
  BY TypeStep DEF LoopInv, Next
<1>2. /\ stage = "choose" /\ stage' = "done" /\ pending = {} /\ pending' = pending
      /\ left' = left /\ final' = final /\ current' = current
      /\ allow' = allow /\ deny' = deny
      /\ policies' = policies /\ resources' = resources
  BY DEF Finish
<1>3. NetworksOf("allow")' = NetworksOf("allow") /\ NetworksOf("deny")' = NetworksOf("deny")
  BY <1>2 DEF NetworksOf, Applies, ResourceToNetwork, Masked
<1>4. Collected'
  BY <1>2, <1>3 DEF Collected, LoopInv
<1>5. ASSUME NEW a \in Address PROVE Sound(a)' /\ Complete(a)'
  <2>1. Sound(a) /\ Complete(a)
    BY <1>2 DEF LoopInv
  <2> QED BY <1>2, <2>1 DEF Sound, Complete, Covered, Covers
<1> QED BY <1>1, <1>4, <1>5 DEF LoopInv

\* A step that changes nothing.
LEMMA LoopStutter == LoopInv /\ UNCHANGED vars => LoopInv'
BY DEF LoopInv, vars, TypeOK, Collected, Sound, Complete, Covered, Covers,
       NetworksOf, Applies, ResourceToNetwork, Masked

\* The invariant at the end of the loops says what RoutesAreExact says.
LEMMA LoopEnd == LoopInv => RoutesAreExact
<1> SUFFICES ASSUME LoopInv, stage = "done", NEW a \in Address
             PROVE  Covered(final, a) <=> Named("allow", a) /\ ~Named("deny", a)
  BY DEF RoutesAreExact
<1>1. Covered(allow, a) <=> Named("allow", a)
  BY CollectedNetworks DEF LoopInv, Collected
<1>2. Covered(deny, a) <=> Named("deny", a)
  BY CollectedNetworks DEF LoopInv, Collected
<1>3. pending = {}
  BY DEF LoopInv, Collected
<1>4. ~Covered(pending, a)
  BY <1>3 DEF Covered
<1> QED BY <1>1, <1>2, <1>4 DEF LoopInv, Sound, Complete

\* Every step keeps the invariant of the loops.
LEMMA LoopStep == LoopInv /\ [Next]_vars => LoopInv'
<1> SUFFICES ASSUME LoopInv, [Next]_vars PROVE LoopInv'
  OBVIOUS
<1> QED
  BY LoopCollect, LoopChoose, LoopSubtract, LoopExtend, LoopFinish, LoopStutter DEF Next

-----------------------------------------------------------------------------
(* The simulation.                                                         *)

Texts == [addr : Address, len : 0..Width, bare : BOOLEAN]

\* A resource has a text, with its address and a length.
LEMMA TextType ==
  ASSUME NEW r \in ResourceRow
  PROVE  ResourceToCidr(r) \in Texts
BY WidthAssumption DEF ResourceRow, ResourceToCidr, Text, Texts

\* A step of the simulation leaves a set of texts.
LEMMA SimulationStepType ==
  ASSUME TypeOK, NEW texts \in SUBSET Texts, NEW k \in DOMAIN policies
  PROVE  SimulationStep(texts, policies[k]) \in SUBSET Texts
<1>1. ResourceToCidr(resources[policies[k].resource]) \in Texts
  BY TextType, TableAssumption DEF TypeOK
<1> QED
  BY <1>1 DEF SimulationStep

\* The simulation is its steps, one policy after the other.
LEMMA SimulatedSteps ==
  ASSUME TypeOK
  PROVE  /\ Len(policies) \in Nat /\ DOMAIN policies = 1..Len(policies)
         /\ \E after \in [0..Len(policies) -> SUBSET Texts] :
              /\ \A k \in 1..Len(policies) :
                   after[k] = SimulationStep(after[k - 1], policies[k])
              /\ Simulated = after[Len(policies)]
<1> DEFINE N == Len(policies)
           start == {Text(VpnIp, Width, TRUE)}
           After(f) == [k \in 0..N |-> IF k = 0 THEN start
                                       ELSE SimulationStep(f[k - 1], policies[k])]
           Step == [k \in 1..N |-> [x \in SUBSET Texts |-> SimulationStep(x, policies[k])]]
           g == CHOOSE f : f = After(f)
<1>1. N \in Nat /\ DOMAIN policies = 1..N
  BY TableAssumption DEF TypeOK
<1>2. start \in SUBSET Texts
  BY TableAssumption, WidthAssumption DEF Text, Texts
<1>3. \A k \in 1..N : \A x \in SUBSET Texts :
        Step[k][x] = SimulationStep(x, policies[k]) /\ Step[k][x] \in SUBSET Texts
  BY <1>1, SimulationStepType
<1>4. PICK f : Iterates(f, N, SUBSET Texts, start, Step)
  <2>1. Step \in [1..N -> [SUBSET Texts -> SUBSET Texts]]
    BY <1>1, SimulationStepType
  <2> HIDE DEF start, Step, N
  <2> QED
    BY <1>1, <1>2, <2>1, IntervalRecursion
<1>5. \A k \in 1..N : f[k - 1] \in SUBSET Texts
  <2> HIDE DEF start, Step, N
  <2> QED
    BY <1>1, <1>4 DEF Iterates
<1>6. f = After(f)
  <2> HIDE DEF start, Step, N
  <2>1. \A k \in 0..N : f[k] = After(f)[k]
    BY <1>1, <1>3, <1>4, <1>5 DEF Iterates
  <2> QED
    BY <1>4, <2>1 DEF Iterates
<1>7. g = After(g)
  BY <1>6
<1>8. Simulated = g[N]
  BY DEF Simulated
<1> HIDE DEF g
<1>9. g[0] = start /\ \A k \in 1..N : g[k] = SimulationStep(g[k - 1], policies[k])
  <2> HIDE DEF start, Step, N
  <2> QED
    BY <1>1, <1>7
<1>10. \A k \in 0..N : g[k] \in SUBSET Texts
  <2> DEFINE T == {k \in 0..N : g[k] \in SUBSET Texts}
  <2>1. 0 \in T
    <3> HIDE DEF start, N
    <3> QED
      BY <1>1, <1>2, <1>9
  <2>2. ASSUME NEW k \in 0..(N - 1), k \in T PROVE k + 1 \in T
    <3>1. k + 1 \in 1..N /\ (k + 1) - 1 = k
      BY <1>1
    <3> QED
      BY <1>1, <1>9, <2>2, <3>1, SimulationStepType
  <2>3. 0..N \subseteq T
    <3> HIDE DEF T, N
    <3> QED
      BY <1>1, <2>1, <2>2, IntervalInduction
  <2> QED
    BY <2>3
<1>11. g = [k \in 0..N |-> g[k]]
  BY <1>7
<1>12. g \in [0..N -> SUBSET Texts]
  <2> HIDE DEF N
  <2> QED
    BY <1>10, <1>11
<1> QED
  BY <1>1, <1>8, <1>9, <1>12

\* The text of a resource the engine can convert says which addresses it is about.
LEMMA TextCovers ==
  ASSUME NEW r \in ResourceRow, Convertible(r), NEW a \in Address
  PROVE  LET t == ResourceToCidr(r) IN OfResource(r, a) <=> Covers(Masked(t.addr, t.len), a)
<1> DEFINE t == ResourceToCidr(r)
<1>0. Width \in Nat /\ r.len \in 0..Width /\ r.addr \in Address
  BY WidthAssumption DEF ResourceRow
<1>1. t \in Texts
  BY TextType
<1>2. t.addr = r.addr /\ t.len = IF r.kind = "cidr" THEN r.len ELSE Width
  BY DEF ResourceToCidr, Text, Convertible
<1>3. Covers(Masked(t.addr, t.len), a) <=> \A i \in 1..t.len : a[i] = t.addr[i]
  BY <1>1, MaskedIsNetwork DEF Texts
<1> HIDE DEF t
<1>4. OfResource(r, a) <=> \A i \in 1..t.len : a[i] = t.addr[i]
  BY <1>0, <1>2 DEF OfResource
<1> QED
  BY <1>3, <1>4 DEF t

\* An allowed text stays to the end of the simulation unless a later policy denies it.
LEMMA SimulatedKeeps ==
  ASSUME TypeOK, NEW k \in DOMAIN policies,
         NEW t, t = ResourceToCidr(resources[policies[k].resource]),
         InForce(k, "allow"),
         \A j \in DOMAIN policies :
           /\ policies[j].active /\ InSimulation(policies[j])
           /\ resources[policies[j].resource].active
           /\ ResourceToCidr(resources[policies[j].resource]) = t
           => policies[j].effect = "allow"
  PROVE  t \in Simulated
<1> DEFINE N == Len(policies)
<1>1. PICK after \in [0..N -> SUBSET Texts] :
        /\ \A j \in 1..N : after[j] = SimulationStep(after[j - 1], policies[j])
        /\ Simulated = after[N]
  BY SimulatedSteps
<1>2. N \in Nat /\ DOMAIN policies = 1..N
  BY SimulatedSteps
<1> HIDE DEF N
<1> DEFINE T == {j \in 0..N : j >= k => t \in after[j]}
<1>3. 0 \in T
  BY <1>2
<1>4. ASSUME NEW j \in 0..(N - 1), j \in T PROVE j + 1 \in T
  <2>1. j + 1 \in 1..N /\ (j + 1) - 1 = j /\ j + 1 \in DOMAIN policies
    BY <1>2
  <2>2. after[j + 1] = SimulationStep(after[j], policies[j + 1])
    BY <1>1, <2>1
  <2>3. CASE k = j + 1
    <3>1. /\ policies[k].active /\ InSimulation(policies[k])
          /\ resources[policies[k].resource].active /\ policies[k].effect = "allow"
      BY SubjectAssumption DEF InForce, Applies, InSimulation
    <3> QED
      BY <1>2, <2>1, <2>2, <2>3, <3>1 DEF SimulationStep
  <2>4. CASE k <= j
    <3>1. t \in after[j]
      BY <1>4, <2>4
    <3>2. t \in SimulationStep(after[j], policies[j + 1])
      BY <2>1, <3>1 DEF SimulationStep
    <3> QED
      BY <1>2, <2>1, <2>2, <3>2
  <2>5. CASE k > j + 1
    BY <1>2, <2>1, <2>5
  <2> QED
    BY <1>2, <2>1, <2>3, <2>4, <2>5
<1>5. 0..N \subseteq T
  <2> HIDE DEF T
  <2> QED
    BY <1>2, <1>3, <1>4, IntervalInduction
<1> QED
  BY <1>1, <1>2, <1>5

\* What the engine routes, the simulation shows.
LEMMA SimulationEnd == LoopInv => SimulationHidesNothing
<1> SUFFICES ASSUME LoopInv, stage = "done", NEW a \in Address, Covered(final, a),
                    ~\E k \in DOMAIN policies : SimulatedOnly(policies[k])
             PROVE  SimulationCovers(a)
  BY DEF SimulationHidesNothing
<1>1. TypeOK /\ \A k \in DOMAIN policies : resources[policies[k].resource] \in ResourceRow
  BY TableAssumption DEF LoopInv, TypeOK
<1>2. Named("allow", a) /\ ~Named("deny", a)
  BY LoopEnd DEF RoutesAreExact
<1>3. PICK k \in DOMAIN policies :
        InForce(k, "allow") /\ OfResource(resources[policies[k].resource], a)
  BY <1>2 DEF Named
<1> DEFINE r == resources[policies[k].resource]
           t == ResourceToCidr(r)
<1>4. Convertible(r) /\ Covers(Masked(t.addr, t.len), a)
  BY <1>1, <1>3, TextCovers DEF OfResource
<1>5. ASSUME NEW j \in DOMAIN policies,
             policies[j].active, InSimulation(policies[j]),
             resources[policies[j].resource].active,
             ResourceToCidr(resources[policies[j].resource]) = t,
             policies[j].effect # "allow"
      PROVE  FALSE
  <2>1. policies[j].effect = "deny"
    BY <1>1, <1>5, TableAssumption DEF TypeOK
  <2>2. Applies(policies[j]) /\ Convertible(resources[policies[j].resource])
    BY <1>5, <2>1 DEF SimulatedOnly
  <2>3. OfResource(resources[policies[j].resource], a)
    BY <1>1, <1>4, <1>5, <2>2, TextCovers
  <2> QED
    BY <1>2, <1>5, <2>1, <2>2, <2>3 DEF Named, InForce
<1>6. t \in Simulated
  <2> HIDE DEF t
  <2> QED
    BY <1>1, <1>3, <1>5, SimulatedKeeps DEF t
<1> QED
  BY <1>4, <1>6 DEF SimulationCovers

-----------------------------------------------------------------------------
(* The decisions.                                                          *)

\* A policy with one subject applies to me in the explanations as in the engine.
LEMMA SameSubjects ==
  ASSUME SingleSubjects, NEW k \in DOMAIN policies
  PROVE  PolicyApplies(policies[k]) <=> Applies(policies[k])
BY SubjectAssumption DEF SingleSubjects, PolicyApplies, Applies

\* The policies a decision is made of are those in force.
LEMMA MatchedInForce ==
  ASSUME TypeOK, SingleSubjects, NEW r \in DOMAIN resources, resources[r].active,
         NEW effect
  PROVE  effect \in Effects(MatchedPolicies(r)) <=>
           \E k \in DOMAIN policies : InForce(k, effect) /\ policies[k].resource = r
BY SameSubjects DEF Effects, MatchedPolicies, InForce

\* A decision on the effects of the policies in force for a resource is carried out
\* by the routes.
LEMMA DecisionFollows ==
  ASSUME LoopInv, stage = "done", SingleSubjects,
         NEW r \in DOMAIN resources, resources[r].active
  PROVE  RoutesFollow(r, Decision(r))
<1> DEFINE E(s) == Effects(MatchedPolicies(s))
<1>1. TypeOK
  BY DEF LoopInv
<1>2. \A k \in DOMAIN policies : /\ policies[k].effect \in {"allow", "deny"}
                                 /\ policies[k].resource \in DOMAIN resources
  BY <1>1, TableAssumption DEF TypeOK
<1>3. ASSUME NEW s \in DOMAIN resources, resources[s].active, NEW effect
      PROVE  effect \in E(s) <=>
               \E k \in DOMAIN policies : InForce(k, effect) /\ policies[k].resource = s
  BY <1>1, <1>3, MatchedInForce
<1>4. \A s : Decision(s) = IF "deny" \in E(s) THEN "deny"
                           ELSE IF "allow" \in E(s) THEN "allow" ELSE "none"
  BY DEF Decision, DecisionOn
<1> HIDE DEF E
<1> SUFFICES ASSUME NEW a \in Address, OfResource(resources[r], a)
             PROVE  /\ Decision(r) = "deny" => ~Covered(final, a)
                    /\ Decision(r) = "allow" /\ ~Covered(final, a) =>
                         \E k \in DOMAIN policies :
                           /\ InForce(k, "deny") /\ policies[k].resource # r
                           /\ OfResource(resources[policies[k].resource], a)
                    /\ Decision(r) = "none" /\ Covered(final, a) =>
                         \E s \in DOMAIN resources :
                           s # r /\ Allowed(s) /\ OfResource(resources[s], a)
  BY <1>4 DEF RoutesFollow
<1>5. Covered(final, a) <=> Named("allow", a) /\ ~Named("deny", a)
  BY LoopEnd DEF RoutesAreExact
<1>6. CASE Decision(r) = "deny"
  <2>1. PICK k \in DOMAIN policies : InForce(k, "deny") /\ policies[k].resource = r
    BY <1>3, <1>4, <1>6
  <2> QED
    BY <1>5, <1>6, <2>1 DEF Named
<1>7. CASE Decision(r) = "allow"
  <2>1. PICK k \in DOMAIN policies : InForce(k, "allow") /\ policies[k].resource = r
    BY <1>3, <1>4, <1>7
  <2>2. Named("allow", a)
    BY <2>1 DEF Named
  <2>3. \A j \in DOMAIN policies : InForce(j, "deny") => policies[j].resource # r
    BY <1>3, <1>4, <1>7
  <2> QED
    BY <1>5, <1>7, <2>2, <2>3 DEF Named
<1>8. CASE Decision(r) = "none"
  <2> SUFFICES ASSUME Covered(final, a)
               PROVE  \E s \in DOMAIN resources :
                        s # r /\ Allowed(s) /\ OfResource(resources[s], a)
    BY <1>8
  <2>1. PICK k \in DOMAIN policies :
          InForce(k, "allow") /\ OfResource(resources[policies[k].resource], a)
    BY <1>5 DEF Named
  <2> DEFINE s == policies[k].resource
  <2>2. s \in DOMAIN resources /\ resources[s].active
    BY <1>2, <2>1 DEF InForce
  <2>3. s # r
    BY <1>3, <1>4, <1>8, <2>1
  <2>4. "allow" \in E(s)
    BY <1>3, <2>1, <2>2
  <2>5. "deny" \notin E(s)
    BY <1>3, <1>5, <2>1, <2>2 DEF Named
  <2>6. Allowed(s)
    BY <1>4, <2>2, <2>4, <2>5 DEF Allowed
  <2> QED
    BY <2>1, <2>2, <2>3, <2>6
<1> QED
  BY <1>4, <1>6, <1>7, <1>8

\* So are the decisions of both explanations.
LEMMA DecisionsEnd == LoopInv => DecisionsMatchRoutes
<1> SUFFICES ASSUME LoopInv, stage = "done", SingleSubjects, NEW r \in DOMAIN UserAccess
             PROVE  /\ RoutesFollow(r, UserAccess[r])
                    /\ (\A k \in DOMAIN policies :
                         policies[k].resource = r =>
                           policies[k].active /\ policies[k].group \notin MyGroups)
                       => RoutesFollow(r, DebugDecision(r))
  BY DEF DecisionsMatchRoutes
<1>1. r \in DOMAIN resources /\ resources[r].active /\ UserAccess[r] = Decision(r)
  BY DEF UserAccess
<1>2. RoutesFollow(r, Decision(r))
  BY <1>1, DecisionFollows
<1>3. ASSUME \A k \in DOMAIN policies :
               policies[k].resource = r =>
                 policies[k].active /\ policies[k].group \notin MyGroups
      PROVE  DebugDecision(r) = Decision(r)
  <2>1. MatchedPolicies(r) = {k \in DOMAIN policies :
                                policies[k].resource = r /\ policies[k].user = Me}
    BY <1>3, SameSubjects DEF MatchedPolicies, Applies
  <2> QED
    BY <2>1 DEF DebugDecision, Decision
<1> QED
  BY <1>1, <1>2, <1>3

-----------------------------------------------------------------------------
(* aggregate_cidrs.                                                        *)

\* A network inside another holds none of the addresses the other does not, and is
\* the other if it is as long.
LEMMA SubnetFacts ==
  ASSUME NEW m \in Network, NEW n \in Network, SubnetOf(m, n)
  PROVE  /\ \A l \in Network : SubnetOf(n, l) => SubnetOf(m, l)
         /\ m.len = n.len => m = n
<1>0. /\ m.len \in 0..Width /\ n.len \in 0..Width /\ m.bits \in Address /\ n.bits \in Address
      /\ Width \in Nat
  BY WidthAssumption DEF Network
<1>1. ASSUME NEW l \in Network, SubnetOf(n, l) PROVE SubnetOf(m, l)
  <2>1. l.len \in 0..Width
    BY DEF Network
  <2> QED
    BY <1>0, <1>1, <2>1 DEF SubnetOf, Covers
<1>2. ASSUME m.len = n.len PROVE m = n
  <2>1. \A i \in 1..Width : m.bits[i] = n.bits[i]
    BY <1>0, <1>2 DEF SubnetOf, Covers, Network
  <2>2. m.bits = n.bits
    BY <1>0, <2>1 DEF Address
  <2> QED
    BY <1>2, <2>2 DEF Network
<1> QED
  BY <1>1, <1>2

\* No network lies inside another one of the set.
Apart(nets) == \A m, n \in nets : SubnetOf(m, n) => m = n

\* Both sets hold the same addresses.
SameAddresses(nets, others) == \A a \in Address : Covered(nets, a) <=> Covered(others, a)

\* collapse_addresses drops networks and no address.
LEMMA WithoutNestedKeeps ==
  ASSUME NEW nets \in SUBSET Network
  PROVE  /\ WithoutNested(nets) \in SUBSET Network
         /\ SameAddresses(WithoutNested(nets), nets)
         /\ Apart(WithoutNested(nets))
<1>1. WithoutNested(nets) \subseteq nets /\ Apart(WithoutNested(nets))
  BY DEF WithoutNested, Apart
<1>2. ASSUME NEW n \in nets PROVE \E m \in WithoutNested(nets) : SubnetOf(n, m)
  <2> DEFINE around == {m \in nets : SubnetOf(n, m)}
             lens == {m.len : m \in around}
  <2>1. n \in around /\ around \subseteq Network
    BY DEF SubnetOf, Covers, Network
  <2>2. lens \subseteq Nat /\ lens # {}
    BY <2>1, WidthAssumption DEF Network
  <2>3. PICK k \in lens : \A j \in lens : k <= j
    <3> HIDE DEF lens
    <3> QED
      BY <2>2, LeastIndex
  <2>4. PICK m \in around : m.len = k
    BY <2>3
  <2>5. m \in nets /\ SubnetOf(n, m)
    BY <2>4
  <2>6. ASSUME NEW l \in nets, l # m, SubnetOf(m, l) PROVE FALSE
    <3>1. l \in around /\ l.len \in lens
      BY <2>5, <2>6, SubnetFacts
    <3>2. m.len <= l.len /\ l.len <= m.len
      BY <2>3, <2>4, <2>6, <3>1 DEF SubnetOf
    <3>3. m.len \in Nat /\ l.len \in Nat
      BY <2>5, WidthAssumption DEF Network
    <3> QED
      BY <2>5, <2>6, <3>2, <3>3, SubnetFacts
  <2> QED
    BY <2>5, <2>6 DEF WithoutNested
<1>3. SameAddresses(WithoutNested(nets), nets)
  <2> SUFFICES ASSUME NEW a \in Address, NEW n \in nets, Covers(n, a)
               PROVE  Covered(WithoutNested(nets), a)
    BY <1>1 DEF SameAddresses, Covered
  <2>1. PICK m \in WithoutNested(nets) : SubnetOf(n, m)
    BY <1>2
  <2>2. Covers(m, a)
    BY <1>1, <2>1, SubnetCovers
  <2> QED
    BY <2>2 DEF Covered
<1> QED
  BY <1>1, <1>3

\* The network of two halves: what it holds, and that it is no longer than either.
LEMMA ParentFacts ==
  ASSUME NEW n \in Network, n.len > 0
  PROVE  /\ Sibling(n, n.len) \in Network /\ Sibling(n, n.len).len = n.len
         /\ Parent(n) \in Network /\ Parent(n).len = n.len - 1
         /\ SubnetOf(n, Parent(n)) /\ SubnetOf(Sibling(n, n.len), Parent(n))
         /\ Parent(Sibling(n, n.len)) = Parent(n)
         /\ Sibling(Sibling(n, n.len), n.len) = n
         /\ \A a \in Address :
              Covers(Parent(n), a) <=> Covers(n, a) \/ Covers(Sibling(n, n.len), a)
<1> DEFINE s == Sibling(n, n.len)
<1>0. n.len \in 1..Width /\ n.len - 1 \in 0..Width /\ n.bits \in Address /\ Width \in Nat
  BY WidthAssumption DEF Network
<1>1. /\ s \in Network /\ s.len = n.len /\ s.bits \in Address
      /\ \A b \in Address :
           Covers(s, b) <=> (\A i \in 1..(n.len - 1) : b[i] = n.bits[i])
                              /\ b[n.len] = 1 - n.bits[n.len]
  BY <1>0, SiblingIsNetwork DEF Sibling, Network
<1>2. /\ Parent(n) \in Network /\ Parent(n).len = n.len - 1
      /\ \A b \in Address :
           Covers(Parent(n), b) <=> \A i \in 1..(n.len - 1) : b[i] = n.bits[i]
  BY <1>0, MaskedIsNetwork DEF Parent, Masked
<1>3. \A b \in Address :
        Covers(n, b) <=> (\A i \in 1..(n.len - 1) : b[i] = n.bits[i]) /\ b[n.len] = n.bits[n.len]
  BY <1>0 DEF Covers
<1>4. ASSUME NEW a \in Address
      PROVE  Covers(Parent(n), a) <=> Covers(n, a) \/ Covers(s, a)
  <2>1. a[n.len] \in {0, 1} /\ n.bits[n.len] \in {0, 1}
    BY <1>0 DEF Address, Bit
  <2>2. a[n.len] = n.bits[n.len] \/ a[n.len] = 1 - n.bits[n.len]
    BY <2>1
  <2> QED
    BY <1>1, <1>2, <1>3, <2>2
<1>5. \A i \in 1..Width : s.bits[i] = IF i < n.len THEN n.bits[i]
                                      ELSE IF i = n.len THEN 1 - n.bits[i] ELSE 0
  BY DEF Sibling
<1>6. SubnetOf(n, Parent(n)) /\ SubnetOf(s, Parent(n))
  <2>1. Covers(Parent(n), n.bits) /\ Covers(Parent(n), s.bits)
    BY <1>0, <1>1, <1>2, <1>5
  <2> QED
    BY <1>0, <1>1, <1>2, <2>1 DEF SubnetOf
<1>7. Parent(s) = Parent(n)
  <2>1. \A i \in 1..Width : (IF i <= n.len - 1 THEN s.bits[i] ELSE 0)
                              = (IF i <= n.len - 1 THEN n.bits[i] ELSE 0)
    BY <1>0, <1>5
  <2> HIDE DEF s
  <2> QED
    BY <1>0, <1>1, <2>1 DEF Parent, Masked
<1>8. Sibling(s, n.len) = n
  <2> DEFINE back == [i \in 1..Width |-> IF i < n.len THEN s.bits[i]
                                         ELSE IF i = n.len THEN 1 - s.bits[i] ELSE 0]
  <2>1. \A i \in 1..Width : n.bits[i] \in {0, 1} /\ (i > n.len => n.bits[i] = 0)
    BY DEF Network, Address, Bit
  <2> HIDE DEF s
  <2>2. \A i \in 1..Width : back[i] = n.bits[i]
    BY <1>0, <1>5, <2>1
  <2>3. back = n.bits
    BY <1>0, <2>2 DEF Address
  <2> HIDE DEF back
  <2> QED
    BY <2>3 DEF Sibling, Network, back
<1> QED
  BY <1>1, <1>2, <1>4, <1>6, <1>7, <1>8

\* What is inside the network of two halves is that network or inside a half.
LEMMA InsideParent ==
  ASSUME NEW n \in Network, n.len > 0, NEW m \in Network, SubnetOf(m, Parent(n))
  PROVE  \/ m = Parent(n)
         \/ SubnetOf(m, n)
         \/ SubnetOf(m, Sibling(n, n.len))
<1>1. /\ m.bits \in Address /\ m.len \in Nat /\ n.len \in Nat
      /\ Parent(n) \in Network /\ Parent(n).len = n.len - 1
      /\ Sibling(n, n.len).len = n.len
  BY ParentFacts, WidthAssumption DEF Network
<1>2. Covers(n, m.bits) \/ Covers(Sibling(n, n.len), m.bits)
  BY <1>1, ParentFacts DEF SubnetOf
<1>3. m.len = n.len - 1 \/ n.len <= m.len
  BY <1>1 DEF SubnetOf
<1>4. m.len = n.len - 1 => m = Parent(n)
  BY <1>1, SubnetFacts
<1> QED
  BY <1>1, <1>2, <1>3, <1>4 DEF SubnetOf

\* The sibling of a network that has one has one too.
LEMMA SiblingHasSibling ==
  ASSUME NEW nets \in SUBSET Network, NEW n \in nets, HasSibling(n, nets)
  PROVE  /\ n.len > 0 /\ Sibling(n, n.len) \in nets
         /\ HasSibling(Sibling(n, n.len), nets)
BY ParentFacts DEF HasSibling

\* What a round of the merge loop leaves is a network that had no sibling or the
\* network of two that had each other.
LEMMA MergedIs ==
  ASSUME NEW nets \in SUBSET Network, NEW x
  PROVE  x \in MergeSiblings(nets) <=>
           \/ x \in nets /\ ~HasSibling(x, nets)
           \/ \E n \in nets : HasSibling(n, nets) /\ x = Parent(n)
BY DEF MergeSiblings

\* A round keeps the addresses.
LEMMA MergeKeeps ==
  ASSUME NEW nets \in SUBSET Network
  PROVE  MergeSiblings(nets) \in SUBSET Network /\ SameAddresses(MergeSiblings(nets), nets)
<1>1. MergeSiblings(nets) \subseteq Network
  BY MergedIs, SiblingHasSibling, ParentFacts
<1>2. ASSUME NEW a \in Address, NEW x \in MergeSiblings(nets), Covers(x, a)
      PROVE  Covered(nets, a)
  <2>1. CASE x \in nets
    BY <1>2, <2>1 DEF Covered
  <2>2. ASSUME NEW n \in nets, HasSibling(n, nets), x = Parent(n) PROVE Covered(nets, a)
    BY <1>2, <2>2, SiblingHasSibling, ParentFacts DEF Covered
  <2> QED
    BY <2>1, <2>2, MergedIs
<1>3. ASSUME NEW a \in Address, NEW n \in nets, Covers(n, a)
      PROVE  Covered(MergeSiblings(nets), a)
  <2>1. CASE HasSibling(n, nets)
    <3>1. Parent(n) \in MergeSiblings(nets) /\ Covers(Parent(n), a)
      BY <1>3, <2>1, MergedIs, SiblingHasSibling, ParentFacts
    <3> QED
      BY <3>1 DEF Covered
  <2>2. CASE ~HasSibling(n, nets)
    BY <1>3, <2>2, MergedIs DEF Covered
  <2> QED
    BY <2>1, <2>2
<1> QED
  BY <1>1, <1>2, <1>3 DEF SameAddresses, Covered

\* A round keeps networks apart.
LEMMA MergeApart ==
  ASSUME NEW nets \in SUBSET Network, Apart(nets)
  PROVE  Apart(MergeSiblings(nets))
<1> SUFFICES ASSUME NEW x \in MergeSiblings(nets), NEW y \in MergeSiblings(nets),
                    SubnetOf(x, y)
             PROVE  x = y
  BY DEF Apart
<1>0. x \in Network /\ y \in Network
  BY MergeKeeps
<1>1. CASE x \in nets /\ y \in nets
  BY <1>1 DEF Apart
<1>2. ASSUME NEW n \in nets, HasSibling(n, nets), y = Parent(n), NEW m \in nets,
             SubnetOf(m, y)
      PROVE  m = y \/ m = n \/ m = Sibling(n, n.len)
  <2>1. n.len > 0 /\ Sibling(n, n.len) \in nets
    BY <1>2, SiblingHasSibling
  <2> QED
    BY <1>2, <2>1, InsideParent DEF Apart
<1>3. ASSUME x \in nets, ~HasSibling(x, nets),
             NEW n \in nets, HasSibling(n, nets), y = Parent(n)
      PROVE  x = y
  BY <1>2, <1>3, SiblingHasSibling
<1>4. ASSUME NEW m \in nets, HasSibling(m, nets), x = Parent(m), y \in nets
      PROVE  FALSE
  <2>1. /\ m.len > 0 /\ SubnetOf(m, x) /\ x.len = m.len - 1
        /\ m.len \in Nat /\ y.len \in Nat
    BY <1>4, SiblingHasSibling, ParentFacts, WidthAssumption DEF Network
  <2>2. SubnetOf(m, y)
    BY <1>0, <2>1, SubnetFacts
  <2>3. m = y
    BY <1>4, <2>2 DEF Apart
  <2> QED
    BY <2>1, <2>3 DEF SubnetOf
<1>5. ASSUME NEW m \in nets, HasSibling(m, nets), x = Parent(m),
             NEW n \in nets, HasSibling(n, nets), y = Parent(n)
      PROVE  x = y
  <2>1. /\ m.len > 0 /\ SubnetOf(m, x) /\ x.len = m.len - 1
        /\ n.len > 0 /\ y.len = n.len - 1
        /\ m.len \in Nat /\ n.len \in Nat
    BY <1>5, SiblingHasSibling, ParentFacts, WidthAssumption DEF Network
  <2>2. SubnetOf(m, y)
    BY <1>0, <2>1, SubnetFacts
  <2>3. m = y \/ m = n \/ m = Sibling(n, n.len)
    BY <1>2, <1>5, <2>2
  <2>4. m # y
    BY <2>1 DEF SubnetOf
  <2> QED
    BY <1>5, <2>1, <2>3, <2>4, ParentFacts
<1> QED
  BY <1>1, <1>3, <1>4, <1>5, MergedIs

\* The networks that can still merge have at most len bits.
Mergeable(nets, len) == \A n \in nets : HasSibling(n, nets) => n.len <= len

\* A round takes a bit off the networks that can still merge.
LEMMA MergeShortens ==
  ASSUME NEW nets \in SUBSET Network, NEW len \in Int, Mergeable(nets, len)
  PROVE  Mergeable(MergeSiblings(nets), len - 1)
<1> SUFFICES ASSUME NEW n \in MergeSiblings(nets), HasSibling(n, MergeSiblings(nets))
             PROVE  n.len <= len - 1
  BY DEF Mergeable
<1>1. ASSUME NEW m \in nets, HasSibling(m, nets) PROVE Parent(m).len <= len - 1
  <2>1. m.len <= len /\ m.len \in Nat /\ Parent(m).len = m.len - 1
    BY <1>1, SiblingHasSibling, ParentFacts, WidthAssumption DEF Mergeable, Network
  <2> QED
    BY <2>1
<1>2. /\ n \in Network /\ n.len > 0
      /\ Sibling(n, n.len) \in MergeSiblings(nets) /\ Sibling(n, n.len).len = n.len
  BY MergeKeeps, ParentFacts DEF HasSibling
<1>3. CASE n \in nets /\ ~HasSibling(n, nets)
  <2>1. Sibling(n, n.len) \notin nets
    BY <1>2, <1>3 DEF HasSibling
  <2> QED
    BY <1>1, <1>2, <2>1, MergedIs
<1> QED
  BY <1>1, <1>3, MergedIs

\* aggregate_cidrs is its rounds, one after the other.
LEMMA AggregateRounds ==
  ASSUME NEW nets \in SUBSET Network
  PROVE  \E after \in [0..Width -> SUBSET Network] :
           /\ after[0] = WithoutNested(nets)
           /\ \A k \in 1..Width : after[k] = MergeSiblings(after[k - 1])
           /\ AggregateCidrs(nets) = after[Width]
<1> DEFINE start == WithoutNested(nets)
           After(f) == [k \in 0..Width |-> IF k = 0 THEN start ELSE MergeSiblings(f[k - 1])]
           Step == [k \in 1..Width |-> [x \in SUBSET Network |-> MergeSiblings(x)]]
           g == CHOOSE f : f = After(f)
<1>1. Width \in Nat /\ start \in SUBSET Network
  BY WidthAssumption, WithoutNestedKeeps
<1>2. Step \in [1..Width -> [SUBSET Network -> SUBSET Network]]
  BY MergeKeeps
<1>3. PICK f : Iterates(f, Width, SUBSET Network, start, Step)
  <2> HIDE DEF start, Step
  <2> QED
    BY <1>1, <1>2, IntervalRecursion
<1>4. \A k \in 1..Width : f[k - 1] \in SUBSET Network
  <2> HIDE DEF start, Step
  <2> QED
    BY <1>1, <1>3 DEF Iterates
<1>5. f = After(f)
  <2>1. \A k \in 1..Width : \A x \in SUBSET Network : Step[k][x] = MergeSiblings(x)
    OBVIOUS
  <2> HIDE DEF start, Step
  <2>2. \A k \in 0..Width : f[k] = After(f)[k]
    BY <1>1, <1>3, <1>4, <2>1 DEF Iterates
  <2> QED
    BY <1>3, <2>2 DEF Iterates
<1>6. g = After(g)
  BY <1>5
<1>7. AggregateCidrs(nets) = g[Width]
  BY DEF AggregateCidrs
<1> HIDE DEF g
<1>8. g[0] = start /\ \A k \in 1..Width : g[k] = MergeSiblings(g[k - 1])
  <2> HIDE DEF start
  <2> QED
    BY <1>1, <1>6
<1>9. \A k \in 0..Width : g[k] \in SUBSET Network
  <2> DEFINE T == {k \in 0..Width : g[k] \in SUBSET Network}
  <2>1. 0 \in T
    <3> HIDE DEF start
    <3> QED
      BY <1>1, <1>8
  <2>2. ASSUME NEW k \in 0..(Width - 1), k \in T PROVE k + 1 \in T
    <3>1. k + 1 \in 1..Width /\ (k + 1) - 1 = k
      BY <1>1
    <3> QED
      BY <1>1, <1>8, <2>2, <3>1, MergeKeeps
  <2>3. 0..Width \subseteq T
    <3> HIDE DEF T
    <3> QED
      BY <1>1, <2>1, <2>2, IntervalInduction
  <2> QED
    BY <2>3
<1>10. g = [k \in 0..Width |-> g[k]]
  BY <1>6
<1>11. g \in [0..Width -> SUBSET Network]
  BY <1>9, <1>10
<1> QED
  BY <1>7, <1>8, <1>11

\* aggregate_cidrs keeps the addresses and leaves networks that lie apart and of
\* which no two are the halves of one.
LEMMA AggregateFacts ==
  ASSUME NEW nets \in SUBSET Network
  PROVE  /\ SameAddresses(AggregateCidrs(nets), nets)
         /\ Apart(AggregateCidrs(nets))
         /\ \A n \in AggregateCidrs(nets) : ~HasSibling(n, AggregateCidrs(nets))
<1>1. PICK after \in [0..Width -> SUBSET Network] :
        /\ after[0] = WithoutNested(nets)
        /\ \A k \in 1..Width : after[k] = MergeSiblings(after[k - 1])
        /\ AggregateCidrs(nets) = after[Width]
  BY AggregateRounds
<1> DEFINE T == {k \in 0..Width : /\ SameAddresses(after[k], nets)
                                  /\ Apart(after[k])
                                  /\ Mergeable(after[k], Width - k)}
<1>2. 0 \in T
  <2>1. Mergeable(after[0], Width - 0)
    BY <1>1, WidthAssumption DEF Mergeable, Network
  <2> QED
    BY <1>1, <2>1, WithoutNestedKeeps, WidthAssumption
<1>3. ASSUME NEW k \in 0..(Width - 1), k \in T PROVE k + 1 \in T
  <2>1. /\ k + 1 \in 1..Width /\ (k + 1) - 1 = k /\ k \in 0..Width
        /\ Width - k \in Int /\ (Width - k) - 1 = Width - (k + 1)
    BY WidthAssumption
  <2>2. after[k + 1] = MergeSiblings(after[k]) /\ after[k] \in SUBSET Network
    BY <1>1, <2>1
  <2>3. SameAddresses(after[k + 1], nets)
    BY <1>3, <2>2, MergeKeeps DEF SameAddresses
  <2>4. Apart(after[k + 1])
    BY <1>3, <2>2, MergeApart
  <2>5. Mergeable(after[k + 1], Width - (k + 1))
    BY <1>3, <2>1, <2>2, MergeShortens
  <2> QED
    BY <2>1, <2>3, <2>4, <2>5
<1>4. Width \in T
  <2> HIDE DEF T
  <2>1. 0..Width \subseteq T
    BY <1>2, <1>3, IntervalInduction, WidthAssumption
  <2> QED
    BY <2>1, WidthAssumption
<1>5. Mergeable(after[Width], 0)
  BY <1>4, WidthAssumption
<1>6. \A n \in after[Width] : ~HasSibling(n, after[Width])
  <2>1. \A n \in after[Width] : n.len \in Nat
    BY <1>1, WidthAssumption DEF Network
  <2> QED
    BY <1>5, <2>1 DEF Mergeable, HasSibling
<1> QED
  BY <1>1, <1>4, <1>6

\* The routes are networks, so aggregating them is exact.
LEMMA AggregateEnd == LoopInv => AggregateIsExact
<1> SUFFICES ASSUME LoopInv PROVE AggregateIsExact
  OBVIOUS
<1>1. final \in SUBSET Network
  BY DEF LoopInv, TypeOK
<1> QED
  BY <1>1, AggregateFacts DEF AggregateIsExact, SameAddresses, Apart

-----------------------------------------------------------------------------

\* For every width, every table of policies and every table of resources,
\* calculate_allowed_ips_for_user gives exactly the addresses that are allowed
\* and not denied.
THEOREM RoutesAreExactAlways == Spec => []RoutesAreExact
BY LoopInit, LoopStep, LoopEnd, PTL DEF Spec

\* For all tables with one subject to a policy, the decision of explain_user_access
\* about a resource is the one its networks carry out, and so is the decision of
\* the debug matrix where no inactive or group policy is about the resource.
THEOREM DecisionsAreRoutes == Spec => []DecisionsMatchRoutes
BY LoopInit, LoopStep, DecisionsEnd, PTL DEF Spec

\* For all tables, of any number of policies in any order of priority, the
\* simulation shown for a peer covers every address that is routed, unless a deny
\* counts for the simulation and not for the engine.
THEOREM SimulationIsComplete == Spec => []SimulationHidesNothing
BY LoopInit, LoopStep, SimulationEnd, PTL DEF Spec

\* For every width of an address, aggregate_cidrs keeps the set of addresses, and
\* the networks it leaves lie apart and cannot be merged further.
THEOREM AggregationIsExact == Spec => []AggregateIsExact
BY LoopInit, LoopStep, AggregateEnd, PTL DEF Spec

=============================================================================
