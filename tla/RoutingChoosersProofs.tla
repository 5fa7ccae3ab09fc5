----------------------- MODULE RoutingChoosersProofs -----------------------
(* Theorems about the choosers, for any number of pools and any costs.     *)
EXTENDS RoutingChoosers, FiniteSetTheorems, WellFoundedInduction, TLAPS

CountsTyped == counts \in [Pools -> Nat] /\ rejected \in [Pools -> Nat]

IInv == CountsTyped /\ SpreadCountsRejections

LEMMA ReleasedTyped ==
    ASSUME NEW c \in [Pools -> Nat], NEW p
    PROVE  Released(c, p) \in [Pools -> Nat]
<1>1. CASE setup.policy = "spread"
  <2>1. Released(c, p) = [q \in Pools |-> IF q = p THEN IF c[q] = 0 THEN 0 ELSE c[q] - 1 ELSE c[q]]
    BY <1>1 DEF Released
  <2>2. \A q \in Pools : (IF q = p THEN IF c[q] = 0 THEN 0 ELSE c[q] - 1 ELSE c[q]) \in Nat
    OBVIOUS
  <2> QED
    BY <2>1, <2>2
<1>2. CASE setup.policy # "spread"
  BY <1>2 DEF Released
<1> QED
  BY <1>1, <1>2

LEMMA CountedTyped ==
    ASSUME CountsTyped, NEW p
    PROVE  Counted(p) \in [Pools -> Nat]
<1>1. CASE setup.policy = "spread"
  <2>1. Counted(p) = [q \in Pools |-> IF q = p THEN counts[q] + 1 ELSE counts[q]]
    BY <1>1 DEF Counted, CountsTyped
  <2>2. \A q \in Pools : (IF q = p THEN counts[q] + 1 ELSE counts[q]) \in Nat
    BY DEF CountsTyped
  <2> QED
    BY <2>1, <2>2
<1>2. CASE setup.policy # "spread"
  BY <1>2 DEF Counted, CountsTyped
<1> QED
  BY <1>1, <1>2

\* What choose adds, observe_result takes away.
LEMMA ReleaseUndoesCount ==
    ASSUME CountsTyped, NEW p
    PROVE  Released(Counted(p), p) = counts
<1>1. CASE setup.policy # "spread"
  BY <1>1 DEF Released, Counted
<1>2. CASE setup.policy = "spread"
  <2> DEFINE up == [counts EXCEPT ![p] = @ + 1]
  <2>1. /\ up \in [Pools -> Nat]
        /\ \A q \in Pools : up[q] = IF q = p THEN counts[q] + 1 ELSE counts[q]
    BY <1>2, CountedTyped DEF Counted, CountsTyped
  <2> HIDE DEF up
  <2> DEFINE down == [up EXCEPT ![p] = IF @ = 0 THEN 0 ELSE @ - 1]
  <2>2. \A q \in Pools : down[q] = counts[q]
    BY <2>1 DEF CountsTyped
  <2>3. DOMAIN down = Pools /\ down = [q \in Pools |-> down[q]]
    BY <2>1
  <2> HIDE DEF down
  <2>4. down = counts
    BY <2>2, <2>3 DEF CountsTyped
  <2> QED
    BY <1>2, <2>4 DEF Released, Counted, up, down
<1> QED
  BY <1>1, <1>2

LEMMA OutcomeTyped ==
    ASSUME CountsTyped, NEW cands, NEW p, NEW after \in [Pools -> Nat], Outcome(cands, p, after)
    PROVE  CountsTyped'
BY ReleasedTyped DEF Outcome, Rejects, Places, PlaceRaises, RoutesOnly, CountsTyped

LEMMA PolicyOutcome ==
    ASSUME IInv, NEW cands, NEW p, Outcome(cands, p, Counted(p)), UNCHANGED setup, ~stopped
    PROVE  SpreadCountsRejections'
<1> SUFFICES ASSUME setup.policy = "spread", setup.executes, ~setup.grpc, ~setup.cpp, ~stopped'
             PROVE  counts' = rejected'
  BY DEF SpreadCountsRejections
<1>1. counts = rejected
  BY DEF IInv, SpreadCountsRejections
<1>2. CASE Rejects(cands, p, Counted(p))
  BY <1>1, <1>2 DEF Rejects, Counted
<1>3. CASE Places(cands, p, Counted(p))
  BY <1>1, <1>3, ReleaseUndoesCount DEF Places, IInv
<1>4. CASE PlaceRaises(cands, p, Counted(p))
  BY <1>4 DEF PlaceRaises
<1>5. CASE RoutesOnly(cands, p, Counted(p))
  BY <1>5 DEF RoutesOnly
<1> QED
  BY <1>2, <1>3, <1>4, <1>5 DEF Outcome

\* In every run of the engine under spread, with any number of pools and any
\* candidates, the counts the policy chooses by are those of rejected
\* requests: admitted ones never weigh on a later choice.
THEOREM SpreadForgetsAdmitted == Spec => []SpreadCountsRejections
<1>1. Init => IInv
  BY DEF Init, IInv, CountsTyped, SpreadCountsRejections, Zero
<1>2. IInv /\ [Next]_vars => IInv'
  <2> SUFFICES ASSUME IInv, [Next]_vars PROVE IInv'
    OBVIOUS
  <2> USE DEF IInv
  <2>1. ASSUME NEW cands \in [Pools -> Candidate], ByGrpc(cands) PROVE IInv'
    <3>1. CountsTyped'
      BY <2>1, OutcomeTyped DEF ByGrpc, CountsTyped
    <3>2. setup' = setup /\ setup.grpc
      BY <2>1 DEF ByGrpc, Arrives
    <3> QED
      BY <3>1, <3>2 DEF SpreadCountsRejections
  <2>2. ASSUME NEW cands \in [Pools -> Candidate], GrpcRaises(cands) PROVE IInv'
    BY <2>2 DEF GrpcRaises, Arrives, CountsTyped, SpreadCountsRejections
  <2>3. ASSUME NEW cands \in [Pools -> Candidate], ByCpp(cands) PROVE IInv'
    <3>1. CountsTyped'
      BY <2>3, OutcomeTyped DEF ByCpp, CountsTyped
    <3>2. setup' = setup /\ setup.cpp
      BY <2>3 DEF ByCpp, Arrives
    <3> QED
      BY <3>1, <3>2 DEF SpreadCountsRejections
  <2>4. ASSUME NEW cands \in [Pools -> Candidate], ByPolicy(cands) PROVE IInv'
    <3> DEFINE p == PolicyChoice(cands)
    <3>1. Outcome(cands, p, Counted(p)) /\ ~stopped /\ UNCHANGED setup
      BY <2>4 DEF ByPolicy, Arrives
    <3> HIDE DEF p
    <3>2. CountsTyped'
      BY <3>1, CountedTyped, OutcomeTyped
    <3>3. SpreadCountsRejections'
      BY <3>1, PolicyOutcome
    <3> QED
      BY <3>2, <3>3
  <2>5. CASE UNCHANGED vars
    BY <2>5 DEF vars, CountsTyped, SpreadCountsRejections
  <2> QED
    BY <2>1, <2>2, <2>3, <2>4, <2>5 DEF Next
<1> QED
  BY <1>1, <1>2, PTL DEF Spec, IInv

-----------------------------------------------------------------------------
(* What the choosers return. *)

\* Every non-empty set of naturals has a least element.
LEMMA LeastNatural ==
    ASSUME NEW S \in SUBSET Nat, S # {}
    PROVE  \E m \in S : \A n \in S : m <= n
<1>1. PICK m \in S : \A n \in S : <<n, m>> \notin OpToRel(<, Nat)
  BY NatLessThanWellFounded, WFMin
<1>2. \A n \in S : ~(n < m)
  BY <1>1 DEF OpToRel
<1> QED  BY <1>2

\* The first of the cheapest candidates is one of them.
LEMMA FirstMinIsIn ==
    ASSUME NEW cands \in [Pools -> Candidate], NEW S \in SUBSET Pools, S # {}
    PROVE  FirstMin(S, cands) \in S
<1> DEFINE costs == {cands[p].cost : p \in S}
<1>1. ASSUME NEW p \in S
      PROVE  p \in Nat /\ cands[p].cost \in Nat
  <2>1. cands[p] \in Candidate
    OBVIOUS
  <2>2. cands[p].cost \in Costs
    BY <2>1 DEF Candidate
  <2>3. cands[p].cost \in Nat
    <3>1. Costs \subseteq Nat
      BY ChoosersAssumption
    <3> QED  BY <2>2, <3>1
  <2>4. p \in Nat
    BY ChoosersAssumption DEF Pools
  <2> QED  BY <2>3, <2>4
<1>2. costs \in SUBSET Nat /\ costs # {}
  BY <1>1
<1>3. PICK m \in costs : \A n \in costs : m <= n
  BY <1>2, LeastNatural
<1> DEFINE cheapest == {p \in S : cands[p].cost = m}
<1>4. cheapest \in SUBSET Nat /\ cheapest # {}
  BY <1>1, <1>3
<1>5. PICK p \in cheapest : \A q \in cheapest : p <= q
  BY <1>4, LeastNatural
<1>6. ASSUME NEW q \in S
      PROVE  cands[p].cost < cands[q].cost \/ (cands[p].cost = cands[q].cost /\ p <= q)
  <2>1. cands[p].cost = m /\ m <= cands[q].cost /\ m \in Nat /\ cands[q].cost \in Nat
    BY <1>1, <1>2, <1>3, <1>5, <1>6
  <2> QED  BY <1>5, <1>6, <2>1
<1>7. \E x \in S : \A q \in S : \/ cands[x].cost < cands[q].cost
                                \/ cands[x].cost = cands[q].cost /\ x <= q
  BY <1>5, <1>6
<1> QED  BY <1>7 DEF FirstMin

\* Some pool has been chosen least.
LEMMA SomeLeastChosen ==
    ASSUME CountsTyped, NEW S \in SUBSET Pools, S # {}
    PROVE  LeastChosen(S) # {}
<1> DEFINE N == {counts[p] : p \in S}
<1>1. N \in SUBSET Nat /\ N # {}
  BY DEF CountsTyped
<1>2. PICK m \in N : \A n \in N : m <= n
  BY <1>1, LeastNatural
<1> QED  BY <1>2 DEF LeastChosen

\* Pools before the one at 1 .. n are counted.
LEMMA PoolsFinite ==
    ASSUME NEW S \in SUBSET Pools
    PROVE  /\ IsFiniteSet(S) /\ Cardinality(S) \in Nat
           /\ IsFiniteSet(Pools) /\ Cardinality(Pools) = Size
<1>1. IsFiniteSet(Pools) /\ Cardinality(Pools) = Size
  BY ChoosersAssumption, FS_Interval DEF Pools
<1> QED  BY <1>1, FS_Subset, FS_CardinalityType

\* A set of pools has an element at every place below its size.
LEMMA NthExists ==
    ASSUME NEW S \in SUBSET Pools, NEW n \in Nat, n < Cardinality(S)
    PROVE  \E p \in S : Cardinality({q \in S : q < p}) = n
<1> DEFINE Below(p) == {q \in S : q < p}
           B == {i \in Nat : i < Cardinality(S) /\ ~ \E p \in S : Cardinality(Below(p)) = i}
<1> SUFFICES ASSUME n \in B PROVE FALSE
  OBVIOUS
<1>1. PICK k \in B : \A i \in B : k <= i
  <2>1. B \in SUBSET Nat /\ B # {}
    OBVIOUS
  <2> HIDE DEF B
  <2> QED  BY <2>1, LeastNatural
<1>2. IsFiniteSet(S) /\ Cardinality(S) \in Nat
  BY PoolsFinite
<1>3. \A x \in S : x \in Nat
  BY ChoosersAssumption DEF Pools
<1>4. k \in Nat /\ k < Cardinality(S) /\ \A p \in S : Cardinality(Below(p)) # k
  BY <1>1
<1>5. CASE k = 0
  <2>1. S # {}
    BY <1>2, <1>4, <1>5, FS_EmptySet
  <2>2. PICK p \in S : \A q \in S : p <= q
    BY <1>3, <2>1, LeastNatural
  <2>3. \A q \in S : ~(q < p)
    BY <1>3, <2>2
  <2>4. Below(p) = {}
    BY <2>3
  <2>5. Cardinality(Below(p)) = 0
    <3> HIDE DEF Below
    <3> QED  BY <2>4, FS_EmptySet
  <2> HIDE DEF Below
  <2> QED  BY <1>4, <1>5, <2>5
<1>6. CASE k # 0
  <2>1. k - 1 \in Nat /\ k - 1 < Cardinality(S) /\ ~(k <= k - 1)
    BY <1>2, <1>4, <1>6
  <2>2. k - 1 \notin B
    <3> HIDE DEF B
    <3> QED  BY <1>1, <2>1
  <2>3. PICK p \in S : Cardinality(Below(p)) = k - 1
    BY <2>1, <2>2
  <2> DEFINE upTo == Below(p) \cup {p}
  <2>4. IsFiniteSet(Below(p)) /\ p \notin Below(p)
    BY <1>2, <1>3, FS_Subset
  <2>5. Cardinality(upTo) = k
    <3> HIDE DEF Below
    <3>1. Cardinality(upTo) = Cardinality(Below(p)) + 1
      BY <2>4, FS_AddElement
    <3> QED  BY <1>4, <2>3, <3>1
  <2>6. S \ upTo # {}
    <3>1. upTo \subseteq S
      OBVIOUS
    <3> HIDE DEF upTo
    <3>2. upTo # S
      BY <1>2, <1>4, <2>5
    <3> QED  BY <3>1, <3>2
  <2> DEFINE above == S \ upTo
  <2>7. PICK m \in above : \A q \in above : m <= q
    <3>1. above \in SUBSET Nat /\ above # {}
      BY <1>3, <2>6
    <3> HIDE DEF above
    <3> QED  BY <3>1, LeastNatural
  <2>8. ASSUME NEW q \in S
        PROVE  q < m <=> q \in upTo
    <3>1. q \in Nat /\ m \in Nat /\ p \in Nat /\ m \in S
      BY <1>3, <2>7, <2>8
    <3>2. ~(m < p) /\ m # p
      BY <2>7
    <3>3. q \in upTo <=> (q < p \/ q = p)
      BY <2>8
    <3>4. q \notin upTo => m <= q
      BY <2>7, <2>8
    <3> HIDE DEF upTo
    <3> QED  BY <3>1, <3>2, <3>3, <3>4
  <2>9. Below(m) = upTo
    BY <2>8
  <2> HIDE DEF Below, upTo
  <2> QED  BY <1>4, <2>5, <2>7, <2>9
<1> QED  BY <1>5, <1>6

\* The remainders that round_robin indexes with.
LEMMA Division ==
    ASSUME NEW n \in Nat \ {0}, NEW x \in Nat
    PROVE  x = (n * (x \div n)) + (x % n) /\ x \div n \in Nat /\ x % n \in 0 .. n - 1
OBVIOUS

LEMMA Remainder ==
    ASSUME NEW n \in Nat \ {0}, NEW q \in Nat, NEW r \in 0 .. n - 1
    PROVE  ((n * q) + r) % n = r
OBVIOUS

LEMMA NextRemainder ==
    ASSUME NEW n \in Nat \ {0}, NEW x \in Nat
    PROVE  (x + 1) % n = IF (x % n) + 1 = n THEN 0 ELSE (x % n) + 1
<1> DEFINE q == x \div n
           r == x % n
<1>1. q \in Nat /\ r \in 0 .. n - 1 /\ x = (n * q) + r
  BY Division
<1> HIDE DEF q, r
<1>2. CASE r + 1 = n
  <2>1. x + 1 = (n * (q + 1)) + 0
    BY <1>1, <1>2
  <2>2. (x + 1) % n = 0
    BY <1>1, <2>1, Remainder
  <2> QED  BY <1>2, <2>2 DEF r
<1>3. CASE r + 1 # n
  <2>1. x + 1 = (n * q) + (r + 1) /\ r + 1 \in 0 .. n - 1
    BY <1>1, <1>3
  <2>2. (x + 1) % n = r + 1
    BY <1>1, <2>1, Remainder
  <2> QED  BY <1>3, <2>2 DEF r
<1> QED  BY <1>2, <1>3

\* Every chooser takes a pool, an available one if there is any.
LEMMA UsablePools ==
    ASSUME NEW cands
    PROVE  /\ Usable(cands) \in SUBSET Pools /\ Usable(cands) # {}
           /\ Available(cands) # {} => Usable(cands) = Available(cands)
<1>1. 1 \in Pools
  BY ChoosersAssumption DEF Pools
<1> QED  BY <1>1 DEF Usable, Available

LEMMA ChoiceIsUsable ==
    ASSUME TypeOK, NEW cands \in [Pools -> Candidate]
    PROVE  /\ GrpcChoice(cands) \in Usable(cands)
           /\ CppChoice(cands) \in Usable(cands)
           /\ PolicyChoice(cands) \in Usable(cands)
<1>1. Usable(cands) \in SUBSET Pools /\ Usable(cands) # {}
  BY UsablePools
<1>2. FirstMin(Usable(cands), cands) \in Usable(cands)
  BY <1>1, FirstMinIsIn
<1>3. CppChoice(cands) \in Usable(cands)
  BY <1>2 DEF CppChoice
<1>4. GrpcChoice(cands) \in Usable(cands)
  <2>1. CASE Available(cands) = {}
    BY <2>1, ChoosersAssumption DEF GrpcChoice, Usable, Pools
  <2>2. CASE Available(cands) # {}
    BY <1>2, <2>2, UsablePools DEF GrpcChoice
  <2> QED  BY <2>1, <2>2
<1>5. RoundRobin(cands) \in Usable(cands)
  <2> DEFINE S == Usable(cands)
             n == cursor % Cardinality(S)
  <2>1. Cardinality(S) \in Nat \ {0}
    <3>1. IsFiniteSet(S) /\ Cardinality(S) \in Nat
      BY <1>1, PoolsFinite
    <3> QED  BY <1>1, <3>1, FS_EmptySet
  <2>2. n \in Nat /\ n < Cardinality(S)
    <3>1. cursor \in Nat
      BY DEF TypeOK
    <3> QED  BY <2>1, <3>1, Division
  <2>3. \E p \in S : Cardinality({q \in S : q < p}) = n
    <3> HIDE DEF S, n
    <3> QED  BY <1>1, <2>2, NthExists DEF S
  <2> QED  BY <2>3 DEF RoundRobin, Nth
<1>6. Spread(cands) \in Usable(cands)
  <2>1. LeastChosen(Usable(cands)) \in SUBSET Usable(cands)
    BY DEF LeastChosen
  <2>2. LeastChosen(Usable(cands)) # {}
    BY <1>1, SomeLeastChosen DEF TypeOK, CountsTyped
  <2>3. FirstMin(LeastChosen(Usable(cands)), cands) \in LeastChosen(Usable(cands))
    BY <1>1, <2>1, <2>2, FirstMinIsIn
  <2> QED  BY <2>1, <2>3 DEF Spread
<1>7. PolicyChoice(cands) \in Usable(cands)
  <2>1. setup.policy \in Policies
    BY DEF TypeOK
  <2> QED  BY <1>2, <1>5, <1>6, <2>1 DEF PolicyChoice, Policies, Bandit, Ranking
<1> QED  BY <1>3, <1>4, <1>7

-----------------------------------------------------------------------------
(* A step of the choosers, whoever chose. *)

\* The choice of p by whoever is asked, and what becomes of it; `by` says
\* whether the policy was asked.
Chose(cands, p, by) ==
    /\ p \in Usable(cands)
    /\ Arrives(cands)
    /\ Decided(cands, p)
    /\ by => /\ ~setup.cpp /\ p = PolicyChoice(cands)
             /\ cursor' = CursorMoved(p) /\ Outcome(cands, p, Counted(p))
    /\ ~by => (setup.grpc \/ setup.cpp) /\ UNCHANGED cursor /\ Outcome(cands, p, counts)

LEMMA StepShape ==
    ASSUME TypeOK, Next
    PROVE  \E cands \in [Pools -> Candidate] :
              GrpcRaises(cands) \/ \E p \in Pools, by \in BOOLEAN : Chose(cands, p, by)
<1>1. PICK cands \in [Pools -> Candidate] :
          ByGrpc(cands) \/ GrpcRaises(cands) \/ ByCpp(cands) \/ ByPolicy(cands)
  BY DEF Next
<1>2. /\ GrpcChoice(cands) \in Usable(cands) /\ CppChoice(cands) \in Usable(cands)
      /\ PolicyChoice(cands) \in Usable(cands) /\ Usable(cands) \in SUBSET Pools
  BY ChoiceIsUsable, UsablePools
<1>3. CASE ByGrpc(cands)
  <2>1. Chose(cands, GrpcChoice(cands), FALSE)
    BY <1>2, <1>3 DEF ByGrpc, Chose
  <2> QED  BY <1>2, <2>1
<1>4. CASE ByCpp(cands)
  <2>1. Chose(cands, CppChoice(cands), FALSE)
    BY <1>2, <1>4 DEF ByCpp, Chose
  <2> QED  BY <1>2, <2>1
<1>5. CASE ByPolicy(cands)
  <2>1. Chose(cands, PolicyChoice(cands), TRUE)
    BY <1>2, <1>5 DEF ByPolicy, Chose
  <2> QED  BY <1>2, <2>1
<1> QED  BY <1>1, <1>3, <1>4, <1>5

LEMMA OneMore ==
    ASSUME NEW f \in [Pools -> Nat], NEW p \in Pools
    PROVE  /\ [f EXCEPT ![p] = @ + 1] \in [Pools -> Nat]
           /\ \A q \in Pools : [f EXCEPT ![p] = @ + 1][q] = IF q = p THEN f[q] + 1 ELSE f[q]
OBVIOUS

\* The cursor of round_robin, the counts of spread, the pulls of the bandit
\* and the decisions stay well typed, whoever chooses.
THEOREM TypeCorrect == Spec => []TypeOK
<1>1. Init => TypeOK
  <2>1. Zero \in [Pools -> Nat] /\ 0 \in 0 .. MaxRequests
    BY ChoosersAssumption DEF Zero
  <2> SUFFICES ASSUME Init PROVE TypeOK
    OBVIOUS
  <2>2. allUp \in BOOLEAN /\ stopped \in BOOLEAN
    BY DEF Init
  <2>3. latest \subseteq [up : SUBSET Pools, pool : Pools]
    BY DEF Init
  <2>4. /\ setup \in [policy : Policies, grpc : BOOLEAN, cpp : BOOLEAN, executes : BOOLEAN]
        /\ cursor \in Nat /\ requests \in 0 .. MaxRequests
    BY <2>1 DEF Init
  <2> QED  BY <2>1, <2>2, <2>3, <2>4 DEF Init, TypeOK
<1>2. TypeOK /\ [Next]_vars => TypeOK'
  <2> SUFFICES ASSUME TypeOK, [Next]_vars PROVE TypeOK'
    OBVIOUS
  <2>1. CASE UNCHANGED vars
    BY <2>1 DEF vars, TypeOK
  <2>2. ASSUME NEW cands, Arrives(cands)
        PROVE  setup' = setup /\ requests' \in 0 .. MaxRequests /\ allUp' \in BOOLEAN
    <3>1. setup' = setup /\ requests' \in 0 .. MaxRequests
      BY <2>2, ChoosersAssumption DEF Arrives, TypeOK
    <3>2. allUp' = (allUp /\ Available(cands) = Pools) /\ allUp \in BOOLEAN
      BY <2>2 DEF Arrives, TypeOK
    <3>3. allUp' \in BOOLEAN
      BY <3>2
    <3> QED  BY <3>1, <3>3
  <2>3. ASSUME NEW cands, GrpcRaises(cands)
        PROVE  TypeOK'
    <3>1. Arrives(cands) /\ stopped' \in BOOLEAN
      BY <2>3 DEF GrpcRaises, TypeOK
    <3> QED  BY <2>2, <2>3, <3>1 DEF GrpcRaises, TypeOK
  <2>4. ASSUME NEW cands, NEW p \in Pools, NEW by \in BOOLEAN, Chose(cands, p, by)
        PROVE  TypeOK'
    <3>1. Arrives(cands)
      BY <2>4 DEF Chose
    <3>2. latest' \subseteq [up : SUBSET Pools, pool : Pools] /\ chosen' \in [Pools -> Nat]
      <4>1. Available(cands) \in SUBSET Pools
        BY DEF Available
      <4>2. chosen' = [chosen EXCEPT ![p] = @ + 1] /\ chosen \in [Pools -> Nat]
        BY <2>4 DEF Chose, Decided, TypeOK
      <4> QED  BY <2>4, <4>1, <4>2, OneMore DEF Chose, Decided
    <3>3. cursor' \in Nat
      BY <2>4 DEF Chose, CursorMoved, TypeOK
    <3>4. PICK after \in [Pools -> Nat] : Outcome(cands, p, after)
      <4>1. CountsTyped
        BY DEF TypeOK, CountsTyped
      <4>2. Counted(p) \in [Pools -> Nat] /\ counts \in [Pools -> Nat]
        BY <4>1, CountedTyped DEF CountsTyped
      <4>3. Outcome(cands, p, Counted(p)) \/ Outcome(cands, p, counts)
        BY <2>4 DEF Chose
      <4> QED  BY <4>2, <4>3
    <3>5. CountsTyped'
      BY <3>4, OutcomeTyped DEF TypeOK, CountsTyped
    <3>6. pulls' \in [Pools -> Nat] /\ stopped' \in BOOLEAN
      <4>1. Pulled(p) \in [Pools -> Nat]
        BY OneMore DEF Pulled, TypeOK
      <4> QED  BY <3>4, <4>1 DEF Outcome, Rejects, Places, PlaceRaises, RoutesOnly, TypeOK
    <3>7. setup' = setup /\ requests' \in 0 .. MaxRequests /\ allUp' \in BOOLEAN
      BY <2>2, <3>1
    <3> QED  BY <3>2, <3>3, <3>5, <3>6, <3>7 DEF TypeOK, CountsTyped
  <2> QED  BY <2>1, <2>3, <2>4, StepShape
<1> QED  BY <1>1, <1>2, PTL DEF Spec

\* Whichever of the remote scheduler, the C++ core and the policies chooses,
\* with any candidates and costs, the pool is available if any is.
THEOREM ChoiceIsAvailable == Spec => []ChoosesAvailable
<1>1. Init => ChoosesAvailable
  BY DEF Init, ChoosesAvailable
<1>2. TypeOK /\ ChoosesAvailable /\ [Next]_vars => ChoosesAvailable'
  <2> SUFFICES ASSUME TypeOK, ChoosesAvailable, [Next]_vars PROVE ChoosesAvailable'
    OBVIOUS
  <2>1. CASE UNCHANGED latest
    BY <2>1 DEF ChoosesAvailable
  <2>2. ASSUME NEW cands, NEW p, NEW by, Chose(cands, p, by)
        PROVE  ChoosesAvailable'
    <3>1. latest' = {[up |-> Available(cands), pool |-> p]} /\ p \in Usable(cands)
      BY <2>2 DEF Chose, Decided
    <3>2. Available(cands) # {} => p \in Available(cands)
      BY <3>1, UsablePools
    <3> QED  BY <3>1, <3>2 DEF ChoosesAvailable
  <2> QED  BY <2>1, <2>2, StepShape DEF GrpcRaises, vars
<1> QED  BY <1>1, <1>2, TypeCorrect, PTL DEF Spec

\* The strengthening of RoundRobinEven: after some full rounds, the pools
\* before the one the cursor is at have been chosen once more.
RoundsFull ==
    setup.policy = "round_robin" /\ ~setup.grpc /\ ~setup.cpp /\ allUp
        => \E c \in Nat : \A p \in Pools :
              chosen[p] = IF p <= cursor % Size THEN c + 1 ELSE c

\* The element of all pools with n smaller ones.
LEMMA NthPool ==
    ASSUME NEW n \in 0 .. Size - 1
    PROVE  Nth(Pools, n) = n + 1
<1>1. Size \in Nat \ {0} /\ n \in Nat /\ n + 1 \in Pools
  BY ChoosersAssumption DEF Pools
<1>2. ASSUME NEW p \in Pools
      PROVE  Cardinality({q \in Pools : q < p}) = p - 1
  <2>1. p \in Nat /\ 1 <= p /\ p <= Size
    BY <1>1 DEF Pools
  <2>2. {q \in Pools : q < p} = 1 .. (p - 1)
    BY <1>1, <2>1 DEF Pools
  <2>3. 1 \in Int /\ p - 1 \in Int /\ (IF 1 > p - 1 THEN 0 ELSE p - 1 - 1 + 1) = p - 1
    BY <2>1
  <2> QED  BY <2>2, <2>3, FS_Interval
<1>3. \A p \in Pools : p \in Int
  BY <1>1 DEF Pools
<1>4. \A p \in Pools : Cardinality({q \in Pools : q < p}) = n <=> p = n + 1
  BY <1>1, <1>2, <1>3
<1> QED  BY <1>1, <1>4 DEF Nth

\* While every pool stays available, round_robin gives any two pools the same
\* number of requests, give or take one, for any number of pools.
THEOREM RoundRobinIsEven == Spec => []RoundRobinEven
<1>1. Init => RoundsFull
  <2> SUFFICES ASSUME Init PROVE RoundsFull
    OBVIOUS
  <2>1. Size \in Nat \ {0} /\ cursor = 0 /\ \A p \in Pools : chosen[p] = 0 /\ 1 <= p /\ p \in Nat
    BY ChoosersAssumption DEF Init, Zero, Pools
  <2>2. 0 % Size = 0
    BY <2>1
  <2>3. \A p \in Pools : chosen[p] = IF p <= cursor % Size THEN 0 + 1 ELSE 0
    BY <2>1, <2>2
  <2> QED  BY <2>3 DEF RoundsFull
<1>2. TypeOK /\ RoundsFull /\ [Next]_vars => RoundsFull'
  <2> SUFFICES ASSUME TypeOK, RoundsFull, [Next]_vars PROVE RoundsFull'
    OBVIOUS
  <2>1. CASE UNCHANGED vars
    BY <2>1 DEF vars, RoundsFull
  <2>2. ASSUME NEW cands, GrpcRaises(cands)
        PROVE  RoundsFull'
    BY <2>2 DEF GrpcRaises, Arrives, RoundsFull
  <2>3. ASSUME NEW cands, NEW p \in Pools, NEW by \in BOOLEAN, Chose(cands, p, by)
        PROVE  RoundsFull'
    <3> SUFFICES ASSUME setup'.policy = "round_robin", ~setup'.grpc, ~setup'.cpp, allUp'
                 PROVE  (\E c \in Nat : \A q \in Pools :
                            chosen[q] = IF q <= cursor % Size THEN c + 1 ELSE c)'
      BY DEF RoundsFull
    <3>1. setup' = setup /\ allUp /\ Available(cands) = Pools
      BY <2>3 DEF Chose, Arrives
    <3>2. PICK c \in Nat : \A q \in Pools : chosen[q] = IF q <= cursor % Size THEN c + 1 ELSE c
      BY <3>1 DEF RoundsFull
    <3>3. Usable(cands) = Pools
      BY <3>1 DEF Usable
    <3>4. p = RoundRobin(cands) /\ cursor' = cursor + 1 /\ chosen' = [chosen EXCEPT ![p] = @ + 1]
      BY <2>3, <3>1 DEF Chose, Decided, PolicyChoice, CursorMoved
    <3> DEFINE n == cursor % Size
    <3>5. n \in 0 .. Size - 1 /\ Size \in Nat \ {0} /\ cursor \in Nat
      BY Division, ChoosersAssumption DEF TypeOK
    <3>6. p = n + 1
      BY <3>3, <3>4, <3>5, NthPool, PoolsFinite DEF RoundRobin
    <3>7. cursor' % Size = IF n + 1 = Size THEN 0 ELSE n + 1
      BY <3>4, <3>5, NextRemainder
    <3>8. \A q \in Pools : q \in Nat /\ 1 <= q /\ q <= Size
      BY <3>5 DEF Pools
    <3>9. \A q \in Pools : chosen'[q] = IF q <= n + 1 THEN c + 1 ELSE c
      <4>1. \A q \in Pools : chosen'[q] = IF q = p THEN chosen[q] + 1 ELSE chosen[q]
        BY <3>4, OneMore DEF TypeOK
      <4> HIDE DEF n
      <4> QED  BY <3>2, <3>5, <3>6, <3>8, <4>1 DEF n
    <3> HIDE DEF n
    <3>10. CASE n + 1 = Size
      <4>1. \A q \in Pools : chosen'[q] = IF q <= cursor' % Size THEN (c + 1) + 1 ELSE c + 1
        BY <3>5, <3>7, <3>8, <3>9, <3>10
      <4> QED  BY <4>1
    <3>11. CASE n + 1 # Size
      <4>1. \A q \in Pools : chosen'[q] = IF q <= cursor' % Size THEN c + 1 ELSE c
        BY <3>7, <3>9, <3>11
      <4> QED  BY <4>1
    <3> QED  BY <3>10, <3>11
  <2> QED  BY <2>1, <2>2, <2>3, StepShape
<1>3. RoundsFull => RoundRobinEven
  BY DEF RoundsFull, RoundRobinEven
<1> QED  BY <1>1, <1>2, <1>3, TypeCorrect, PTL DEF Spec

\* The strengthening of SpreadEven: without execute, nothing gives a count back.
CountsAreChoices ==
    setup.policy = "spread" /\ ~setup.executes /\ ~setup.grpc /\ ~setup.cpp => counts = chosen

\* Behind the API, spread keeps the numbers of choices of any two of any number
\* of pools within one of each other while all are up.
THEOREM SpreadIsEven == Spec => []SpreadEven
<1>1. Init => CountsAreChoices /\ SpreadEven
  BY DEF Init, CountsAreChoices, SpreadEven, Zero
<1>2. TypeOK /\ CountsAreChoices /\ SpreadEven /\ [Next]_vars => CountsAreChoices' /\ SpreadEven'
  <2> SUFFICES ASSUME TypeOK, CountsAreChoices, SpreadEven, [Next]_vars
               PROVE  CountsAreChoices' /\ SpreadEven'
    OBVIOUS
  <2>1. CASE UNCHANGED vars
    BY <2>1 DEF vars, CountsAreChoices, SpreadEven
  <2>2. ASSUME NEW cands, GrpcRaises(cands)
        PROVE  CountsAreChoices' /\ SpreadEven'
    BY <2>2 DEF GrpcRaises, Arrives, CountsAreChoices, SpreadEven
  <2>3. ASSUME NEW cands \in [Pools -> Candidate], NEW p \in Pools, NEW by \in BOOLEAN,
               Chose(cands, p, by), setup'.policy = "spread", ~setup'.executes, ~setup'.grpc,
               ~setup'.cpp
        PROVE  /\ counts' = chosen'
               /\ allUp' => \A q, r \in Pools : chosen'[q] <= chosen'[r] + 1
    <3>1. /\ setup' = setup /\ p = Spread(cands) /\ counts = chosen
          /\ Outcome(cands, p, Counted(p)) /\ chosen' = [chosen EXCEPT ![p] = @ + 1]
      BY <2>3 DEF Chose, Arrives, Decided, PolicyChoice, CountsAreChoices
    <3>2. counts' = [counts EXCEPT ![p] = @ + 1]
      BY <2>3, <3>1 DEF Outcome, Rejects, Places, PlaceRaises, RoutesOnly, Counted
    <3>3. ASSUME allUp', NEW q \in Pools, NEW r \in Pools
          PROVE  chosen'[q] <= chosen'[r] + 1
      <4>1. allUp /\ Available(cands) = Pools /\ Usable(cands) = Pools
        BY <2>3, <3>3 DEF Chose, Arrives, Usable
      <4>2. p \in LeastChosen(Pools)
        <5>1. LeastChosen(Pools) # {} /\ LeastChosen(Pools) \in SUBSET Pools
          BY SomeLeastChosen DEF LeastChosen, TypeOK, CountsTyped
        <5> QED  BY <3>1, <4>1, <5>1, FirstMinIsIn DEF Spread
      <4>3. \A x \in Pools : chosen[p] <= chosen[x]
        BY <3>1, <4>2 DEF LeastChosen
      <4>4. \A x, y \in Pools : chosen[x] <= chosen[y] + 1
        BY <2>3, <3>1, <4>1 DEF SpreadEven
      <4>5. \A x \in Pools : /\ chosen[x] \in Nat
                             /\ chosen'[x] = IF x = p THEN chosen[x] + 1 ELSE chosen[x]
        BY <3>1, OneMore DEF TypeOK
      <4> QED  BY <3>3, <4>3, <4>4, <4>5
    <3> QED  BY <3>1, <3>2, <3>3
  <2>4. ASSUME NEW cands \in [Pools -> Candidate], NEW p \in Pools, NEW by \in BOOLEAN,
               Chose(cands, p, by)
        PROVE  CountsAreChoices' /\ SpreadEven'
    BY <2>3, <2>4 DEF CountsAreChoices, SpreadEven
  <2> QED  BY <2>1, <2>2, <2>4, StepShape
<1> QED  BY <1>1, <1>2, TypeCorrect, PTL DEF Spec
=============================================================================
