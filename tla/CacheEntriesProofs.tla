------------------------- MODULE CacheEntriesProofs -------------------------
(***************************************************************************)
(* Lemmas about the operators of CacheEntries, used by the proofs about    *)
(* KVCacheDirectory and ControlPlane.                                      *)
(***************************************************************************)
EXTENDS CacheEntries, FiniteSetTheorems, WellFoundedInduction, TLAPS

(* Arithmetic and minima. *)

\* max() of two numbers is one of them and bounds both.
LEMMA MaxOfTwo ==
    ASSUME NEW a \in Int, NEW b \in Int
    PROVE  /\ Max({a, b}) \in {a, b}
           /\ a <= Max({a, b}) /\ b <= Max({a, b})
<1>1. \E x \in {a, b} : \A y \in {a, b} : x >= y
  <2>1. CASE a >= b  BY <2>1
  <2>2. CASE b >= a  BY <2>2
  <2> QED  BY <2>1, <2>2
<1>2. /\ Max({a, b}) \in {a, b}
      /\ \A y \in {a, b} : Max({a, b}) >= y
  BY <1>1 DEF Max
<1> QED  BY <1>2

\* max() with a natural number is a natural number.
LEMMA MaxNatural ==
    ASSUME NEW a \in Nat, NEW b \in Int
    PROVE  Max({a, b}) \in Nat
<1>1. Max({a, b}) = a \/ Max({a, b}) = b
  BY MaxOfTwo
<1>2. a <= Max({a, b})
  BY MaxOfTwo
<1>3. CASE Max({a, b}) = a  BY <1>3
<1>4. CASE Max({a, b}) = b
  <2>1. a <= b  BY <1>2, <1>4
  <2> QED  BY <2>1, <1>4
<1> QED  BY <1>1, <1>3, <1>4

\* min() of two numbers is one of them.
LEMMA MinOfTwo ==
    ASSUME NEW a \in Int, NEW b \in Int
    PROVE  Min({a, b}) \in {a, b}
<1>1. \E x \in {a, b} : \A y \in {a, b} : x <= y
  <2>1. CASE a <= b  BY <2>1
  <2>2. CASE b <= a  BY <2>2
  <2> QED  BY <2>1, <2>2
<1> QED  BY <1>1 DEF Min

\* Every non-empty set of naturals has a least element.
LEMMA LeastNatural ==
    ASSUME NEW S \in SUBSET Nat, S # {}
    PROVE  \E m \in S : \A n \in S : m <= n
<1>1. PICK m \in S : \A n \in S : <<n, m>> \notin OpToRel(<, Nat)
  BY NatLessThanWellFounded, WFMin
<1>2. \A n \in S : ~(n < m)
  BY <1>1 DEF OpToRel
<1> QED  BY <1>2

-----------------------------------------------------------------------------
(* Sums over finite sets.  MapThenSumSet is a recursive function over the   *)
(* subsets of its set, which removes an arbitrary element at each step.    *)
(* SumOf is the same sum with the weights given as a function.             *)

\* The element the recursion removes first.
AnyOf(s) == CHOOSE x \in s : TRUE

\* g obeys the recursion of the sum of weights w over the subsets of S.
IsSum(g, w, S) ==
    g = [s \in SUBSET S |-> IF s = {} THEN 0 ELSE w[AnyOf(s)] + g[s \ {AnyOf(s)}]]

\* The sum of the weights w[x] for x in S.
SumOf(w, S) == (CHOOSE g : IsSum(g, w, S))[S]

\* The value of such a function at one set.
LEMMA IsSumStep ==
    ASSUME NEW g, NEW w, NEW S, IsSum(g, w, S), NEW s \in SUBSET S
    PROVE  /\ s = {} => g[s] = 0
           /\ s # {} => AnyOf(s) \in s /\ g[s] = w[AnyOf(s)] + g[s \ {AnyOf(s)}]
<1>1. s # {} => AnyOf(s) \in s
  BY DEF AnyOf
<1>2. g[s] = IF s = {} THEN 0 ELSE w[AnyOf(s)] + g[s \ {AnyOf(s)}]
  <2> DEFINE F(t) == IF t = {} THEN 0 ELSE w[AnyOf(t)] + g[t \ {AnyOf(t)}]
  <2>1. g = [t \in SUBSET S |-> F(t)]
    BY DEF IsSum
  <2> HIDE DEF F
  <2>2. g[s] = F(s)
    BY <2>1
  <2> QED  BY <2>2 DEF F
<1> QED  BY <1>1, <1>2

\* Among finite sets there is a smallest: induction over the size of a set is
\* carried out as the refutation of a smallest counterexample.
LEMMA SmallestSet ==
    ASSUME NEW B, B # {}, \A s \in B : IsFiniteSet(s)
    PROVE  \E s \in B : \A t \in B : Cardinality(s) <= Cardinality(t)
<1> DEFINE C == {Cardinality(s) : s \in B}
<1>1. C \in SUBSET Nat /\ C # {}
  BY FS_CardinalityType
<1>2. PICK m \in C : \A n \in C : m <= n
  BY <1>1, LeastNatural
<1> QED  BY <1>2

\* A finite set without one of its elements is smaller.
LEMMA SmallerWithout ==
    ASSUME NEW S, IsFiniteSet(S), NEW x \in S
    PROVE  IsFiniteSet(S \ {x}) /\ Cardinality(S \ {x}) < Cardinality(S)
           /\ Cardinality(S) \in Nat /\ Cardinality(S \ {x}) \in Nat
<1>1. Cardinality(S) \in Nat /\ IsFiniteSet(S \ {x})
  BY FS_RemoveElement, FS_CardinalityType
<1>2. Cardinality(S \ {x}) = Cardinality(S) - 1
  BY FS_RemoveElement
<1> QED  BY <1>1, <1>2, FS_CardinalityType

\* Two functions that obey the recursion agree on the finite sets they share.
LEMMA SumsAgree ==
    ASSUME NEW w, NEW v, NEW S, NEW T, NEW g, NEW h, IsSum(g, w, S), IsSum(h, v, T),
           NEW u, u \subseteq S, u \subseteq T, IsFiniteSet(u),
           \A x \in u : w[x] = v[x]
    PROVE  g[u] = h[u]
<1> DEFINE B == {s \in SUBSET u : g[s] # h[s]}
<1> SUFFICES ASSUME g[u] # h[u] PROVE FALSE
  OBVIOUS
<1>1. B # {} /\ \A s \in B : IsFiniteSet(s)
  BY FS_Subset
<1>2. PICK s \in B : \A t \in B : Cardinality(s) <= Cardinality(t)
  <2> HIDE DEF B
  <2> QED  BY <1>1, SmallestSet
<1>3. s # {} /\ s \in SUBSET S /\ s \in SUBSET T
  BY IsSumStep
<1> DEFINE r == s \ {AnyOf(s)}
<1>4. AnyOf(s) \in s /\ g[s] = w[AnyOf(s)] + g[r] /\ h[s] = v[AnyOf(s)] + h[r]
  BY <1>3, IsSumStep
<1>5. r \notin B
  BY <1>1, <1>2, <1>4, FS_RemoveElement, FS_CardinalityType
<1> QED  BY <1>4, <1>5

\* Some function obeys the recursion: it takes the value at a set from the one
\* that exists for the set without its first element.
LEMMA SumExists ==
    ASSUME NEW w, NEW S, IsFiniteSet(S)
    PROVE  \E g : IsSum(g, w, S)
<1> DEFINE B == {s \in SUBSET S : ~ \E g : IsSum(g, w, s)}
<1> SUFFICES ASSUME ~ \E g : IsSum(g, w, S) PROVE FALSE
  OBVIOUS
<1>1. B # {} /\ \A s \in B : IsFiniteSet(s)
  BY FS_Subset
<1>2. PICK T \in B : \A t \in B : Cardinality(T) <= Cardinality(t)
  <2> HIDE DEF B
  <2> QED  BY <1>1, SmallestSet
<1>3. IsFiniteSet(T) /\ T \in SUBSET S
  BY <1>1, <1>2
<1> DEFINE G(u) == CHOOSE g : IsSum(g, w, u)
<1>4. ASSUME NEW u \in SUBSET T, u # T
      PROVE  IsFiniteSet(u) /\ IsSum(G(u), w, u)
  <2>1. IsFiniteSet(u) /\ Cardinality(u) < Cardinality(T)
    BY <1>3, <1>4, FS_Subset, FS_CardinalityType
  <2>2. u \notin B
    BY <1>2, <1>3, <2>1, FS_CardinalityType
  <2>3. \E g : IsSum(g, w, u)
    BY <1>3, <2>2
  <2> QED  BY <2>1, <2>3
<1> DEFINE V(s) == IF s = {} THEN 0
                   ELSE w[AnyOf(s)] + G(s \ {AnyOf(s)})[s \ {AnyOf(s)}]
           h == [s \in SUBSET T |-> V(s)]
<1>5. ASSUME NEW u \in SUBSET T, u # T
      PROVE  h[u] = G(u)[u]
  <2>1. h[u] = V(u)
    OBVIOUS
  <2>2. IsSum(G(u), w, u)
    BY <1>4, <1>5
  <2>3. CASE u = {}
    <3>1. G(u)[u] = 0
      <4> HIDE DEF G
      <4> QED  BY <2>2, <2>3, IsSumStep
    <3> QED  BY <2>1, <2>3, <3>1
  <2>4. CASE u # {}
    <3> DEFINE r == u \ {AnyOf(u)}
    <3>1. AnyOf(u) \in u /\ G(u)[u] = w[AnyOf(u)] + G(u)[r]
      <4> HIDE DEF G
      <4> QED  BY <2>2, <2>4, IsSumStep
    <3>2. r \in SUBSET T /\ r # T
      BY <1>5, <3>1
    <3>3. IsFiniteSet(r) /\ IsSum(G(r), w, r)
      <4> HIDE DEF r, G
      <4> QED  BY <1>4, <3>2
    <3>4. G(u)[r] = G(r)[r]
      <4> HIDE DEF G
      <4> QED  BY <2>2, <3>3, SumsAgree
    <3> QED  BY <2>1, <2>4, <3>1, <3>4
  <2> QED  BY <2>3, <2>4
<1>6. ASSUME NEW s \in SUBSET T
      PROVE  V(s) = IF s = {} THEN 0 ELSE w[AnyOf(s)] + h[s \ {AnyOf(s)}]
  <2>1. CASE s = {}
    BY <2>1
  <2>2. CASE s # {}
    <3> DEFINE r == s \ {AnyOf(s)}
    <3>1. AnyOf(s) \in s
      BY <2>2 DEF AnyOf
    <3>2. r \in SUBSET T /\ r # T
      BY <1>6, <3>1
    <3>3. h[r] = G(r)[r]
      <4> HIDE DEF r, G, h
      <4> QED  BY <1>5, <3>2
    <3>4. V(s) = w[AnyOf(s)] + G(r)[r]
      BY <2>2
    <3> HIDE DEF V, h
    <3> QED  BY <2>2, <3>3, <3>4
  <2> QED  BY <2>1, <2>2
<1>7. IsSum(h, w, T)
  <2> HIDE DEF V
  <2>1. h = [s \in SUBSET T |-> V(s)]
    OBVIOUS
  <2> HIDE DEF h
  <2>2. h = [s \in SUBSET T |-> IF s = {} THEN 0 ELSE w[AnyOf(s)] + h[s \ {AnyOf(s)}]]
    BY <1>6, <2>1
  <2> QED  BY <2>2 DEF IsSum
<1>8. T \notin B
  <2> HIDE DEF h
  <2> QED  BY <1>7
<1> QED  BY <1>2, <1>8

\* The sum is a value of such a function.
LEMMA SumOfIsSum ==
    ASSUME NEW w, NEW S, IsFiniteSet(S)
    PROVE  \E g : IsSum(g, w, S) /\ SumOf(w, S) = g[S]
<1>1. IsSum(CHOOSE g : IsSum(g, w, S), w, S)
  BY SumExists
<1> QED  BY <1>1 DEF SumOf

\* Any function that obeys the recursion gives the sum.
LEMMA SumIs ==
    ASSUME NEW w, NEW v, NEW S, IsFiniteSet(S), NEW T, S \subseteq T, NEW g, IsSum(g, v, T),
           \A x \in S : w[x] = v[x]
    PROVE  SumOf(w, S) = g[S]
<1>1. PICK h : IsSum(h, w, S) /\ SumOf(w, S) = h[S]
  BY SumOfIsSum
<1>2. h[S] = g[S]
  BY <1>1, SumsAgree
<1> QED  BY <1>1, <1>2

\* In particular those that obey it on S itself.
LEMMA SumIsOwn ==
    ASSUME NEW w, NEW S, IsFiniteSet(S), NEW g, IsSum(g, w, S)
    PROVE  SumOf(w, S) = g[S]
<1>1. PICK h : IsSum(h, w, S) /\ SumOf(w, S) = h[S]
  BY SumOfIsSum
<1>2. g[S] = h[S]
  BY <1>1, SumsAgree
<1> QED  BY <1>1, <1>2

\* The sum depends on the weights of the elements only.
LEMMA SumSame ==
    ASSUME NEW w, NEW v, NEW S, IsFiniteSet(S), \A x \in S : w[x] = v[x]
    PROVE  SumOf(w, S) = SumOf(v, S)
<1>1. PICK g : IsSum(g, v, S) /\ SumOf(v, S) = g[S]
  BY SumOfIsSum
<1> QED  BY <1>1, SumIs

\* The sum over no elements.
LEMMA SumEmpty ==
    ASSUME NEW w
    PROVE  SumOf(w, {}) = 0
<1>1. PICK g : IsSum(g, w, {}) /\ SumOf(w, {}) = g[{}]
  BY SumOfIsSum, FS_EmptySet
<1> QED  BY <1>1, IsSumStep

\* One step of the sum, as the recursion takes it.
LEMMA SumStep ==
    ASSUME NEW w, NEW S, IsFiniteSet(S), S # {}
    PROVE  /\ AnyOf(S) \in S
           /\ SumOf(w, S) = w[AnyOf(S)] + SumOf(w, S \ {AnyOf(S)})
<1>1. PICK g : IsSum(g, w, S) /\ SumOf(w, S) = g[S]
  BY SumOfIsSum
<1>2. AnyOf(S) \in S /\ g[S] = w[AnyOf(S)] + g[S \ {AnyOf(S)}]
  BY <1>1, IsSumStep
<1>3. IsFiniteSet(S \ {AnyOf(S)})
  BY FS_RemoveElement
<1>4. SumOf(w, S \ {AnyOf(S)}) = g[S \ {AnyOf(S)}]
  <2> DEFINE r == S \ {AnyOf(S)}
  <2>1. IsFiniteSet(r) /\ r \subseteq S /\ \A x \in r : w[x] = w[x]
    BY <1>3
  <2> HIDE DEF r
  <2>2. SumOf(w, r) = g[r]
    BY <1>1, <2>1, SumIs
  <2> QED  BY <2>2 DEF r
<1> QED  BY <1>1, <1>2, <1>4

\* Weights that are all zero sum to zero.
LEMMA SumZero ==
    ASSUME NEW w, NEW S, IsFiniteSet(S), \A x \in S : w[x] = 0
    PROVE  SumOf(w, S) = 0
<1> DEFINE B == {s \in SUBSET S : SumOf(w, s) # 0}
<1> SUFFICES ASSUME SumOf(w, S) # 0 PROVE FALSE
  OBVIOUS
<1>1. B # {} /\ \A s \in B : IsFiniteSet(s)
  BY FS_Subset
<1>2. PICK s \in B : \A u \in B : Cardinality(s) <= Cardinality(u)
  <2> HIDE DEF B
  <2> QED  BY <1>1, SmallestSet
<1>3. s # {} /\ IsFiniteSet(s)
  BY <1>1, <1>2, SumEmpty
<1>4. AnyOf(s) \in s /\ SumOf(w, s) = w[AnyOf(s)] + SumOf(w, s \ {AnyOf(s)})
  BY <1>3, SumStep
<1>5. s \ {AnyOf(s)} \notin B
  BY <1>2, <1>3, <1>4, SmallerWithout
<1> QED  BY <1>2, <1>4, <1>5

\* Sums of natural numbers are natural numbers.
LEMMA SumType ==
    ASSUME NEW w, NEW S, IsFiniteSet(S), \A x \in S : w[x] \in Nat
    PROVE  SumOf(w, S) \in Nat
<1> DEFINE B == {s \in SUBSET S : SumOf(w, s) \notin Nat}
<1> SUFFICES ASSUME SumOf(w, S) \notin Nat PROVE FALSE
  OBVIOUS
<1>1. B # {} /\ \A s \in B : IsFiniteSet(s)
  BY FS_Subset
<1>2. PICK s \in B : \A t \in B : Cardinality(s) <= Cardinality(t)
  <2> HIDE DEF B
  <2> QED  BY <1>1, SmallestSet
<1>3. s # {}
  BY SumEmpty
<1> DEFINE r == s \ {AnyOf(s)}
<1>4. AnyOf(s) \in s /\ SumOf(w, s) = w[AnyOf(s)] + SumOf(w, r)
  BY <1>1, <1>3, SumStep
<1>5. r \notin B
  BY <1>1, <1>2, <1>4, FS_RemoveElement, FS_CardinalityType
<1> QED  BY <1>4, <1>5

\* Any element may be taken out first.
LEMMA SumRemove ==
    ASSUME NEW w, NEW S, IsFiniteSet(S), \A x \in S : w[x] \in Nat, NEW a \in S
    PROVE  SumOf(w, S) = w[a] + SumOf(w, S \ {a})
<1> DEFINE Good(s) == \A x \in s : SumOf(w, s) = w[x] + SumOf(w, s \ {x})
           B == {s \in SUBSET S : ~Good(s)}
<1> SUFFICES ASSUME ~Good(S) PROVE FALSE
  OBVIOUS
<1>1. B # {} /\ \A s \in B : IsFiniteSet(s)
  <2> HIDE DEF Good
  <2> QED  BY FS_Subset
<1>2. PICK s \in B : \A t \in B : Cardinality(s) <= Cardinality(t)
  <2> HIDE DEF B
  <2> QED  BY <1>1, SmallestSet
<1>3. PICK x \in s : SumOf(w, s) # w[x] + SumOf(w, s \ {x})
  BY <1>2
<1> DEFINE y == AnyOf(s)
<1>4. IsFiniteSet(s) /\ s \in SUBSET S
  BY <1>1, <1>2
<1>5. y \in s /\ SumOf(w, s) = w[y] + SumOf(w, s \ {y})
  BY <1>3, <1>4, SumStep
<1> HIDE DEF y
<1>6. x # y
  BY <1>3, <1>5
<1>7. Good(s \ {y}) /\ Good(s \ {x})
  <2>1. ASSUME NEW z \in s PROVE s \ {z} \notin B
    <3> HIDE DEF B, Good
    <3>1. Cardinality(s \ {z}) < Cardinality(s)
      BY <1>4, <2>1, SmallerWithout
    <3> QED  BY <1>2, <1>4, <2>1, <3>1, SmallerWithout
  <2>2. \A z \in s : s \ {z} \in SUBSET S
    BY <1>4
  <2> HIDE DEF Good
  <2> QED  BY <1>3, <1>5, <2>1, <2>2
<1>8. /\ SumOf(w, s \ {y}) = w[x] + SumOf(w, (s \ {y}) \ {x})
      /\ SumOf(w, s \ {x}) = w[y] + SumOf(w, (s \ {x}) \ {y})
  BY <1>3, <1>5, <1>6, <1>7
<1>9. (s \ {y}) \ {x} = (s \ {x}) \ {y}
  OBVIOUS
<1>10. w[x] \in Nat /\ w[y] \in Nat /\ SumOf(w, (s \ {x}) \ {y}) \in Nat
  <2>1. IsFiniteSet((s \ {x}) \ {y})
    BY <1>4, FS_RemoveElement
  <2> QED  BY <1>3, <1>4, <1>5, <2>1, SumType
<1> DEFINE rest == SumOf(w, (s \ {x}) \ {y})
<1>11. /\ SumOf(w, s) = w[y] + (w[x] + rest)
       /\ w[x] + SumOf(w, s \ {x}) = w[x] + (w[y] + rest)
  BY <1>5, <1>8, <1>9
<1>12. rest \in Nat
  BY <1>10
<1> HIDE DEF rest
<1>13. w[y] + (w[x] + rest) = w[x] + (w[y] + rest)
  BY <1>10, <1>12
<1> QED  BY <1>3, <1>11, <1>13

\* One more element adds its weight.
LEMMA SumAdd ==
    ASSUME NEW w, NEW S, IsFiniteSet(S), \A x \in S : w[x] \in Nat,
           NEW a, a \notin S, w[a] \in Nat
    PROVE  SumOf(w, S \cup {a}) = SumOf(w, S) + w[a]
<1>1. IsFiniteSet(S \cup {a}) /\ (S \cup {a}) \ {a} = S
  BY FS_AddElement
<1>2. SumOf(w, S) \in Nat
  BY SumType
<1> QED  BY <1>1, <1>2, SumRemove

\* A subset weighs no more.
LEMMA SumSubset ==
    ASSUME NEW w, NEW S, IsFiniteSet(S), \A x \in S : w[x] \in Nat, NEW T \in SUBSET S
    PROVE  SumOf(w, T) <= SumOf(w, S)
<1> DEFINE B == {s \in SUBSET S : T \subseteq s /\ ~(SumOf(w, T) <= SumOf(w, s))}
<1> SUFFICES ASSUME S \in B PROVE FALSE
  OBVIOUS
<1>0. \A s \in SUBSET S : IsFiniteSet(s) /\ SumOf(w, s) \in Nat
  BY FS_Subset, SumType
<1>1. B # {} /\ \A s \in B : IsFiniteSet(s)
  BY FS_Subset
<1>2. PICK s \in B : \A t \in B : Cardinality(s) <= Cardinality(t)
  <2> HIDE DEF B
  <2> QED  BY <1>1, SmallestSet
<1>3. s # T /\ s \in SUBSET S /\ T \subseteq s
  BY <1>0
<1>4. PICK x \in s : x \notin T
  BY <1>3
<1>5. s \ {x} \notin B
  BY <1>1, <1>2, <1>4, FS_RemoveElement, FS_CardinalityType
<1>6. SumOf(w, T) <= SumOf(w, s \ {x})
  BY <1>3, <1>4, <1>5
<1>7. SumOf(w, s) = w[x] + SumOf(w, s \ {x})
  BY <1>0, <1>3, SumRemove
<1>8. SumOf(w, s \ {x}) \in Nat /\ SumOf(w, T) \in Nat /\ w[x] \in Nat /\ SumOf(w, s) \in Nat
  BY <1>0, <1>3
<1>9. SumOf(w, T) <= SumOf(w, s)
  BY <1>6, <1>7, <1>8
<1> QED  BY <1>2, <1>9

-----------------------------------------------------------------------------
(* Types. *)

\* The memory of a request is a natural number, however many tokens a cache
\* hit saves.
LEMMA RequestMemoryType ==
    ASSUME NEW k \in Keys, NEW prompt \in Nat, NEW gen \in Nat, NEW saved \in Nat
    PROVE  RequestMemory(k, prompt, gen, saved) \in Nat
<1>1. prompt + gen - saved \in Int  OBVIOUS
<1>2. Max({1, prompt + gen - saved}) \in Nat
  BY <1>1, MaxNatural
<1>3. ModelScale[k] \in Nat  BY CacheAssumption
<1> DEFINE m == Max({1, prompt + gen - saved})
<1>4. 20 * ModelScale[k] * m \in Nat
  <2> HIDE DEF m
  <2>1. m \in Nat  BY <1>2 DEF m
  <2> QED  BY <2>1, <1>3
<1> QED  BY <1>4 DEF RequestMemory

\* The hit ratio of an entry is a natural number.
LEMMA HitRatioType ==
    ASSUME NEW e \in Entry, NEW p \in Pools, NEW now \in Nat
    PROVE  HitRatio(e, p, now) \in Nat
<1> DEFINE age   == 10 * (Ttl - (now - e.last_touched))
           fresh == Max({Ttl, age})
           bonus == LocationBonus(e, p)
<1>1. Ttl \in Nat /\ age \in Int
  BY CacheAssumption DEF Entry
<1>2. fresh \in Nat
  <2> HIDE DEF age
  <2> QED  BY <1>1, MaxNatural
<1>3. bonus \in Nat
  BY DEF LocationBonus
<1>4. fresh * bonus \in Nat /\ 950 * Ttl \in Nat
  <2> HIDE DEF fresh, bonus
  <2> QED  BY <1>1, <1>2, <1>3
<1>5. Min({950 * Ttl, fresh * bonus}) \in Nat
  <2> HIDE DEF fresh, bonus
  <2> QED  BY <1>4, MinOfTwo
<1> QED  BY <1>5 DEF HitRatio

\* The tokens a hit saves are a natural number.
LEMMA SavedTokensType ==
    ASSUME NEW e \in Entry, NEW p \in Pools, NEW prompt \in Nat, NEW now \in Nat
    PROVE  SavedTokens(e, prompt, p, now) \in Nat
<1> DEFINE size == Min({e.size_tokens, prompt})
           hit  == HitRatio(e, p, now)
<1>1. size \in Nat
  BY MinOfTwo DEF Entry
<1>2. hit \in Nat
  BY HitRatioType
<1>3. Ttl \in Nat \ {0}
  BY CacheAssumption
<1>4. size * hit \in Nat /\ 1000 * Ttl \in Nat \ {0}
  <2> HIDE DEF size, hit
  <2> QED  BY <1>1, <1>2, <1>3
<1>5. \A a \in Nat, b \in Nat \ {0} : a \div b \in Nat
  OBVIOUS
<1> QED  BY <1>4, <1>5 DEF SavedTokens

\* What score() returns is a pair of natural numbers, and it adds at most one
\* to the hit count of an entry.
LEMMA ScoresType ==
    ASSUME NEW bucket \in SUBSET Entry, NEW p \in Pools, NEW prompt \in Nat,
           NEW now \in Nat, NEW score \in Scores(bucket, prompt, p, now)
    PROVE  score.ratio \in Nat /\ score.saved \in Nat /\ HitIncrement(score) \in Nat
<1>1. \/ score = [ratio |-> 0, saved |-> 0]
      \/ \E e \in bucket : score = [ratio |-> HitRatio(e, p, now),
                                    saved |-> SavedTokens(e, prompt, p, now)]
  BY DEF Scores, Ready
<1>2. score.ratio \in Nat /\ score.saved \in Nat
  BY <1>1, HitRatioType, SavedTokensType
<1> QED  BY <1>2 DEF HitIncrement

\* Consulting a directory, and the mirror if a bucket is empty, gives a
\* directory.
LEMMA ConsultedType ==
    ASSUME NEW dir \in Directory, NEW store \in Directory, NEW k \in Keys,
           NEW p \in Pools, NEW now \in Nat
    PROVE  /\ EvictStale(dir, now) \in Directory
           /\ Consulted(dir, store, k, now) \in Directory
           /\ ConsultedFor(dir, store, k, p, now) \in Directory
           /\ ConsultedByAll(dir, store, k, now) \in Directory
<1>1. \A x \in Directory : EvictStale(x, now) \in Directory
  BY DEF EvictStale, Directory
<1>2. \A x \in Directory : HydrateFromRedis(x, store, k) \in Directory
  BY DEF HydrateFromRedis, Directory
<1>3. \A x \in Directory : Consulted(x, store, k, now) \in Directory
  BY <1>1, <1>2 DEF Consulted
<1> QED  BY <1>1, <1>3 DEF ConsultedFor, ConsultedByAll

\* A consulted bucket is part of the bucket in memory or of the mirrored one.
LEMMA ConsultedPart ==
    ASSUME NEW dir \in Directory, NEW store \in Directory, NEW k \in Keys,
           NEW now \in Nat, NEW x \in Keys
    PROVE  LET seen == Consulted(dir, store, k, now)
           IN  seen[x] \subseteq dir[x] \/ seen[x] \subseteq store[x]
<1> DEFINE z == EvictStale(dir, now)
<1>1. z \in Directory /\ z[x] \subseteq dir[x]
  BY DEF EvictStale, Directory
<1>2. Consulted(dir, store, k, now) = HydrateFromRedis(z, store, k)
  BY DEF Consulted
<1> HIDE DEF z
<1>3. \/ HydrateFromRedis(z, store, k)[x] = z[x]
      \/ HydrateFromRedis(z, store, k)[x] = store[x]
  BY <1>1 DEF HydrateFromRedis, Directory
<1> QED  BY <1>1, <1>2, <1>3

\* The updated bucket of observe() holds entries.
LEMMA TouchedType ==
    ASSUME NEW bucket \in SUBSET Entry, NEW p \in Pools, NEW prompt \in Nat,
           NEW mem \in Nat, NEW finish \in Nat, NEW hits \in Nat
    PROVE  Touched(bucket, p, prompt, mem, finish, hits) \subseteq Entry
<1>1. (11 * mem) \div 20 \in Nat
  OBVIOUS
<1>2. NewEntry(p, prompt, mem, finish, hits) \in Entry
  BY <1>1 DEF NewEntry, Entry
<1>3. \A e \in Entry : TouchedEntry(e, prompt, mem, finish, hits) \in Entry
  <2> SUFFICES ASSUME NEW e \in Entry
               PROVE  TouchedEntry(e, prompt, mem, finish, hits) \in Entry
    OBVIOUS
  <2> DEFINE size  == Max({e.size_tokens, prompt})
             space == Max({e.size_gb, (11 * mem) \div 20})
  <2>1. size \in Nat
    BY MaxNatural DEF Entry
  <2>2. space \in Nat
    BY <1>1, MaxNatural DEF Entry
  <2>3. e.hit_count + hits \in Nat
    BY DEF Entry
  <2>4. TouchedEntry(e, prompt, mem, finish, hits) =
          [e EXCEPT !.size_tokens = size, !.size_gb = space, !.available_ts = finish,
                    !.last_touched = finish, !.hit_count = e.hit_count + hits]
    BY DEF TouchedEntry
  <2> HIDE DEF size, space
  <2> QED  BY <2>1, <2>2, <2>3, <2>4 DEF Entry
<1> QED  BY <1>2, <1>3 DEF Touched

\* The cap only removes entries.
LEMMA CappedSubset ==
    ASSUME NEW bucket, NEW b \in Capped(bucket)
    PROVE  b \subseteq bucket
BY DEF Capped, kSubset

\* The trim only removes entries.
LEMMA TrimmedSubset ==
    ASSUME NEW dir \in Directory, NEW d \in Trimmed(dir)
    PROVE  d \in Directory /\ \A k \in Keys : d[k] \subseteq dir[k]
BY DEF Trimmed, Directory

-----------------------------------------------------------------------------
(* The shape of the buckets. *)

\* A finite bucket with at most one entry per pool, not above the cap.
ShapedBucket(b) == /\ IsFiniteSet(b)
                   /\ Cardinality(b) <= BucketCap
                   /\ \A e, f \in b : e.pool = f.pool => e = f

\* A part of a well-shaped bucket is well shaped.
LEMMA ShapedSubset ==
    ASSUME NEW b, ShapedBucket(b), NEW c \in SUBSET b
    PROVE  ShapedBucket(c)
<1>1. IsFiniteSet(c) /\ Cardinality(c) <= Cardinality(b)
  BY FS_Subset DEF ShapedBucket
<1>2. Cardinality(b) \in Nat /\ Cardinality(c) \in Nat /\ BucketCap \in Nat
  BY <1>1, FS_CardinalityType, CacheAssumption DEF ShapedBucket
<1> QED  BY <1>1, <1>2 DEF ShapedBucket

\* Observing a request and capping the bucket gives a well-shaped bucket.
LEMMA TouchedCappedShape ==
    ASSUME NEW bucket \in SUBSET Entry, ShapedBucket(bucket), NEW p \in Pools,
           NEW prompt \in Nat, NEW mem \in Nat, NEW finish \in Nat, NEW hits \in Nat,
           NEW b \in Capped(Touched(bucket, p, prompt, mem, finish, hits))
    PROVE  ShapedBucket(b)
<1> DEFINE touched == Touched(bucket, p, prompt, mem, finish, hits)
           touch == [e \in bucket |-> IF e.pool = p
                                      THEN TouchedEntry(e, prompt, mem, finish, hits) ELSE e]
<1>1. IsFiniteSet(bucket) /\ \A e, f \in bucket : e.pool = f.pool => e = f
  BY DEF ShapedBucket
<1>2. \A e \in bucket : touch[e].pool = e.pool
  BY DEF TouchedEntry, Entry
<1>3. IsFiniteSet(touched) /\ \A e, f \in touched : e.pool = f.pool => e = f
  <2>1. CASE \E e \in bucket : e.pool = p
    <3>1. touched = {touch[e] : e \in bucket}
      BY <2>1 DEF Touched
    <3>2. DOMAIN touch = bucket /\ touch = [e \in bucket |-> touch[e]]
      OBVIOUS
    <3> HIDE DEF touch, touched
    <3>3. touch \in Surjection(bucket, touched)
      BY <3>1, <3>2 DEF Surjection
    <3>4. IsFiniteSet(touched)
      BY <1>1, <3>3, FS_Surjection
    <3>5. \A e, f \in touched : e.pool = f.pool => e = f
      BY <1>1, <1>2, <3>1
    <3> QED  BY <3>4, <3>5
  <2>2. CASE ~\E e \in bucket : e.pool = p
    <3> DEFINE new == NewEntry(p, prompt, mem, finish, hits)
    <3>1. touched = bucket \cup {new} /\ new.pool = p
      BY <2>2 DEF Touched, NewEntry
    <3> HIDE DEF new, touched
    <3>2. IsFiniteSet(touched)
      BY <1>1, <3>1, FS_AddElement
    <3> QED  BY <1>1, <2>2, <3>1, <3>2
  <2> QED  BY <2>1, <2>2
<1> HIDE DEF touched
<1>4. b \subseteq touched /\ (b = touched \/ Cardinality(b) = BucketCap)
  BY DEF Capped, kSubset, touched
<1>5. IsFiniteSet(b)
  BY <1>3, <1>4, FS_Subset
<1>6. Cardinality(b) <= BucketCap
  BY CacheAssumption DEF Capped, kSubset
<1> QED  BY <1>3, <1>4, <1>5, <1>6 DEF ShapedBucket

ShapedDirectory(dir) == \A k \in Keys : ShapedBucket(dir[k])

-----------------------------------------------------------------------------
(* The items of a directory. *)

\* An item is a key with an entry of its bucket.
LEMMA ItemOf ==
    ASSUME NEW dir, NEW k, NEW e
    PROVE  <<k, e>> \in Items(dir) <=> k \in Keys /\ e \in dir[k]
BY DEF Items

\* Every item is such a pair.
LEMMA ItemPair ==
    ASSUME NEW dir, NEW i \in Items(dir)
    PROVE  i = <<i[1], i[2]>> /\ i[1] \in Keys /\ i[2] \in dir[i[1]]
BY DEF Items

\* Smaller buckets make fewer items.
LEMMA ItemsSubset ==
    ASSUME NEW dir, NEW other, \A k \in Keys : other[k] \subseteq dir[k]
    PROVE  Items(other) \subseteq Items(dir)
BY DEF Items

\* A directory that differs in one finite bucket has finitely many items if
\* the other has.
LEMMA ItemsFinite ==
    ASSUME NEW dir, IsFiniteSet(Items(dir)), NEW k \in Keys, NEW other,
           IsFiniteSet(other[k]), \A x \in Keys \ {k} : other[x] = dir[x]
    PROVE  IsFiniteSet(Items(other))
<1>1. Items(other) \subseteq Items(dir) \cup ({k} \X other[k])
  BY DEF Items
<1>2. IsFiniteSet({k} \X other[k])
  BY FS_Product, FS_Singleton
<1>3. IsFiniteSet(Items(dir) \cup ({k} \X other[k]))
  BY <1>2, FS_Union
<1> QED  BY <1>1, <1>3, FS_Subset

\* After the trim a directory holds no more than MaxEntries items.
LEMMA TrimmedBounded ==
    ASSUME NEW dir, NEW d \in Trimmed(dir)
    PROVE  ~Overfull(d)
<1>1. CASE ~Overfull(dir)
  BY <1>1 DEF Trimmed
<1>2. CASE Overfull(dir)
  <2>1. PICK kept \in kSubset(MaxEntries, Items(dir)) :
          d = [k \in Keys |-> {e \in dir[k] : <<k, e>> \in kept}]
    BY <1>2 DEF Trimmed
  <2>2. kept \subseteq Items(dir) /\ Cardinality(kept) = MaxEntries
    BY <2>1 DEF kSubset
  <2>3. ASSUME NEW i \in Items(d) PROVE i \in kept
    <3>1. i = <<i[1], i[2]>> /\ i[1] \in Keys /\ i[2] \in d[i[1]]
      BY <2>3, ItemPair
    <3> QED  BY <2>1, <3>1
  <2>4. ASSUME NEW i \in kept PROVE i \in Items(d)
    <3>1. i = <<i[1], i[2]>> /\ i[1] \in Keys /\ i[2] \in dir[i[1]]
      BY <2>2, <2>4, ItemPair
    <3>2. i[2] \in d[i[1]]
      BY <2>1, <2>4, <3>1
    <3> QED  BY <3>1, <3>2, ItemOf
  <2>5. Items(d) = kept
    BY <2>3, <2>4
  <2> QED  BY <2>2, <2>5, CacheAssumption DEF Overfull
<1> QED  BY <1>1, <1>2

\* An item that the trim removes ranks above none that it keeps.
LEMMA TrimmedRanks ==
    ASSUME NEW dir, NEW d \in Trimmed(dir), NEW k \in Keys, NEW e \in dir[k],
           e \notin d[k], NEW l \in Keys, NEW f \in d[l]
    PROVE  ~Outranks(e, f)
<1>1. Overfull(dir)
  BY DEF Trimmed
<1>2. PICK kept \in kSubset(MaxEntries, Items(dir)) :
        /\ d = [x \in Keys |-> {y \in dir[x] : <<x, y>> \in kept}]
        /\ \A i \in kept, j \in Items(dir) \ kept : ~Outranks(j[2], i[2])
  BY <1>1 DEF Trimmed
<1>3. <<l, f>> \in kept /\ <<k, e>> \in Items(dir) \ kept
  BY <1>2, ItemOf
<1>4. ~Outranks(<<k, e>>[2], <<l, f>>[2])
  BY <1>2, <1>3
<1> QED  BY <1>4

-----------------------------------------------------------------------------
(* The memory a directory reserves. *)

ItemsAt(dir, p) == {i \in Items(dir) : i[2].pool = p}

SizeOf == [i \in Keys \X Entry |-> i[2].size_gb]

\* Items are pairs of a key and an entry, with a natural size.
LEMMA ItemsAtType ==
    ASSUME NEW dir \in Directory, NEW p, NEW i \in ItemsAt(dir, p)
    PROVE  i \in Keys \X Entry /\ SizeOf[i] = i[2].size_gb /\ SizeOf[i] \in Nat
<1>1. i = <<i[1], i[2]>> /\ i[1] \in Keys /\ i[2] \in dir[i[1]]
  BY ItemPair DEF ItemsAt
<1>2. i[2] \in Entry /\ i \in Keys \X Entry
  BY <1>1 DEF Directory
<1>3. SizeOf[i] = i[2].size_gb
  BY <1>2 DEF SizeOf
<1> QED  BY <1>2, <1>3 DEF Entry

\* reserved_gb() is the sum of the sizes of a pool's items.
LEMMA ReservedIsSum ==
    ASSUME NEW dir \in Directory, IsFiniteSet(Items(dir)), NEW p
    PROVE  /\ IsFiniteSet(ItemsAt(dir, p))
           /\ ReservedGb(dir, p) = SumOf(SizeOf, ItemsAt(dir, p))
           /\ ReservedGb(dir, p) \in Nat
<1> DEFINE S == ItemsAt(dir, p)
           F(g) == [s \in SUBSET S |->
                      IF s = {} THEN 0
                      ELSE AnyOf(s)[2].size_gb + g[s \ {AnyOf(s)}]]
<1>1. IsFiniteSet(S)
  BY FS_Subset DEF ItemsAt
<1>2. ReservedGb(dir, p) = (CHOOSE g : g = F(g))[S]
  BY DEF ReservedGb, MapThenSumSet, MapThenFoldSet, AnyOf, ItemsAt
<1>3. \A g : IsSum(g, SizeOf, S) <=> g = F(g)
  <2>1. \A s \in SUBSET S : s # {} => AnyOf(s) \in S
    BY DEF AnyOf
  <2>2. \A i \in S : SizeOf[i] = i[2].size_gb
    BY ItemsAtType
  <2> HIDE DEF S
  <2> QED  BY <2>1, <2>2 DEF IsSum
<1> DEFINE G == CHOOSE g : g = F(g)
<1>4. G = F(G)
  <2>1. PICK g : IsSum(g, SizeOf, S)
    BY <1>1, SumExists
  <2>2. g = F(g)
    BY <1>3, <2>1
  <2> HIDE DEF F
  <2> QED  BY <2>2
<1>5. IsSum(G, SizeOf, S)
  BY <1>3, <1>4
<1>6. SumOf(SizeOf, S) = G[S]
  <2> HIDE DEF G, S
  <2> QED  BY <1>1, <1>5, SumIs
<1>7. SumOf(SizeOf, S) \in Nat
  <2>1. \A i \in S : SizeOf[i] \in Nat
    BY ItemsAtType
  <2> HIDE DEF S
  <2> QED  BY <1>1, <2>1, SumType
<1> QED  BY <1>1, <1>2, <1>6, <1>7

\* A smaller directory reserves no more.
LEMMA ReservedSubset ==
    ASSUME NEW dir \in Directory, IsFiniteSet(Items(dir)), NEW other \in Directory,
           \A k \in Keys : other[k] \subseteq dir[k], NEW p
    PROVE  IsFiniteSet(Items(other)) /\ ReservedGb(other, p) <= ReservedGb(dir, p)
<1>1. Items(other) \subseteq Items(dir)
  BY ItemsSubset
<1>2. IsFiniteSet(Items(other))
  BY <1>1, FS_Subset
<1>3. ItemsAt(other, p) \subseteq ItemsAt(dir, p)
  BY <1>1 DEF ItemsAt
<1>4. SumOf(SizeOf, ItemsAt(other, p)) <= SumOf(SizeOf, ItemsAt(dir, p))
  BY <1>3, ReservedIsSum, ItemsAtType, SumSubset
<1> QED  BY <1>2, <1>4, ReservedIsSum

\* Observing a request at pool p adds at most 0.55 of the request's memory to
\* what the directory reserves there, and nothing elsewhere: the sizes of an
\* entry are maxima, not sums.
LEMMA ReservedAfterObserve ==
    ASSUME NEW seen \in Directory, IsFiniteSet(Items(seen)), NEW k \in Keys,
           ShapedBucket(seen[k]), NEW p \in Pools, NEW prompt \in Nat, NEW mem \in Nat,
           NEW finish \in Nat, NEW hits \in Nat, NEW after \in Directory,
           \A y \in Keys : y # k => after[y] = seen[y],
           after[k] \subseteq Touched(seen[k], p, prompt, mem, finish, hits),
           IsFiniteSet(Items(after)), NEW q \in Pools
    PROVE  ReservedGb(after, q)
             <= ReservedGb(seen, q) + (IF q = p THEN (11 * mem) \div 20 ELSE 0)
<1> DEFINE old == ItemsAt(seen, q)
           new == ItemsAt(after, q)
           gb  == (11 * mem) \div 20
<1>1. gb \in Nat
  OBVIOUS
<1>2. /\ ReservedGb(seen, q) = SumOf(SizeOf, old) /\ IsFiniteSet(old)
      /\ ReservedGb(after, q) = SumOf(SizeOf, new) /\ IsFiniteSet(new)
      /\ SumOf(SizeOf, old) \in Nat /\ SumOf(SizeOf, new) \in Nat
  BY ReservedIsSum
<1>3. /\ \A i \in old : i \in Keys \X Entry /\ SizeOf[i] \in Nat
      /\ \A i \in new : i \in Keys \X Entry /\ SizeOf[i] \in Nat
  BY ItemsAtType
<1>4. ASSUME NEW i \in new, i[1] # k
      PROVE  i \in old
  <2>1. i = <<i[1], i[2]>> /\ i[1] \in Keys /\ i[2] \in after[i[1]] /\ i[2].pool = q
    BY <1>4, ItemPair DEF ItemsAt
  <2>2. <<i[1], i[2]>> \in Items(seen)
    BY <1>4, <2>1, ItemOf
  <2> QED  BY <2>1, <2>2 DEF ItemsAt
<1>5. ASSUME NEW i \in new, i[1] = k
      PROVE  /\ i = <<k, i[2]>> /\ i[2].pool = q
             /\ i[2] \in Touched(seen[k], p, prompt, mem, finish, hits)
  BY <1>5, ItemPair DEF ItemsAt
<1>6. \A e \in seen[k] : e \in Entry
  BY DEF Directory
<1>7. \A e \in seen[k] : TouchedEntry(e, prompt, mem, finish, hits).pool = e.pool
  BY <1>6 DEF TouchedEntry, Entry
<1>8. \A e \in seen[k] : e.pool = q => <<k, e>> \in old
  <2> SUFFICES ASSUME NEW e \in seen[k], e.pool = q PROVE <<k, e>> \in old
    OBVIOUS
  <2>1. <<k, e>> \in Items(seen)
    BY ItemOf
  <2> QED  BY <2>1 DEF ItemsAt
<1>9. CASE q # p
  <2>1. new \subseteq old
    <3> SUFFICES ASSUME NEW i \in new, i[1] = k PROVE i \in old
      BY <1>4
    <3>1. i[2] \in seen[k]
      <4>1. i[2].pool = q /\ i[2] \in Touched(seen[k], p, prompt, mem, finish, hits)
        BY <1>5
      <4>2. NewEntry(p, prompt, mem, finish, hits).pool = p
        BY DEF NewEntry
      <4> QED  BY <1>7, <1>9, <4>1, <4>2 DEF Touched
    <3> QED  BY <1>5, <1>8, <3>1
  <2>2. SumOf(SizeOf, new) <= SumOf(SizeOf, old)
    <3> HIDE DEF new, old
    <3> QED  BY <1>2, <1>3, <2>1, SumSubset
  <2> QED  BY <1>2, <1>9, <2>2
<1>10. CASE q = p /\ ~\E e \in seen[k] : e.pool = p
  <2> DEFINE x == <<k, NewEntry(p, prompt, mem, finish, hits)>>
  <2>1. NewEntry(p, prompt, mem, finish, hits) \in Entry
    BY <1>1 DEF NewEntry, Entry
  <2>2. x \in Keys \X Entry /\ x[1] = k /\ x[2].size_gb = gb /\ SizeOf[x] = gb
    <3>1. x \in Keys \X Entry /\ x[1] = k /\ x[2].size_gb = gb
      BY <2>1 DEF NewEntry
    <3> HIDE DEF x
    <3> QED  BY <3>1 DEF SizeOf
  <2>3. x \notin old
    <3> SUFFICES ASSUME x \in old PROVE FALSE
      OBVIOUS
    <3>1. x[1] = k /\ x[2] \in seen[x[1]] /\ x[2].pool = q
      BY ItemPair DEF ItemsAt
    <3> QED  BY <1>10, <3>1
  <2>4. new \subseteq old \cup {x}
    <3> SUFFICES ASSUME NEW i \in new, i[1] = k PROVE i \in old \cup {x}
      BY <1>4
    <3>1. i[2] \in seen[k] \/ i[2] = NewEntry(p, prompt, mem, finish, hits)
      BY <1>5, <1>10 DEF Touched
    <3> QED  BY <1>5, <1>8, <3>1
  <2> HIDE DEF x, new, old, gb
  <2>5. SumOf(SizeOf, old \cup {x}) = SumOf(SizeOf, old) + gb
    BY <1>1, <1>2, <1>3, <2>2, <2>3, SumAdd
  <2>6. SumOf(SizeOf, new) <= SumOf(SizeOf, old \cup {x})
    <3>1. IsFiniteSet(old \cup {x}) /\ \A i \in old \cup {x} : SizeOf[i] \in Nat
      BY <1>1, <1>2, <1>3, <2>2, FS_AddElement
    <3> QED  BY <2>4, <3>1, SumSubset
  <2> QED  BY <1>1, <1>2, <1>10, <2>5, <2>6 DEF gb
<1>11. CASE q = p /\ \E e \in seen[k] : e.pool = p
  <2>1. PICK e \in seen[k] : e.pool = p
    BY <1>11
  <2> DEFINE z == TouchedEntry(e, prompt, mem, finish, hits)
             o == <<k, e>>
             x == <<k, z>>
             rest == old \ {o}
  <2>2. \A f \in seen[k] : f.pool = p => f = e
    BY <2>1 DEF ShapedBucket
  <2>3. e.size_gb \in Nat /\ z.size_gb \in Nat /\ z.size_gb <= e.size_gb + gb
    <3>1. e.size_gb \in Nat /\ z.size_gb = Max({e.size_gb, gb})
      BY <1>6, <2>1 DEF TouchedEntry, Entry
    <3> HIDE DEF z, gb
    <3>2. Max({e.size_gb, gb}) \in {e.size_gb, gb}
      <4>1. gb \in Int /\ e.size_gb \in Int
        BY <1>1, <3>1
      <4> QED  BY <4>1, MaxOfTwo
    <3> QED  BY <1>1, <3>1, <3>2
  <2>4. o \in old /\ SizeOf[o] = e.size_gb
    <3>1. o \in old /\ o[2] = e
      BY <1>8, <1>11, <2>1
    <3> HIDE DEF o, old
    <3> QED  BY <3>1, ItemsAtType DEF old
  <2>5. x[1] = k /\ SizeOf[x] = z.size_gb
    <3>1. z \in Entry
      <4>1. z \in Touched(seen[k], p, prompt, mem, finish, hits)
        BY <1>11, <2>1 DEF Touched
      <4>2. seen[k] \in SUBSET Entry
        BY DEF Directory
      <4> HIDE DEF z
      <4> QED  BY <4>1, <4>2, TouchedType
    <3>2. x \in Keys \X Entry /\ x[1] = k /\ x[2] = z
      BY <3>1
    <3> HIDE DEF x, z
    <3> QED  BY <3>2 DEF SizeOf
  <2>6. x \notin rest
    <3> SUFFICES ASSUME x \in rest PROVE FALSE
      OBVIOUS
    <3>1. x[1] = k /\ x[2] = z /\ x[2] \in seen[x[1]] /\ x[2].pool = q
      BY ItemPair DEF ItemsAt
    <3>2. z = e
      BY <1>11, <2>2, <3>1
    <3> QED  BY <3>2
  <2>7. new \subseteq rest \cup {x}
    <3> SUFFICES ASSUME NEW i \in new PROVE i \in rest \cup {x}
      OBVIOUS
    <3>1. CASE i[1] # k
      BY <1>4, <3>1
    <3>2. CASE i[1] = k
      <4>1. i[2] = z
        <5>1. PICK f \in seen[k] : i[2] = IF f.pool = p
                THEN TouchedEntry(f, prompt, mem, finish, hits) ELSE f
          BY <1>5, <1>11, <3>2 DEF Touched
        <5>2. i[2].pool = q
          BY <1>5, <3>2
        <5>3. f.pool = p
          BY <1>11, <5>1, <5>2
        <5> QED  BY <2>2, <5>1, <5>3
      <4> QED  BY <1>5, <3>2, <4>1
    <3> QED  BY <3>1, <3>2
  <2> HIDE DEF o, x, z, new, old, gb
  <2>8. SumOf(SizeOf, old) = e.size_gb + SumOf(SizeOf, rest)
    BY <1>2, <1>3, <2>4, SumRemove
  <2>9. /\ IsFiniteSet(rest) /\ \A i \in rest : SizeOf[i] \in Nat
        /\ SumOf(SizeOf, rest) \in Nat
    BY <1>2, <1>3, FS_RemoveElement, SumType
  <2>10. SumOf(SizeOf, rest \cup {x}) = SumOf(SizeOf, rest) + z.size_gb
    <3> HIDE DEF rest
    <3> QED  BY <2>3, <2>5, <2>6, <2>9, SumAdd
  <2>11. SumOf(SizeOf, new) <= SumOf(SizeOf, rest \cup {x})
    <3> HIDE DEF rest
    <3>1. IsFiniteSet(rest \cup {x}) /\ \A i \in rest \cup {x} : SizeOf[i] \in Nat
      BY <2>3, <2>5, <2>9, FS_AddElement
    <3> QED  BY <2>7, <3>1, SumSubset
  <2> HIDE DEF rest
  <2>12. SumOf(SizeOf, new) <= SumOf(SizeOf, old) + gb
    BY <1>1, <1>2, <2>3, <2>8, <2>9, <2>10, <2>11
  <2> QED  BY <1>2, <1>11, <2>12 DEF gb
<1> QED  BY <1>9, <1>10, <1>11
=============================================================================
