------------------------ MODULE TracePipelineProofs ------------------------
(***************************************************************************)
(* Theorems about TracePipeline, for files and workloads of any length.    *)
(***************************************************************************)
EXTENDS TracePipeline, FiniteSetTheorems, WellFoundedInduction, TLAPS

-----------------------------------------------------------------------------
(* Rounding and division keep order. *)

LEMMA DivType ==
    ASSUME NEW n \in Nat, NEW d \in Nat \ {0}
    PROVE  /\ n \div d \in Nat /\ n % d \in 0 .. d - 1
           /\ n = d * (n \div d) + (n % d)
<1>1. n \div d \in Nat
  OBVIOUS
<1>2. n % d \in 0 .. d - 1
  OBVIOUS
<1>3. n = d * (n \div d) + (n % d)
  OBVIOUS
<1> QED  BY <1>1, <1>2, <1>3

LEMMA ProductMonotone ==
    ASSUME NEW a \in Nat, NEW b \in Nat, NEW c \in Nat, a <= b
    PROVE  c * a <= c * b /\ c * a \in Nat /\ c * b \in Nat
<1>1. c * b = c * a + c * (b - a) /\ b - a \in Nat
  OBVIOUS
<1>2. c * (b - a) \in Nat /\ c * a \in Nat
  BY <1>1
<1> QED  BY <1>1, <1>2

LEMMA DivMonotone ==
    ASSUME NEW m \in Nat, NEW n \in Nat, NEW d \in Nat \ {0}, m <= n
    PROVE  m \div d <= n \div d
<1> DEFINE p == m \div d
           q == n \div d
<1>1. /\ p \in Nat /\ q \in Nat /\ m % d \in 0 .. d - 1 /\ n % d \in 0 .. d - 1
      /\ m = d * p + (m % d) /\ n = d * q + (n % d)
  BY DivType
<1> SUFFICES ASSUME q < p PROVE FALSE
  BY <1>1
<1> HIDE DEF p, q
<1>2. d * (q + 1) <= d * p /\ d * (q + 1) = d * q + d
  BY <1>1, ProductMonotone
<1> QED  BY <1>1, <1>2

\* round() does not exchange two times.
LEMMA RoundMonotone ==
    ASSUME NEW m \in Nat, NEW n \in Nat, NEW grain \in Nat \ {0}, m <= n
    PROVE  /\ RoundHalfEven(m, grain) \in Nat /\ RoundHalfEven(n, grain) \in Nat
           /\ RoundHalfEven(m, grain) <= RoundHalfEven(n, grain)
<1> DEFINE p == m \div grain
           q == n \div grain
           r == m % grain
           s == n % grain
<1>1. /\ p \in Nat /\ q \in Nat /\ r \in Nat /\ s \in Nat
      /\ m = grain * p + r /\ n = grain * q + s
  BY DivType
<1>2. p <= q
  BY DivMonotone
<1>3. p = q => r <= s
  BY <1>1
<1>4. /\ RoundHalfEven(m, grain) =
           IF 2 * r < grain \/ (2 * r = grain /\ p % 2 = 0) THEN p ELSE p + 1
      /\ RoundHalfEven(n, grain) =
           IF 2 * s < grain \/ (2 * s = grain /\ q % 2 = 0) THEN q ELSE q + 1
  BY DEF RoundHalfEven
<1> HIDE DEF p, q, r, s
<1>5. CASE p = q
  <2>1. r <= s
    BY <1>3, <1>5
  <2> QED  BY <1>1, <1>4, <1>5, <2>1
<1>6. CASE p # q
  BY <1>1, <1>2, <1>4, <1>6
<1> QED  BY <1>5, <1>6

LEMMA RoundType ==
    ASSUME NEW n \in Nat, NEW grain \in Nat \ {0}
    PROVE  RoundHalfEven(n, grain) \in Nat
<1>1. n <= n
  OBVIOUS
<1> QED  BY <1>1, RoundMonotone

-----------------------------------------------------------------------------
(* sorted() *)

\* Every non-empty set of naturals has a least element.
LEMMA LeastNatural ==
    ASSUME NEW S \in SUBSET Nat, S # {}
    PROVE  \E m \in S : \A n \in S : m <= n
<1>1. PICK m \in S : \A n \in S : <<n, m>> \notin OpToRel(<, Nat)
  BY NatLessThanWellFounded, WFMin
<1>2. \A n \in S : ~(n < m)
  BY <1>1 DEF OpToRel
<1> QED  BY <1>2

\* p puts the first n members of s in order.
Sorts(p, s, n) ==
    /\ p \in Bijection(1 .. n, 1 .. n)
    /\ \A i, j \in 1 .. n : i <= j => s[p[i]] <= s[p[j]]

\* Insertion: what sorts the first n members is extended to the next.
LEMMA SortsNext ==
    ASSUME NEW s \in Seq(Nat), NEW n \in Nat, n + 1 <= Len(s), NEW p, Sorts(p, s, n)
    PROVE  \E r : Sorts(r, s, n + 1)
<1> DEFINE above == {k \in 1 .. n + 1 : k = n + 1 \/ s[n + 1] < s[p[k]]}
<1>0. /\ p \in [1 .. n -> 1 .. n] /\ \A v \in 1 .. n : \E u \in 1 .. n : p[u] = v
      /\ \A i, j \in 1 .. n : p[i] = p[j] => i = j
      /\ \A i \in 1 .. n + 1 : s[i] \in Nat
  BY DEF Sorts, Bijection, Injection, IsInjective, Surjection
<1>a. \A i \in 1 .. n : p[i] \in 1 .. n /\ p[i] \in 1 .. n + 1
  BY <1>0
<1>b. s[n + 1] \in Nat /\ \A i \in 1 .. n : s[p[i]] \in Nat
  <2>1. 1 .. n + 1 \subseteq 1 .. Len(s) /\ n + 1 \in 1 .. n + 1
    OBVIOUS
  <2> QED  BY <1>a, <2>1
<1>1. PICK k \in above : \A l \in above : k <= l
  <2>1. above \in SUBSET Nat /\ above # {}
    <3>1. n + 1 \in above
      OBVIOUS
    <3>2. above \subseteq 1 .. n + 1
      OBVIOUS
    <3> HIDE DEF above
    <3> QED  BY <3>1, <3>2
  <2> HIDE DEF above
  <2> QED  BY <2>1, LeastNatural
<1>2. k \in 1 .. n + 1
  BY <1>1
<1>3. \A i \in 1 .. n : i < k => s[p[i]] <= s[n + 1]
  <2> SUFFICES ASSUME NEW i \in 1 .. n, i < k PROVE s[p[i]] <= s[n + 1]
    OBVIOUS
  <2>1. i \notin above
    <3> HIDE DEF above
    <3> QED  BY <1>1, <1>2
  <2>2. s[p[i]] \in Nat /\ s[n + 1] \in Nat
    BY <1>b
  <2> QED  BY <2>1, <2>2
<1>4. \A i \in 1 .. n : k <= i => s[n + 1] <= s[p[i]]
  <2> SUFFICES ASSUME NEW i \in 1 .. n, k <= i PROVE s[n + 1] <= s[p[i]]
    OBVIOUS
  <2>1. k # n + 1 /\ k \in 1 .. n
    BY <1>2
  <2>2. s[n + 1] < s[p[k]]
    BY <1>1, <2>1
  <2>3. s[p[k]] <= s[p[i]]
    BY <2>1 DEF Sorts
  <2>4. s[p[k]] \in Nat /\ s[p[i]] \in Nat /\ s[n + 1] \in Nat
    BY <1>b, <2>1
  <2>5. \A x, y, z \in Nat : x < y /\ y <= z => x <= z
    OBVIOUS
  <2> QED  BY <2>2, <2>3, <2>4, <2>5
<1> DEFINE r == [i \in 1 .. n + 1 |-> IF i < k THEN p[i] ELSE IF i = k THEN n + 1 ELSE p[i - 1]]
<1>5. r \in [1 .. n + 1 -> 1 .. n + 1]
  <2> SUFFICES ASSUME NEW i \in 1 .. n + 1 PROVE r[i] \in 1 .. n + 1
    OBVIOUS
  <2>1. i < k => i \in 1 .. n
    BY <1>2
  <2>2. ~(i < k) /\ i # k => i - 1 \in 1 .. n
    BY <1>2
  <2> QED  BY <1>a, <2>1, <2>2
<1>6. ASSUME NEW v \in 1 .. n + 1 PROVE \E u \in 1 .. n + 1 : r[u] = v
  <2>1. CASE v = n + 1
    BY <1>2, <2>1
  <2>2. CASE v # n + 1
    <3>1. PICK u \in 1 .. n : p[u] = v
      BY <1>0, <2>2
    <3>2. CASE u < k
      <4>1. u \in 1 .. n + 1 /\ r[u] = p[u]
        BY <3>2
      <4> QED  BY <3>1, <4>1
    <3>3. CASE ~(u < k)
      <4>1. u + 1 \in 1 .. n + 1 /\ ~(u + 1 < k) /\ u + 1 # k /\ (u + 1) - 1 = u
        BY <1>2, <3>3
      <4>2. r[u + 1] = p[u]
        BY <4>1
      <4> QED  BY <3>1, <4>1, <4>2
    <3> QED  BY <3>2, <3>3
  <2> QED  BY <2>1, <2>2
<1>7. ASSUME NEW i \in 1 .. n + 1
      PROVE  \/ i < k /\ i \in 1 .. n /\ r[i] = p[i]
             \/ i = k /\ r[i] = n + 1
             \/ k < i /\ i - 1 \in 1 .. n /\ k <= i - 1 /\ r[i] = p[i - 1]
  <2>1. CASE i < k
    <3>1. r[i] = p[i] /\ i \in 1 .. n
      BY <1>2, <2>1
    <3> QED  BY <2>1, <3>1
  <2>2. CASE i = k
    BY <2>2
  <2>3. CASE k < i
    <3>1. i - 1 \in 1 .. n /\ k <= i - 1 /\ ~ (i < k) /\ i # k
      BY <1>2, <2>3
    <3>2. r[i] = p[i - 1]
      BY <3>1
    <3> QED  BY <2>3, <3>1, <3>2
  <2> QED  BY <1>2, <2>1, <2>2, <2>3
<1> HIDE DEF r, above
<1>8. ASSUME NEW i \in 1 .. n + 1, NEW j \in 1 .. n + 1, r[i] = r[j]
      PROVE  i = j
  <2>1. \A a \in 1 .. n : p[a] # n + 1
    BY <1>0
  <2>2. CASE i = k \/ j = k
    BY <1>7, <1>8, <2>1, <2>2
  <2>3. CASE i # k /\ j # k
    <3> DEFINE at(l) == IF l < k THEN l ELSE l - 1
    <3>0. ASSUME NEW l \in 1 .. n + 1, l # k
          PROVE  /\ at(l) \in 1 .. n /\ r[l] = p[at(l)]
                 /\ (l < k => at(l) = l) /\ (k < l => at(l) = l - 1)
      BY <1>2, <1>7, <3>0
    <3>1. at(i) \in 1 .. n /\ at(j) \in 1 .. n /\ p[at(i)] = p[at(j)]
      BY <1>8, <2>3, <3>0
    <3>2. at(i) = at(j)
      BY <1>0, <3>1
    <3> QED  BY <1>2, <2>3, <3>2
  <2> QED  BY <2>2, <2>3
<1>9. ASSUME NEW i \in 1 .. n + 1, NEW j \in 1 .. n + 1, i <= j
      PROVE  s[r[i]] <= s[r[j]]
  <2>0. \A a, b \in 1 .. n : a <= b => s[p[a]] <= s[p[b]]
    BY DEF Sorts
  <2>1. CASE i = j
    BY <1>0, <1>5, <2>1
  <2>2. CASE i < j /\ j < k
    <3>1. i \in 1 .. n /\ j \in 1 .. n /\ r[i] = p[i] /\ r[j] = p[j]
      BY <1>2, <1>7, <2>2
    <3> QED  BY <1>9, <2>0, <3>1
  <2>3. CASE i < j /\ j = k
    <3>1. i \in 1 .. n /\ i < k /\ r[i] = p[i] /\ r[j] = n + 1
      BY <1>2, <1>7, <2>3
    <3> QED  BY <1>3, <3>1
  <2>4. CASE i < j /\ k < j
    <3>1. j - 1 \in 1 .. n /\ k <= j - 1 /\ r[j] = p[j - 1]
      BY <1>2, <1>7, <2>4
    <3>2. CASE i < k
      <4>1. i \in 1 .. n /\ r[i] = p[i] /\ i <= j - 1
        BY <1>2, <1>7, <3>1, <3>2
      <4> QED  BY <2>0, <3>1, <4>1
    <3>3. CASE i = k
      <4>1. r[i] = n + 1
        BY <1>2, <1>7, <3>3
      <4> QED  BY <1>4, <3>1, <4>1
    <3>4. CASE k < i
      <4>1. i - 1 \in 1 .. n /\ r[i] = p[i - 1] /\ i - 1 <= j - 1
        BY <1>2, <1>7, <1>9, <3>4
      <4> QED  BY <2>0, <3>1, <4>1
    <3> QED  BY <1>2, <3>2, <3>3, <3>4
  <2> QED  BY <1>2, <1>9, <2>1, <2>2, <2>3, <2>4
<1>10. r \in Bijection(1 .. n + 1, 1 .. n + 1)
  BY <1>5, <1>6, <1>8 DEF Bijection, Injection, IsInjective, Surjection
<1>11. Sorts(r, s, n + 1)
  BY <1>9, <1>10 DEF Sorts
<1> QED  BY <1>11

\* So every sequence of times can be sorted, and sorting it gives ascending
\* times, as many as it had.
LEMMA Sorted ==
    ASSUME NEW s \in Seq(Nat)
    PROVE  /\ SortedTimes(s) \in Seq(Nat) /\ Len(SortedTimes(s)) = Len(s)
           /\ Ascending(SortedTimes(s))
<1> DEFINE bad == {n \in 0 .. Len(s) : ~ \E p : Sorts(p, s, n)}
<1>0. Len(s) \in Nat /\ DOMAIN s = 1 .. Len(s)
  OBVIOUS
<1>1. bad = {}
  <2> SUFFICES ASSUME bad # {} PROVE FALSE
    OBVIOUS
  <2>1. PICK n \in bad : \A m \in bad : n <= m
    <3>1. bad \in SUBSET Nat
      BY <1>0
    <3> HIDE DEF bad
    <3> QED  BY <3>1, LeastNatural
  <2>2. n \in 0 .. Len(s) /\ n # 0
    <3>1. Sorts([i \in 1 .. 0 |-> i], s, 0)
      BY DEF Sorts, Bijection, Injection, IsInjective, Surjection
    <3> QED  BY <2>1, <3>1
  <2>3. n - 1 \in Nat /\ (n - 1) + 1 = n /\ (n - 1) + 1 <= Len(s) /\ n - 1 \in 0 .. Len(s)
    BY <1>0, <2>2
  <2>4. n - 1 \notin bad
    <3>1. ~ (n <= n - 1)
      BY <1>0, <2>2
    <3> HIDE DEF bad
    <3> QED  BY <2>1, <3>1
  <2>5. PICK p : Sorts(p, s, n - 1)
    BY <2>3, <2>4
  <2>6. \E r : Sorts(r, s, (n - 1) + 1)
    BY <2>3, <2>5, SortsNext
  <2> QED  BY <2>1, <2>3, <2>6
<1>2. PICK q : Sorts(q, s, Len(s))
  <2>1. Len(s) \in 0 .. Len(s)
    BY <1>0
  <2> QED  BY <1>1, <2>1
<1> DEFINE Arranged(p) == [i \in DOMAIN s |-> s[p[i]]]
<1>3. q \in Bijection(DOMAIN s, DOMAIN s) /\ Ascending(Arranged(q))
  BY <1>0, <1>2 DEF Sorts, Ascending
<1>4. /\ Ascending(SortedTimes(s))
      /\ \E p \in Bijection(DOMAIN s, DOMAIN s) : SortedTimes(s) = Arranged(p)
  <2> DEFINE all == {Arranged(p) : p \in Bijection(DOMAIN s, DOMAIN s)}
  <2>1. SortedTimes(s) = CHOOSE t \in all : Ascending(t)
    BY DEF SortedTimes
  <2>2. Arranged(q) \in all
    BY <1>3
  <2>3. SortedTimes(s) \in all /\ Ascending(SortedTimes(s))
    <3> HIDE DEF all
    <3> QED  BY <1>3, <2>1, <2>2
  <2> QED  BY <2>3
<1>5. PICK p \in Bijection(DOMAIN s, DOMAIN s) : SortedTimes(s) = Arranged(p)
  BY <1>4
<1>6. \A i \in 1 .. Len(s) : s[p[i]] \in Nat
  <2>1. \A i \in 1 .. Len(s) : p[i] \in 1 .. Len(s)
    BY <1>0, <1>5 DEF Bijection, Surjection
  <2> QED  BY <2>1
<1>7. Arranged(p) \in Seq(Nat) /\ Len(Arranged(p)) = Len(s)
  BY <1>0, <1>6
<1> QED  BY <1>4, <1>5, <1>7

-----------------------------------------------------------------------------
(* Types. *)

\* The first parts of identifiers.
Tags == {"file", "index", "hash", "machine", "unknown", "any", "picked", "span", "anon",
         "size", "hostile"}

Tenant == Tags \X Int
Session == Tenant \X Tags \X Int

RowType ==
    [timestamp : Nat, request_id : Tags \X Nat, prompt_length : Nat,
     expected_output_length : Nat, tenant_id : Tenant, priority_class : STRING \cup SlaClasses,
     session_id : Session]

RequestType ==
    [request_id : Tags \X Nat, tenant_id : Tenant, prompt_tokens : Nat,
     generation_tokens : Nat, arrival_ts : Nat, sla_class : SlaClasses,
     session_id : Session, prefix_signature : Tenant \X Session \X (Tags \X Int \X Int),
     max_latency_ms : Nat]

TypeOK ==
    /\ job \in Job /\ config \in Config
    /\ stage \in IF job.source = "generated" THEN {"drawing", "sampling", "refused", "done"}
                 ELSE {"reading", "replaying", "unusable", "done"}
    /\ file \in Seq(Record) /\ ended \in BOOLEAN
    /\ rows \in [Processes -> Seq(RowType)]
    /\ arrivals \in Seq(Nat)
    /\ requests \in Seq(RequestType)
    /\ sessions \in Seq(Session)


\* A normalizer makes rows with positive lengths and a known class of every
\* record, empty or not.
LEMMA RowMade ==
    ASSUME NEW kind \in Kinds, NEW index \in Nat, NEW rec \in Record, NEW hash \in Hashes
    PROVE  /\ Row(kind, index, rec, hash) \in RowType
           /\ Row(kind, index, rec, hash).prompt_length > 0
           /\ Row(kind, index, rec, hash).expected_output_length > 0
           /\ Row(kind, index, rec, hash).priority_class \in SlaClasses
           /\ Row(kind, index, rec, hash).request_id[2] = index
           /\ Row(kind, index, rec, hash).timestamp = Timestamp(kind, index, rec)
<1> DEFINE tenant == TenantId(kind, index, rec, hash)
<1>0. /\ rec.ts \in Nat \cup {Absent} /\ rec.prompt \in Nat /\ rec.output \in Nat
      /\ rec.tenant \in Int /\ rec.session \in Int /\ rec.named \in BOOLEAN
      /\ rec.priority \in STRING /\ Absent \in Int /\ hash \in Nat
  BY NormalizerAssumption DEF Record, Absent
<1>1. Timestamp(kind, index, rec) \in Nat
  <2>1. Second * index \in Nat
    BY NormalizerAssumption
  <2> QED  BY <1>0, <2>1 DEF Timestamp
<1>2. RequestId(index, rec) \in Tags \X Nat /\ RequestId(index, rec)[2] = index
  BY <1>0 DEF RequestId, Tags
<1>3. \A n \in Nat : ApproxTokenLength(n) \in Nat /\ ApproxTokenLength(n) > 0
  BY DEF ApproxTokenLength, AtLeast
<1>4. PromptLength(kind, rec) \in Nat /\ PromptLength(kind, rec) > 0
  BY <1>0, <1>3 DEF PromptLength, AtLeast
<1>5. OutputLength(kind, rec) \in Nat /\ OutputLength(kind, rec) > 0
  BY <1>0, <1>3 DEF OutputLength, AtLeast
<1>6. tenant \in Tenant
  <2>1. index % TenantCycle \in Int
    BY NormalizerAssumption
  <2>2. <<"index", index % TenantCycle>> \in Tenant
    BY <2>1 DEF Tenant, Tags
  <2>3. <<"hash", hash>> \in Tenant /\ <<"machine", rec.tenant>> \in Tenant /\ <<"file", rec.tenant>> \in Tenant
    BY <1>0 DEF Tenant, Tags
  <2> QED  BY <2>2, <2>3 DEF TenantId
<1>7. PriorityClass(kind, index, rec) \in SlaClasses
  BY DEF PriorityClass, ClampPriority, SlaClasses
<1> HIDE DEF tenant
<1>8. SessionId(kind, index, rec, tenant) \in Session
  <2>1. index \div SessionSpan \in Int
    BY NormalizerAssumption
  <2>2. <<tenant, "span", index \div SessionSpan>> \in Session
    BY <1>6, <2>1 DEF Session, Tags
  <2>3. <<"any", 0>> \in Tenant
    BY DEF Tenant, Tags
  <2>4. <<<<"any", 0>>, "file", rec.session>> \in Session
    BY <1>0, <2>3 DEF Session, Tags
  <2>5. <<<<"any", 0>>, "span", index \div SessionSpan>> \in Session
    BY <2>1, <2>3 DEF Session, Tags
  <2> QED  BY <2>2, <2>4, <2>5 DEF SessionId
<1> QED
  BY <1>1, <1>2, <1>4, <1>5, <1>6, <1>7, <1>8 DEF Row, RowType, tenant

LEMMA RawRowMade ==
    ASSUME NEW index \in Nat, NEW rec \in Record, HasRequired(rec)
    PROVE  /\ RawRow(index, rec) \in RowType
           /\ RawRow(index, rec).request_id[2] = index
           /\ RawRow(index, rec).timestamp = rec.ts
<1>0. /\ rec.ts \in Nat /\ rec.prompt \in Nat /\ rec.output \in Nat
      /\ rec.tenant \in Int /\ rec.session \in Int /\ rec.priority \in STRING
  BY DEF Record, Absent, HasRequired
<1>1. <<"file", rec.tenant>> \in Tenant /\ <<"any", 0>> \in Tenant
  BY <1>0 DEF Tenant, Tags
<1>2. <<<<"any", 0>>, "file", rec.session>> \in Session
  BY <1>0, <1>1 DEF Session, Tags
<1>3. <<"file", index>> \in Tags \X Nat /\ <<"file", index>>[2] = index
  BY DEF Tags
<1> QED
  BY <1>0, <1>1, <1>2, <1>3 DEF RawRow, RowType

LEMMA PrefixIs ==
    ASSUME NEW S, NEW s \in Seq(S), NEW n \in Nat \cup {Unlimited}
    PROVE  /\ Prefix(s, n) \in Seq(S)
           /\ Len(Prefix(s, n)) = IF n = Unlimited \/ Len(s) <= n THEN Len(s) ELSE n
           /\ Len(Prefix(s, n)) <= Len(s)
           /\ \A i \in 1 .. Len(Prefix(s, n)) : Prefix(s, n)[i] = s[i]
<1>1. CASE n = Unlimited \/ Len(s) <= n
  BY <1>1 DEF Prefix
<1>2. CASE ~ (n = Unlimited \/ Len(s) <= n)
  <2>1. n \in Nat /\ n < Len(s) /\ Prefix(s, n) = SubSeq(s, 1, n)
    BY <1>2 DEF Prefix
  <2> QED  BY <1>2, <2>1
<1> QED  BY <1>1, <1>2

\* The trace is the beginning of the rows.
LEMMA TraceIs ==
    ASSUME TypeOK
    PROVE  /\ Trace \in Seq(RowType)
           /\ Len(Trace) = IF config.trace_limit = Unlimited \/ Len(rows[1]) <= config.trace_limit
                           THEN Len(rows[1]) ELSE config.trace_limit
           /\ Len(Trace) <= Len(rows[1]) /\ Len(Trace) \in Nat
           /\ \A i \in 1 .. Len(Trace) : Trace[i] = rows[1][i]
<1>1. rows[1] \in Seq(RowType) /\ config.trace_limit \in Nat \cup {Unlimited}
  BY DEF TypeOK, Processes, Config
<1> DEFINE limit == config.trace_limit
<1>2. /\ Prefix(rows[1], limit) \in Seq(RowType)
      /\ Len(Prefix(rows[1], limit)) =
           IF limit = Unlimited \/ Len(rows[1]) <= limit THEN Len(rows[1]) ELSE limit
      /\ Len(Prefix(rows[1], limit)) <= Len(rows[1])
      /\ \A i \in 1 .. Len(Prefix(rows[1], limit)) : Prefix(rows[1], limit)[i] = rows[1][i]
  <2> HIDE DEF limit
  <2>1. limit \in Nat \cup {Unlimited}
    BY <1>1 DEF limit
  <2> QED  BY <1>1, <2>1, PrefixIs
<1>3. Len(Prefix(rows[1], limit)) \in Nat
  BY <1>2
<1> QED  BY <1>2, <1>3 DEF Trace

-----------------------------------------------------------------------------
(* What is constructed. *)

\* A session that is picked is one of the tenant's, or the next.
LEMMA SessionPicked ==
    ASSUME TypeOK, NEW tenant \in Tenant
    PROVE  PickedSessions(tenant) \subseteq Session
<1> DEFINE own == {i \in DOMAIN sessions : sessions[i][1] = tenant}
<1>1. sessions \in Seq(Session) /\ DOMAIN sessions = 1 .. Len(sessions) /\ Len(sessions) \in Nat
  BY DEF TypeOK
<1>2. Opened(tenant) \in Nat
  <2>1. IsFiniteSet(1 .. Len(sessions))
    BY <1>1, FS_Interval
  <2>2. IsFiniteSet(own)
    BY <1>1, <2>1, FS_Subset
  <2> QED  BY <2>2, FS_CardinalityType DEF Opened
<1>3. \A i \in own : sessions[i] \in Session
  BY <1>1
<1>4. <<tenant, "picked", Opened(tenant)>> \in Session
  BY <1>2 DEF Session, Tags
<1> QED  BY <1>3, <1>4 DEF PickedSessions

LEMMA SessionsKept ==
    ASSUME TypeOK, NEW session \in Session
    PROVE  (IF IsNew(session) THEN Remembered(session) ELSE sessions) \in Seq(Session)
  BY DEF TypeOK, Remembered

LEMMA SignatureType ==
    ASSUME NEW tenant \in Tenant, NEW session \in Session, NEW prompt \in Nat,
           NEW generation \in Nat, NEW index \in Nat
    PROVE  /\ Signature(tenant, session, prompt, generation)
                \in Tenant \X Session \X (Tags \X Int \X Int)
           /\ HostileSignature(tenant, index) \in Tenant \X Session \X (Tags \X Int \X Int)
<1>1. prompt \div 256 \in Int /\ generation \div 128 \in Int
  OBVIOUS
<1>2. <<"size", prompt \div 256, generation \div 128>> \in Tags \X Int \X Int
  BY <1>1 DEF Tags
<1>3. <<"hostile", index, 0>> \in Tags \X Int \X Int
  BY DEF Tags
<1>4. <<"any", 0>> \in Tenant
  BY DEF Tenant, Tags
<1>5. <<<<"any", 0>>, "anon", 0>> \in Session
  BY <1>4 DEF Session, Tags
<1> QED  BY <1>2, <1>3, <1>5 DEF Signature, HostileSignature

\* The constructor accepts what is well formed and positive.
LEMMA Constructed ==
    ASSUME NEW r \in RequestType, r.prompt_tokens > 0, r.generation_tokens > 0,
           r.max_latency_ms > 0, Construct(r)
    PROVE  requests' = Append(requests, r) /\ stage' = stage
<1>1. Acceptable(r)
  BY DEF Acceptable, RequestType
<1> QED  BY <1>1 DEF Construct, Refuse

\* The class and the latency of a row fall back together.
LEMMA LatencyAgrees ==
    ASSUME NEW class
    PROVE  /\ SlaClass(class) \in SlaClasses
           /\ MaxLatencyMs(class) = LatencyOf(SlaClass(class))
           /\ LatencyOf(class) \in Nat /\ LatencyOf(class) > 0
<1>1. LatencyOf("interactive") = 1800
  BY DEF LatencyOf
<1>2. "interactive" \in SlaClasses
  BY DEF SlaClasses
<1> QED  BY <1>1, <1>2 DEF SlaClass, MaxLatencyMs, LatencyOf

\* The arrival of a row is a natural number.
LEMMA ArrivalType ==
    ASSUME TypeOK, NEW i \in 1 .. Len(Trace)
    PROVE  /\ ArrivalTs(i) \in Nat
           /\ ClockGrain * config.speed \in Nat \ {0}
           /\ Trace[i].timestamp \in Nat /\ Trace[1].timestamp \in Nat
<1>1. ClockGrain \in Nat \ {0} /\ config.speed \in Nat \ {0}
  BY PipelineAssumption DEF TypeOK, Config
<1>2. ClockGrain * config.speed \in Nat \ {0}
  BY <1>1
<1>3. Trace \in Seq(RowType) /\ 1 \in 1 .. Len(Trace) /\ Len(Trace) \in Nat
  BY TraceIs
<1>4. Trace[i].timestamp \in Nat /\ Trace[1].timestamp \in Nat
  <2>1. Trace[i] \in RowType /\ Trace[1] \in RowType
    BY <1>3
  <2> QED  BY <2>1 DEF RowType
<1> DEFINE n == AtLeast(0, Trace[i].timestamp - Trace[1].timestamp)
           grain == ClockGrain * config.speed
<1>5. n \in Nat
  BY <1>4 DEF AtLeast
<1> HIDE DEF n, grain
<1>6. RoundHalfEven(n, grain) \in Nat
  BY <1>2, <1>5, RoundType DEF grain
<1> QED  BY <1>2, <1>4, <1>6 DEF ArrivalTs, n, grain

\* What the replay of a row adds: no row is refused.
LEMMA ReplayRowMakes ==
    ASSUME TypeOK, ReplayRow
    PROVE  /\ stage' = stage /\ sessions' \in Seq(Session)
           /\ Len(requests) + 1 \in 1 .. Len(Trace)
           /\ \E r \in RequestType :
                /\ requests' = Append(requests, r)
                /\ r.arrival_ts = ArrivalTs(Len(requests) + 1)
                /\ r.request_id = rows[1][Len(requests) + 1].request_id
                /\ r.max_latency_ms = LatencyOf(r.sla_class)
<1> DEFINE i == Len(requests) + 1
           row == Trace[i]
           tenant == ReplayedTenant(row)
           prompt == AtLeast(1, row.prompt_length)
           generation == AtLeast(1, row.expected_output_length)
           made(session) ==
             [request_id |-> row.request_id, tenant_id |-> tenant,
              prompt_tokens |-> prompt, generation_tokens |-> generation,
              arrival_ts |-> ArrivalTs(i), sla_class |-> SlaClass(RowSla(row)),
              session_id |-> session,
              prefix_signature |-> Signature(tenant, session, prompt, generation),
              max_latency_ms |-> MaxLatencyMs(RowSla(row))]
<1>1. PICK session \in IF NoSession(row) THEN PickedSessions(tenant) ELSE {row.session_id} :
          /\ Construct(made(session))
          /\ sessions' = IF IsNew(session) THEN Remembered(session) ELSE sessions
  BY DEF ReplayRow
<1>2. i \in 1 .. Len(Trace)
  <2>1. Len(requests) \in Nat /\ Len(Trace) \in Nat /\ i <= Len(Trace)
    BY TraceIs DEF ReplayRow, TypeOK
  <2> QED  BY <2>1
<1>3. row \in RowType /\ row = rows[1][i]
  BY <1>2, TraceIs
<1>4. tenant \in Tenant /\ row.session_id \in Session /\ row.request_id \in Tags \X Nat
  <2>1. <<"unknown", 0>> \in Tenant
    BY DEF Tenant, Tags
  <2>2. row.tenant_id \in Tenant /\ row.session_id \in Session /\ row.request_id \in Tags \X Nat
    BY <1>3 DEF RowType
  <2> QED  BY <2>1, <2>2 DEF ReplayedTenant
<1>5. prompt \in Nat /\ prompt > 0 /\ generation \in Nat /\ generation > 0
  BY <1>3 DEF RowType, AtLeast
<1>6. ArrivalTs(i) \in Nat
  BY <1>2, ArrivalType
<1> DEFINE class == RowSla(row)
<1>7. /\ SlaClass(class) \in SlaClasses /\ MaxLatencyMs(class) = LatencyOf(SlaClass(class))
      /\ MaxLatencyMs(class) \in Nat /\ MaxLatencyMs(class) > 0
  <2> HIDE DEF class
  <2> QED  BY LatencyAgrees
<1> HIDE DEF tenant, prompt, generation, class, row, i
<1>8. session \in Session
  BY <1>1, <1>4, SessionPicked
<1>9. Signature(tenant, session, prompt, generation) \in Tenant \X Session \X (Tags \X Int \X Int)
  BY <1>4, <1>5, <1>8, SignatureType
<1>10. made(session) \in RequestType
  BY <1>4, <1>5, <1>6, <1>7, <1>8, <1>9 DEF RequestType, class
<1>11. /\ made(session).prompt_tokens > 0 /\ made(session).generation_tokens > 0
       /\ made(session).max_latency_ms > 0
       /\ made(session).arrival_ts = ArrivalTs(i)
       /\ made(session).request_id = rows[1][i].request_id
       /\ made(session).max_latency_ms = LatencyOf(made(session).sla_class)
  BY <1>3, <1>5, <1>7 DEF class
<1> HIDE DEF made
<1>12. requests' = Append(requests, made(session)) /\ stage' = stage
  BY <1>1, <1>10, <1>11, Constructed
<1>13. sessions' \in Seq(Session)
  BY <1>1, <1>8, SessionsKept
<1> QED  BY <1>2, <1>10, <1>11, <1>12, <1>13 DEF i

\* A configuration whose requests may be refused.
Unfit == config.token_min < 1 \/ ~(config.sla_mix \subseteq SlaClasses)

\* What the sampling of a request adds, unless it is refused.
LEMMA SampleRequestMakes ==
    ASSUME TypeOK, SampleRequest
    PROVE  /\ stage = "sampling" /\ sessions' \in Seq(Session)
           /\ Len(requests) + 1 \in 1 .. Len(arrivals)
           /\ \/ stage' = "refused" /\ requests' = requests /\ Unfit
              \/ /\ stage' = stage
                 /\ \E r \in RequestType :
                      /\ requests' = Append(requests, r)
                      /\ r.arrival_ts = RoundHalfEven(arrivals[Len(requests) + 1], ClockGrain)
                      /\ r.max_latency_ms = LatencyOf(r.sla_class)
<1> DEFINE index == Len(requests)
           made(tenant, class, prompt, generation, session, hostile) ==
             [request_id |-> <<"index", index>>, tenant_id |-> tenant,
              prompt_tokens |-> prompt, generation_tokens |-> generation,
              arrival_ts |-> RoundHalfEven(arrivals[index + 1], ClockGrain),
              sla_class |-> class, session_id |-> session,
              prefix_signature |-> IF hostile THEN HostileSignature(tenant, index)
                                   ELSE Signature(tenant, session, prompt, generation),
              max_latency_ms |-> LatencyOf(class)]
<1>1. PICK n \in TenantIds, class \in config.sla_mix, p \in TokenDraws, g \in TokenDraws,
           hostile \in BOOLEAN :
             \E session \in PickedSessions(<<"file", n>>) :
               /\ IF class \notin SlaClasses THEN Refuse
                  ELSE Construct(made(<<"file", n>>, class, SampleTokens(p), SampleTokens(g),
                                      session, hostile))
               /\ sessions' = IF IsNew(session) THEN Remembered(session) ELSE sessions
  BY DEF SampleRequest
<1> DEFINE tenant == <<"file", n>>
           prompt == SampleTokens(p)
           generation == SampleTokens(g)
<1>2. PICK session \in PickedSessions(tenant) :
        /\ IF class \notin SlaClasses THEN Refuse
           ELSE Construct(made(tenant, class, prompt, generation, session, hostile))
        /\ sessions' = IF IsNew(session) THEN Remembered(session) ELSE sessions
  BY <1>1
<1>3. /\ index \in Nat /\ index + 1 \in 1 .. Len(arrivals) /\ arrivals[index + 1] \in Nat
      /\ stage = "sampling"
  <2>1. Len(requests) \in Nat /\ Len(arrivals) \in Nat /\ index < Len(arrivals)
        /\ arrivals \in Seq(Nat) /\ stage = "sampling"
    BY DEF SampleRequest, TypeOK
  <2> QED  BY <2>1
<1>4. tenant \in Tenant
  <2>1. n \in Nat
    BY PipelineAssumption
  <2> QED  BY <2>1 DEF Tenant, Tags
<1>5. /\ prompt \in Int /\ generation \in Int
      /\ config.token_min < 1 \/ (prompt > 0 /\ generation > 0)
  <2>1. p \in Int /\ g \in Int /\ config.token_min \in Int /\ TokenMax \in Nat \ {0}
    BY PipelineAssumption DEF TypeOK, Config
  <2> QED  BY <2>1 DEF SampleTokens, AtLeast, AtMost
<1>6. RoundHalfEven(arrivals[index + 1], ClockGrain) \in Nat
  <2>1. ClockGrain \in Nat \ {0}
    BY PipelineAssumption
  <2> QED  BY <1>3, <2>1, RoundType
<1>7. LatencyOf(class) \in Nat /\ LatencyOf(class) > 0
  BY LatencyAgrees
<1> HIDE DEF tenant, prompt, generation, index
<1>8. session \in Session
  BY <1>2, <1>4, SessionPicked
<1> DEFINE r == made(tenant, class, prompt, generation, session, hostile)
<1>9. ASSUME class \in SlaClasses, prompt > 0, generation > 0
      PROVE  r \in RequestType
  <2>1. <<"index", index>> \in Tags \X Nat
    BY <1>3 DEF Tags
  <2>2. prompt \in Nat /\ generation \in Nat
    BY <1>5, <1>9
  <2>3. (IF hostile THEN HostileSignature(tenant, index)
         ELSE Signature(tenant, session, prompt, generation))
          \in Tenant \X Session \X (Tags \X Int \X Int)
    BY <1>3, <1>4, <1>8, <2>2, SignatureType
  <2> QED  BY <1>4, <1>6, <1>7, <1>8, <1>9, <2>1, <2>2, <2>3 DEF RequestType
<1>10. /\ r.prompt_tokens = prompt /\ r.generation_tokens = generation
       /\ r.arrival_ts = RoundHalfEven(arrivals[index + 1], ClockGrain)
       /\ r.sla_class = class /\ r.max_latency_ms = LatencyOf(class)
  OBVIOUS
<1>11. \/ class \notin SlaClasses /\ Refuse
       \/ class \in SlaClasses /\ Construct(r)
  BY <1>2
<1> HIDE DEF r
<1>12. CASE class \notin SlaClasses
  <2>1. stage' = "refused" /\ requests' = requests /\ Unfit
    BY <1>11, <1>12 DEF Refuse, Unfit
  <2> QED  BY <1>2, <1>3, <1>8, <2>1, SessionsKept DEF index
<1>13. CASE class \in SlaClasses /\ Acceptable(r)
  <2>1. requests' = Append(requests, r) /\ stage' = stage
    BY <1>11, <1>13 DEF Construct
  <2>2. r \in RequestType
    BY <1>9, <1>10, <1>13 DEF Acceptable
  <2> QED  BY <1>2, <1>3, <1>8, <1>10, <2>1, <2>2, SessionsKept DEF index
<1>14. CASE class \in SlaClasses /\ ~Acceptable(r)
  <2>1. stage' = "refused" /\ requests' = requests
    BY <1>11, <1>14 DEF Construct, Refuse
  <2>2. ~(prompt > 0 /\ generation > 0)
    BY <1>6, <1>7, <1>10, <1>14 DEF Acceptable
  <2>3. Unfit
    BY <1>5, <2>2 DEF Unfit
  <2> QED  BY <1>2, <1>3, <1>8, <2>1, <2>3, SessionsKept DEF index
<1> QED  BY <1>12, <1>13, <1>14

-----------------------------------------------------------------------------
(* What a draw of an arrival adds. *)

LEMMA DrawArrivalMakes ==
    ASSUME TypeOK, DrawArrival
    PROVE  \E a \in Nat :
             /\ arrivals' = Append(arrivals, a)
             /\ config.pattern = "uniform" =>
                  a = (Len(arrivals) * Duration) \div config.request_count
             /\ config.pattern = "poisson" =>
                  /\ a <= Duration
                  /\ arrivals # <<>> /\ arrivals[Len(arrivals)] <= Duration
                       => arrivals[Len(arrivals)] <= a
<1>1. PICK draw \in 0 .. Duration :
         arrivals' = Append(arrivals,
            CASE config.pattern = "uniform" -> (Len(arrivals) * Duration) \div config.request_count
              [] config.pattern = "bursty"  -> draw
              [] config.pattern = "poisson" ->
                   AtMost(Duration, draw + (IF arrivals = <<>> THEN 0 ELSE arrivals[Len(arrivals)])))
  BY DEF DrawArrival
<1>2. /\ Duration \in Nat /\ draw \in Nat /\ draw <= Duration /\ arrivals \in Seq(Nat)
      /\ Len(arrivals) \in Nat /\ Len(arrivals) < config.request_count
      /\ config.request_count \in Nat
      /\ config.pattern \in {"uniform", "bursty", "poisson"}
  BY PipelineAssumption DEF TypeOK, Config, DrawArrival
<1>3. CASE config.pattern = "uniform"
  <2> DEFINE a == (Len(arrivals) * Duration) \div config.request_count
  <2>1. Len(arrivals) * Duration \in Nat /\ config.request_count \in Nat \ {0}
    BY <1>2
  <2>2. a \in Nat
    BY <2>1, DivType
  <2>3. arrivals' = Append(arrivals, a)
    BY <1>1, <1>3
  <2> HIDE DEF a
  <2> QED  BY <1>3, <2>2, <2>3 DEF a
<1>4. CASE config.pattern = "bursty"
  BY <1>1, <1>2, <1>4
<1>5. CASE config.pattern = "poisson"
  <2> DEFINE last == IF arrivals = <<>> THEN 0 ELSE arrivals[Len(arrivals)]
             a == AtMost(Duration, draw + last)
  <2>1. last \in Nat
    BY <1>2
  <2>2. arrivals' = Append(arrivals, a)
    BY <1>1, <1>5
  <2>3. arrivals # <<>> => last = arrivals[Len(arrivals)]
    OBVIOUS
  <2> HIDE DEF last
  <2>4. a \in Nat /\ a <= Duration /\ (last <= Duration => last <= a)
    BY <1>2, <2>1 DEF AtMost
  <2> HIDE DEF a
  <2>5. arrivals # <<>> /\ arrivals[Len(arrivals)] <= Duration => arrivals[Len(arrivals)] <= a
    BY <2>3, <2>4
  <2> QED  BY <1>5, <2>2, <2>4, <2>5
<1> QED  BY <1>2, <1>3, <1>4, <1>5

-----------------------------------------------------------------------------
(* What the reading of a file adds. *)

LEMMA NormalizeMakes ==
    ASSUME TypeOK, Normalize
    PROVE  \E rec \in Record, hash \in [Processes -> Hashes] :
             /\ SameColumns(rec) /\ file' = Append(file, rec)
             /\ IF Skipped(job.source, rec) THEN rows' = rows
                ELSE rows' = [s \in Processes |->
                                Append(rows[s], Row(job.source, Len(file), rec, hash[s]))]
             /\ rows' \in [Processes -> Seq(RowType)]
<1>1. PICK rec \in {r \in Inputs : SameColumns(r)}, hash \in [Processes -> Hashes] :
         /\ file' = Append(file, rec)
         /\ rows' = IF Skipped(job.source, rec) THEN rows
                    ELSE [s \in Processes |->
                            Append(rows[s], Row(job.source, Len(file), rec, hash[s]))]
  BY DEF Normalize
<1>2. rec \in Record /\ SameColumns(rec)
  BY PipelineAssumption
<1>3. job.source \in Kinds /\ Len(file) \in Nat /\ rows \in [Processes -> Seq(RowType)]
  BY DEF Normalize, TypeOK
<1>4. \A s \in Processes : Row(job.source, Len(file), rec, hash[s]) \in RowType
  BY <1>2, <1>3, RowMade
<1>5. [s \in Processes |-> Append(rows[s], Row(job.source, Len(file), rec, hash[s]))]
        \in [Processes -> Seq(RowType)]
  BY <1>3, <1>4
<1> QED  BY <1>1, <1>2, <1>3, <1>5

LEMMA ReadRawMakes ==
    ASSUME TypeOK, ReadRaw
    PROVE  /\ rows' \in [Processes -> Seq(RowType)]
           /\ \E rec \in Record :
                /\ SameColumns(rec) /\ file' = Append(file, rec)
                /\ \/ /\ HasRequired(rec) /\ stage' = stage
                      /\ rows' = [s \in Processes |-> Append(rows[s], RawRow(Len(file), rec))]
                   \/ rows' = rows /\ stage' = "unusable"
<1>1. PICK rec \in {r \in Inputs : SameColumns(r)} :
         /\ file' = Append(file, rec)
         /\ IF HasRequired(rec)
            THEN /\ rows' = [s \in Processes |-> Append(rows[s], RawRow(Len(file), rec))]
                 /\ stage' = stage
            ELSE rows' = rows /\ stage' = "unusable"
  BY DEF ReadRaw
<1>2. rec \in Record /\ SameColumns(rec)
  BY PipelineAssumption
<1>3. Len(file) \in Nat /\ rows \in [Processes -> Seq(RowType)]
  BY DEF TypeOK
<1>4. HasRequired(rec) => RawRow(Len(file), rec) \in RowType
  BY <1>2, <1>3, RawRowMade
<1>5. rows' \in [Processes -> Seq(RowType)]
  <2>1. CASE HasRequired(rec)
    <3>1. \A s \in Processes : Append(rows[s], RawRow(Len(file), rec)) \in Seq(RowType)
      BY <1>3, <1>4, <2>1
    <3> QED  BY <1>1, <2>1, <3>1
  <2>2. CASE ~HasRequired(rec)
    BY <1>1, <1>3, <2>2
  <2> QED  BY <2>1, <2>2
<1> QED  BY <1>1, <1>2, <1>5

\* A row as it is in the file: with six decimals of its timestamp.
Written(row) == [row EXCEPT !.timestamp = FileGrain * RoundHalfEven(@, FileGrain)]

LEMMA WrittenRow ==
    ASSUME NEW row \in RowType
    PROVE  /\ Written(row) \in RowType
           /\ Written(row).timestamp = FileGrain * RoundHalfEven(row.timestamp, FileGrain)
           /\ Written(row).request_id = row.request_id
           /\ Written(row).prompt_length = row.prompt_length
           /\ Written(row).expected_output_length = row.expected_output_length
           /\ Written(row).priority_class = row.priority_class
<1>1. FileGrain \in Nat \ {0} /\ row.timestamp \in Nat
  BY PipelineAssumption DEF RowType
<1> DEFINE q == RoundHalfEven(row.timestamp, FileGrain)
           t == FileGrain * q
<1>2. q \in Nat
  BY <1>1, RoundType
<1>3. t \in Nat
  <2> HIDE DEF q
  <2> QED  BY <1>1, <1>2
<1>4. Written(row) = [row EXCEPT !.timestamp = t]
  BY DEF Written
<1> HIDE DEF q, t
<1>5. [row EXCEPT !.timestamp = t] \in RowType
  BY <1>3 DEF RowType
<1> QED  BY <1>4, <1>5 DEF RowType, q, t

LEMMA WriteRowsMakes ==
    ASSUME TypeOK, WriteRows
    PROVE  /\ rows' \in [Processes -> Seq(RowType)]
           /\ \A s \in Processes :
                /\ Len(rows'[s]) = Len(rows[s])
                /\ \A i \in 1 .. Len(rows[s]) : rows'[s][i] = Written(rows[s][i])
<1>1. rows' = [s \in Processes |-> [i \in DOMAIN rows[s] |-> Written(rows[s][i])]]
  BY DEF WriteRows, Written
<1>2. rows \in [Processes -> Seq(RowType)]
  BY DEF TypeOK
<1>3. ASSUME NEW s \in Processes
      PROVE  /\ rows'[s] = [i \in 1 .. Len(rows[s]) |-> Written(rows[s][i])]
             /\ rows[s] \in Seq(RowType) /\ Len(rows[s]) \in Nat
  BY <1>1, <1>2
<1>4. ASSUME NEW s \in Processes
      PROVE  /\ rows'[s] \in Seq(RowType) /\ Len(rows'[s]) = Len(rows[s])
             /\ \A i \in 1 .. Len(rows[s]) : rows'[s][i] = Written(rows[s][i])
  <2> DEFINE t == rows[s]
  <2>0. /\ t \in Seq(RowType) /\ Len(t) \in Nat
        /\ rows'[s] = [i \in 1 .. Len(t) |-> Written(t[i])]
    BY <1>3
  <2> HIDE DEF t
  <2>1. \A i \in 1 .. Len(t) : Written(t[i]) \in RowType
    BY <2>0, WrittenRow
  <2>2. /\ rows'[s] \in Seq(RowType) /\ Len(rows'[s]) = Len(t)
        /\ \A i \in 1 .. Len(t) : rows'[s][i] = Written(t[i])
    BY <2>0, <2>1
  <2> QED  BY <2>2 DEF t
<1>5. rows' \in [Processes -> Seq(RowType)]
  BY <1>1, <1>4
<1> QED  BY <1>4, <1>5

-----------------------------------------------------------------------------
(* Type correctness. *)

LEMMA InitType == Init => TypeOK
<1> SUFFICES ASSUME Init PROVE TypeOK
  OBVIOUS
<1>1. PICK setup \in Setups : job = setup[1] /\ config = setup[2]
  BY DEF Init
<1>2. job \in Job /\ config \in Config
  BY <1>1, PipelineAssumption
<1>3. rows \in [Processes -> Seq(RowType)]
  BY DEF Init
<1>4. stage \in IF job.source = "generated" THEN {"drawing", "sampling", "refused", "done"}
                ELSE {"reading", "replaying", "unusable", "done"}
  BY DEF Init
<1>5. /\ file \in Seq(Record) /\ ended \in BOOLEAN /\ arrivals \in Seq(Nat)
      /\ requests \in Seq(RequestType) /\ sessions \in Seq(Session)
  <2>1. /\ file = <<>> /\ ended = FALSE /\ arrivals = <<>> /\ requests = <<>> /\ sessions = <<>>
    BY DEF Init
  <2>2. ended \in BOOLEAN
    BY <2>1
  <2>3. file \in Seq(Record)
    BY <2>1
  <2>4. arrivals \in Seq(Nat) /\ requests \in Seq(RequestType) /\ sessions \in Seq(Session)
    BY <2>1
  <2> QED  BY <2>2, <2>3, <2>4
<1> QED  BY <1>2, <1>3, <1>4, <1>5 DEF TypeOK

LEMMA TypeStep == TypeOK /\ [Next]_vars => TypeOK'
<1> SUFFICES ASSUME TypeOK, [Next]_vars PROVE TypeOK'
  OBVIOUS
<1>1. CASE Normalize
  <2>0. PICK rec \in Record : file' = Append(file, rec) /\ rows' \in [Processes -> Seq(RowType)]
    BY <1>1, NormalizeMakes
  <2>1. rows' \in [Processes -> Seq(RowType)] /\ file' \in Seq(Record)
    BY <2>0 DEF TypeOK
  <2> QED  BY <1>1, <2>1 DEF TypeOK, Normalize
<1>2. CASE WriteRows
  <2>1. rows' \in [Processes -> Seq(RowType)]
    BY <1>2, WriteRowsMakes
  <2>2. job.source # "generated"
    BY <1>2 DEF WriteRows, Kinds
  <2> QED  BY <1>2, <2>1, <2>2 DEF TypeOK, WriteRows
<1>3. CASE ReadRaw
  <2>0. PICK rec \in Record : file' = Append(file, rec) /\ stage' \in {stage, "unusable"}
    BY <1>3, ReadRawMakes
  <2>1. rows' \in [Processes -> Seq(RowType)] /\ file' \in Seq(Record)
    BY <1>3, <2>0, ReadRawMakes DEF TypeOK
  <2>2. stage' \in {stage, "unusable"}
    BY <2>0
  <2> QED  BY <1>3, <2>1, <2>2 DEF TypeOK, ReadRaw
<1>4. CASE TraceMissing
  BY <1>4 DEF TypeOK, TraceMissing
<1>5. CASE EndOfFile
  BY <1>5 DEF TypeOK, EndOfFile
<1>6. CASE ReplayRow
  <2>1. stage' = stage /\ sessions' \in Seq(Session) /\ requests' \in Seq(RequestType)
    <3>1. PICK r \in RequestType : requests' = Append(requests, r)
      BY <1>6, ReplayRowMakes
    <3> QED  BY <1>6, <3>1, ReplayRowMakes DEF TypeOK
  <2> QED  BY <1>6, <2>1 DEF TypeOK, ReplayRow
<1>7. CASE EndReplay
  <2>1. requests' \in Seq(RequestType)
    <3>1. requests \in Seq(RequestType) /\ config.request_count \in Nat \cup {Unlimited}
      BY DEF TypeOK, Config
    <3>2. Prefix(requests, config.request_count) \in Seq(RequestType)
      BY <3>1, PrefixIs
    <3> QED  BY <1>7, <3>1, <3>2 DEF EndReplay
  <2> QED  BY <1>7, <2>1 DEF TypeOK, EndReplay
<1>8. CASE DrawArrival
  <2>1. arrivals' \in Seq(Nat)
    <3>1. PICK a \in Nat : arrivals' = Append(arrivals, a)
      BY <1>8, DrawArrivalMakes
    <3> QED  BY <3>1 DEF TypeOK
  <2> QED  BY <1>8, <2>1 DEF TypeOK, DrawArrival
<1>9. CASE EndArrivals
  <2>1. arrivals' \in Seq(Nat)
    <3>1. arrivals \in Seq(Nat)
      BY DEF TypeOK
    <3>2. SortedTimes(arrivals) \in Seq(Nat)
      BY <3>1, Sorted
    <3> QED  BY <1>9, <3>1, <3>2 DEF EndArrivals
  <2> QED  BY <1>9, <2>1 DEF TypeOK, EndArrivals
<1>10. CASE SampleRequest
  <2>1. /\ stage' \in {stage, "refused"} /\ sessions' \in Seq(Session)
        /\ requests' \in Seq(RequestType)
    <3>1. requests \in Seq(RequestType)
      BY DEF TypeOK
    <3>2. /\ stage' \in {stage, "refused"} /\ sessions' \in Seq(Session)
          /\ requests' = requests \/ \E r \in RequestType : requests' = Append(requests, r)
      BY <1>10, SampleRequestMakes
    <3> QED  BY <3>1, <3>2
  <2> QED  BY <1>10, <2>1 DEF TypeOK, SampleRequest
<1>11. CASE EndSampling
  BY <1>11 DEF TypeOK, EndSampling
<1>12. CASE UNCHANGED vars
  BY <1>12 DEF TypeOK, vars
<1> QED
  BY <1>1, <1>2, <1>3, <1>4, <1>5, <1>6, <1>7, <1>8, <1>9, <1>10, <1>11, <1>12 DEF Next

\* The files, workloads and requests of the pipeline are well formed, and no
\* request of a trace is refused by the constructor of InferenceRequest: only a
\* generated workload can be in the stage "refused".
THEOREM TypeCorrect == Spec => []TypeOK
<1> QED  BY InitType, TypeStep, PTL DEF Spec

\* No other step changes the rows, and none the job.
LEMMA RowsUnchanged ==
    ASSUME [Next]_vars
    PROVE  /\ job' = job /\ config' = config
           /\ Normalize \/ WriteRows \/ ReadRaw \/ rows' = rows
           /\ Normalize \/ ReadRaw \/ file' = file
  BY DEF Next, vars, Normalize, WriteRows, ReadRaw, TraceMissing, EndOfFile, ReplayRow, EndReplay,
         DrawArrival, EndArrivals, SampleRequest, EndSampling

-----------------------------------------------------------------------------
(* The defaults agree. *)

LEMMA DefaultsStep ==
    ASSUME TypeOK, TypeOK', DefaultsAgree, [Next]_vars
    PROVE  DefaultsAgree'
<1> DEFINE Good(row) == /\ row.prompt_length > 0 /\ row.expected_output_length > 0
                        /\ row.priority_class \in SlaClasses
           GoodRows == job.source \in Kinds =>
                         \A s \in Processes : \A i \in DOMAIN rows[s] : Good(rows[s][i])
           Kept(r) == r.max_latency_ms = LatencyOf(r.sla_class)
           KeptAll == \A i \in DOMAIN requests : Kept(requests[i])
<1>0. /\ rows \in [Processes -> Seq(RowType)] /\ job' = job
      /\ requests \in Seq(RequestType)
  BY RowsUnchanged DEF TypeOK
<1>1. (stage = "refused" => job.source = "generated" /\ Unfit)'
  <2>1. stage' = "refused" => job.source = "generated"
    BY <1>0 DEF TypeOK
  <2>2. CASE stage' # "refused"
    BY <2>2
  <2>3. CASE stage = "refused"
    BY <1>0, <2>1, <2>3, RowsUnchanged DEF DefaultsAgree, Unfit
  <2>4. CASE stage # "refused" /\ stage' = "refused"
    <3>1. SampleRequest
      <4>1. ~ReplayRow /\ ~ReadRaw
        BY <2>4, ReplayRowMakes, ReadRawMakes
      <4> QED  BY <2>4, <4>1 DEF Next, vars, Normalize, WriteRows, TraceMissing, EndOfFile,
                                 EndReplay, DrawArrival, EndArrivals, EndSampling
    <3>2. Unfit
      BY <2>4, <3>1, SampleRequestMakes
    <3> QED  BY <1>0, <2>1, <2>4, <3>2, RowsUnchanged DEF Unfit
  <2> QED  BY <2>2, <2>3, <2>4
<1>2. GoodRows'
  <2> SUFFICES ASSUME job.source \in Kinds, NEW s \in Processes, NEW i \in DOMAIN rows'[s]
               PROVE  Good(rows'[s][i])
    BY <1>0
  <2>0. rows[s] \in Seq(RowType) /\ \A j \in 1 .. Len(rows[s]) : Good(rows[s][j])
    BY <1>0 DEF DefaultsAgree
  <2>1. CASE rows' = rows
    BY <2>0, <2>1
  <2>2. CASE Normalize /\ rows' # rows
    <3>1. PICK rec \in Record, hash \in [Processes -> Hashes] :
             rows' = [p \in Processes |->
                        Append(rows[p], Row(job.source, Len(file), rec, hash[p]))]
      BY <2>2, NormalizeMakes
    <3> DEFINE x == Row(job.source, Len(file), rec, hash[s])
    <3>2. Len(file) \in Nat /\ hash[s] \in Hashes
      BY <3>1 DEF TypeOK
    <3>3. Good(x) /\ x \in RowType
      BY <3>2, RowMade
    <3>4. rows'[s] = Append(rows[s], x)
      BY <3>1
    <3> HIDE DEF x, Good
    <3>5. i \in 1 .. Len(rows[s]) + 1
      BY <2>0, <3>3, <3>4
    <3>6. CASE i \in 1 .. Len(rows[s])
      <4>1. rows'[s][i] = rows[s][i]
        BY <2>0, <3>3, <3>4, <3>6
      <4> QED  BY <2>0, <3>6, <4>1
    <3>7. CASE i = Len(rows[s]) + 1
      <4>1. rows'[s][i] = x
        BY <2>0, <3>3, <3>4, <3>7
      <4> QED  BY <3>3, <4>1
    <3> QED  BY <2>0, <3>5, <3>6, <3>7
  <2>3. CASE WriteRows
    <3>1. i \in 1 .. Len(rows[s]) /\ rows'[s][i] = Written(rows[s][i])
      <4>1. rows'[s] \in Seq(RowType) /\ Len(rows'[s]) = Len(rows[s])
        BY <2>3, WriteRowsMakes
      <4>2. i \in 1 .. Len(rows[s])
        BY <4>1
      <4> QED  BY <2>3, <4>2, WriteRowsMakes
    <3>2. rows[s][i] \in RowType /\ Good(rows[s][i])
      BY <2>0, <3>1
    <3> QED  BY <3>1, <3>2, WrittenRow
  <2>4. CASE ReadRaw
    BY <2>4 DEF ReadRaw, Kinds
  <2> QED  BY <2>1, <2>2, <2>3, <2>4, RowsUnchanged
<1>3. KeptAll'
  <2>0. \A i \in 1 .. Len(requests) : Kept(requests[i])
    BY <1>0 DEF DefaultsAgree
  <2>1. CASE requests' = requests
    BY <2>1 DEF DefaultsAgree
  <2>2. ASSUME NEW r \in RequestType, Kept(r), requests' = Append(requests, r) PROVE KeptAll'
    <3> HIDE DEF Kept
    <3> QED  BY <1>0, <2>0, <2>2
  <2>3. CASE ReplayRow
    BY <2>2, <2>3, ReplayRowMakes
  <2>4. CASE SampleRequest
    BY <2>1, <2>2, <2>4, SampleRequestMakes
  <2>5. CASE EndReplay
    <3> DEFINE count == config.request_count
               t == Prefix(requests, count)
    <3>1. count \in Nat \cup {Unlimited}
      BY DEF TypeOK, Config
    <3>2. /\ t \in Seq(RequestType) /\ Len(t) <= Len(requests)
          /\ \A i \in 1 .. Len(t) : t[i] = requests[i]
      <4>1. requests \in Seq(RequestType)
        BY <1>0
      <4> HIDE DEF count
      <4> QED  BY <3>1, <4>1, PrefixIs
    <3>3. requests' = requests \/ requests' = t
      BY <2>5 DEF EndReplay
    <3> HIDE DEF t, Kept
    <3>4. \A i \in DOMAIN t : Kept(t[i])
      <4>1. DOMAIN t = 1 .. Len(t) /\ 1 .. Len(t) \subseteq 1 .. Len(requests)
        BY <1>0, <3>2
      <4> QED  BY <2>0, <3>2, <4>1
    <3> QED  BY <2>1, <3>3, <3>4
  <2>6. requests' = requests \/ ReplayRow \/ SampleRequest \/ EndReplay
    BY DEF Next, vars, Normalize, WriteRows, ReadRaw, TraceMissing, EndOfFile, DrawArrival,
           EndArrivals, EndSampling
  <2> QED  BY <2>1, <2>3, <2>4, <2>5, <2>6
<1> QED  BY <1>1, <1>2, <1>3 DEF DefaultsAgree, Unfit

\* Every default of the normalizers and of the replay agrees with what the next
\* part accepts (DefaultsAgree), for every record, whatever its priority, and
\* for every trace_default_sla, sla_mix and min of a distribution.
THEOREM DefaultsAlwaysAgree == Spec => []DefaultsAgree
<1>1. Init => DefaultsAgree
  <2> SUFFICES ASSUME Init PROVE DefaultsAgree
    OBVIOUS
  <2>1. requests = <<>> /\ stage # "refused" /\ \A s \in Processes : rows[s] = <<>>
    BY DEF Init
  <2> QED  BY <2>1 DEF DefaultsAgree
<1>2. TypeOK /\ TypeOK' /\ DefaultsAgree /\ [Next]_vars => DefaultsAgree'
  BY DefaultsStep
<1> QED  BY <1>1, <1>2, TypeCorrect, PTL DEF Spec

-----------------------------------------------------------------------------
(* The arrival times. *)

\* Requests come after rows and arrivals; a generated workload has no file.
Fed ==
    /\ job.source = "generated" => rows[1] = <<>> /\ file = <<>>
    /\ stage \in {"reading", "unusable", "drawing"} => requests = <<>>

Csv == {"alibaba", "generic", "raw"}

\* The columns of a CSV file are those of its first row.
Columns ==
    job.source \in Csv => \A i, j \in 1 .. Len(file) : (file[i].ts = Absent) = (file[j].ts = Absent)

\* The time of the record at a place of a file f.
TimeIn(source, f, i) == IF source = "raw" THEN f[i].ts ELSE Timestamp(source, i - 1, f[i])

\* The rows have times of the file while it is read, in the order of the file
\* if they are in order there.
RowTimes ==
    /\ stage = "reading" => \A i \in 1 .. Len(rows[1]) :
                              \E j \in 1 .. Len(file) :
                                 rows[1][i].timestamp = TimeIn(job.source, file, j)
    /\ InOrder => \A i, j \in 1 .. Len(rows[1]) :
                     i <= j => rows[1][i].timestamp <= rows[1][j].timestamp

\* The arrivals of a pattern are ascending, those of "bursty" once sorted.
DrawnTimes ==
    /\ stage = "drawing" /\ config.pattern = "uniform" =>
         \A i \in 1 .. Len(arrivals) : arrivals[i] = ((i - 1) * Duration) \div config.request_count
    /\ stage = "drawing" /\ config.pattern = "poisson" =>
         Ascending(arrivals) /\ \A i \in 1 .. Len(arrivals) : arrivals[i] <= Duration
    /\ stage # "drawing" => Ascending(arrivals)

\* Request i is the one of row i, or of arrival i.
Replayed ==
    /\ job.source # "generated" =>
         /\ Len(requests) <= Len(Trace)
         /\ \A i \in 1 .. Len(requests) : /\ requests[i].arrival_ts = ArrivalTs(i)
                                          /\ requests[i].request_id = rows[1][i].request_id
    /\ job.source = "generated" =>
         /\ Len(requests) <= Len(arrivals)
         /\ \A i \in 1 .. Len(requests) :
              requests[i].arrival_ts = RoundHalfEven(arrivals[i], ClockGrain)

ArrivalInv == Fed /\ Columns /\ RowTimes /\ DrawnTimes /\ Replayed

\* Members of a sequence and of the one with a member appended.
LEMMA Appended ==
    ASSUME NEW S, NEW s \in Seq(S), NEW x \in S
    PROVE  /\ Append(s, x) \in Seq(S) /\ Len(Append(s, x)) = Len(s) + 1 /\ Len(s) \in Nat
           /\ \A i \in 1 .. Len(s) : Append(s, x)[i] = s[i]
           /\ Append(s, x)[Len(s) + 1] = x
           /\ 1 .. Len(s) + 1 = 1 .. Len(s) \cup {Len(s) + 1}
  OBVIOUS

\* Later records have later times.
LEMMA TimesAscend ==
    ASSUME NEW source \in Kinds \cup {"raw"}, NEW f \in Seq(Record),
           NEW i \in 1 .. Len(f), NEW j \in 1 .. Len(f), i <= j,
           source \in Csv => /\ (f[i].ts = Absent) = (f[j].ts = Absent)
                             /\ f[i].ts <= f[j].ts
    PROVE  /\ TimeIn(source, f, i) \in Int /\ TimeIn(source, f, j) \in Int
           /\ TimeIn(source, f, i) <= TimeIn(source, f, j)
<1>1. f[i] \in Record /\ f[j] \in Record
  OBVIOUS
<1>2. f[i].ts \in Int /\ f[j].ts \in Int
  <2>1. \A r \in Record : r.ts \in Int
    BY DEF Record, Absent
  <2> QED  BY <1>1, <2>1
<1>3. i - 1 \in Nat /\ j - 1 \in Nat /\ i - 1 <= j - 1 /\ Second \in Nat
  BY NormalizerAssumption
<1>4. Second * (i - 1) <= Second * (j - 1) /\ Second * (i - 1) \in Nat /\ Second * (j - 1) \in Nat
  BY <1>3, ProductMonotone
<1>5. CASE source = "raw"
  BY <1>2, <1>5 DEF TimeIn, Csv
<1>6. CASE source # "raw"
  <2>1. CASE source \in {"alibaba", "generic"}
    BY <1>2, <1>4, <1>6, <2>1 DEF TimeIn, Timestamp, Csv
  <2>2. CASE source \notin {"alibaba", "generic"}
    BY <1>4, <1>6, <2>2 DEF TimeIn, Timestamp
  <2> QED  BY <2>1, <2>2
<1> QED  BY <1>5, <1>6

LEMMA FedStep ==
    ASSUME TypeOK, Fed, [Next]_vars
    PROVE  Fed'
<1>1. job' = job
  BY RowsUnchanged
<1>2. (job.source = "generated" => rows[1] = <<>> /\ file = <<>>)'
  <2> SUFFICES ASSUME job.source = "generated" PROVE rows'[1] = <<>> /\ file' = <<>>
    BY <1>1
  <2>1. ~Normalize /\ ~WriteRows /\ ~ReadRaw
    BY DEF Normalize, WriteRows, ReadRaw, Kinds
  <2> QED  BY <2>1, RowsUnchanged DEF Fed
<1>3. (stage \in {"reading", "unusable", "drawing"} => requests = <<>>)'
  <2>1. CASE ReplayRow
    BY <2>1, ReplayRowMakes DEF ReplayRow
  <2>2. CASE SampleRequest
    BY <2>2, SampleRequestMakes DEF SampleRequest
  <2>3. CASE EndReplay
    BY <2>3 DEF EndReplay
  <2>4. CASE ~(ReplayRow \/ SampleRequest \/ EndReplay)
    BY <2>4 DEF Fed, Next, vars, Normalize, WriteRows, ReadRaw, TraceMissing, EndOfFile,
                DrawArrival, EndArrivals, EndSampling
  <2> QED  BY <2>1, <2>2, <2>3, <2>4
<1> QED  BY <1>2, <1>3 DEF Fed

LEMMA ColumnsStep ==
    ASSUME TypeOK, Columns, [Next]_vars
    PROVE  Columns'
<1>1. job' = job /\ file \in Seq(Record)
  BY RowsUnchanged DEF TypeOK
<1>2. CASE file' = file
  BY <1>1, <1>2 DEF Columns
<1>3. CASE Normalize \/ ReadRaw
  <2>1. PICK rec \in Record : SameColumns(rec) /\ file' = Append(file, rec)
    BY <1>3, NormalizeMakes, ReadRawMakes
  <2>2. /\ Len(file') = Len(file) + 1 /\ \A i \in 1 .. Len(file) : file'[i] = file[i]
        /\ file'[Len(file) + 1] = rec
        /\ 1 .. Len(file) + 1 = 1 .. Len(file) \cup {Len(file) + 1}
    BY <1>1, <2>1, Appended
  <2>3. job.source \in Csv => \A i \in 1 .. Len(file) : (file[i].ts = Absent) = (rec.ts = Absent)
    BY <1>1, <2>1 DEF SameColumns, Csv
  <2> SUFFICES ASSUME job.source \in Csv, NEW i \in 1 .. Len(file) + 1, NEW j \in 1 .. Len(file) + 1
               PROVE  (file'[i].ts = Absent) = (file'[j].ts = Absent)
    BY <1>1, <2>2 DEF Columns
  <2> QED  BY <2>2, <2>3 DEF Columns
<1> QED  BY <1>2, <1>3, RowsUnchanged

\* The times of the file so far are in order if those of the longer one are.
LEMMA OrderBefore ==
    ASSUME TypeOK, [Next]_vars, InOrder'
    PROVE  InOrder
<1>1. job' = job /\ file \in Seq(Record)
  BY RowsUnchanged DEF TypeOK
<1>2. CASE file' = file
  BY <1>1, <1>2 DEF InOrder
<1>3. CASE Normalize \/ ReadRaw
  <2>1. PICK rec \in Record : file' = Append(file, rec)
    BY <1>3, NormalizeMakes, ReadRawMakes
  <2>2. /\ file' \in Seq(Record) /\ Len(file) \in Nat
        /\ Len(file') = Len(file) + 1 /\ \A i \in 1 .. Len(file) : file'[i] = file[i]
    BY <1>1, <2>1, Appended
  <2>3. DOMAIN file = 1 .. Len(file) /\ DOMAIN file' = 1 .. Len(file')
    BY <1>1, <2>2
  <2>4. 1 .. Len(file) \subseteq 1 .. Len(file')
    BY <2>2
  <2>5. CASE job.source \notin Csv
    BY <2>5 DEF InOrder, Csv
  <2>6. CASE job.source \in Csv
    <3>1. \A i, j \in 1 .. Len(file') : i <= j => file'[i].ts <= file'[j].ts
      BY <1>1, <2>3, <2>6 DEF InOrder, Ascending, Csv
    <3>2. \A i, j \in 1 .. Len(file) : i <= j => file[i].ts <= file[j].ts
      BY <2>2, <2>4, <3>1
    <3> QED  BY <2>3, <3>2 DEF InOrder, Ascending
  <2> QED  BY <2>5, <2>6
<1> QED  BY <1>2, <1>3, RowsUnchanged

\* A record read adds the row with its time, or none.
LEMMA RowTimesGrow ==
    ASSUME TypeOK, Columns', RowTimes, [Next]_vars,
           stage = "reading", job.source \in Kinds \cup {"raw"},
           NEW rec \in Record, file' = Append(file, rec),
           \/ rows'[1] = rows[1]
           \/ \E x \in RowType : /\ rows'[1] = Append(rows[1], x)
                                 /\ x.timestamp = TimeIn(job.source, file', Len(file) + 1)
    PROVE  RowTimes'
<1> DEFINE a == rows[1]
           n == Len(file)
           T(j) == TimeIn(job.source, file', j)
<1>0. job' = job /\ file \in Seq(Record) /\ a \in Seq(RowType) /\ Len(a) \in Nat
  BY RowsUnchanged DEF TypeOK, Processes
<1>1. /\ file' \in Seq(Record) /\ n \in Nat /\ Len(file') = n + 1
      /\ \A i \in 1 .. n : file'[i] = file[i]
  BY <1>0, Appended
<1>2. \A i \in 1 .. Len(a) : \E j \in 1 .. n : a[i].timestamp = T(j)
  <2>1. \A j \in 1 .. n : TimeIn(job.source, file, j) = T(j)
    BY <1>1 DEF TimeIn
  <2> HIDE DEF T
  <2> QED  BY <2>1 DEF RowTimes
<1>3. InOrder' => \A i, j \in 1 .. Len(a) : i <= j => a[i].timestamp <= a[j].timestamp
  BY OrderBefore DEF RowTimes
<1>4. ASSUME InOrder', NEW j \in 1 .. n
      PROVE  T(j) <= T(n + 1)
  <2>1. j \in 1 .. Len(file') /\ n + 1 \in 1 .. Len(file') /\ j <= n + 1
    BY <1>1
  <2>2. job.source \in Csv => /\ (file'[j].ts = Absent) = (file'[n + 1].ts = Absent)
                              /\ file'[j].ts <= file'[n + 1].ts
    <3> SUFFICES ASSUME job.source \in Csv
                 PROVE  /\ (file'[j].ts = Absent) = (file'[n + 1].ts = Absent)
                        /\ file'[j].ts <= file'[n + 1].ts
      OBVIOUS
    <3>1. (file'[j].ts = Absent) = (file'[n + 1].ts = Absent)
      BY <1>0, <2>1 DEF Columns
    <3>2. DOMAIN file' = 1 .. Len(file')
      BY <1>1
    <3>3. Ascending([i \in DOMAIN file' |-> file'[i].ts])
      BY <1>0, <1>4 DEF InOrder, Csv
    <3>4. file'[j].ts <= file'[n + 1].ts
      BY <2>1, <3>2, <3>3 DEF Ascending
    <3> QED  BY <3>1, <3>4
  <2> QED  BY <1>1, <2>1, <2>2, TimesAscend
<1>5. 1 .. n \subseteq 1 .. Len(file') /\ n + 1 \in 1 .. Len(file')
  BY <1>1
<1>6. CASE rows'[1] = a
  <2>1. \A i \in 1 .. Len(rows'[1]) : \E j \in 1 .. Len(file') : rows'[1][i].timestamp = T(j)
    <3> HIDE DEF T, n
    <3> QED  BY <1>2, <1>5, <1>6
  <2> QED  BY <1>0, <1>3, <1>6, <2>1 DEF RowTimes
<1>7. ASSUME NEW x \in RowType, rows'[1] = Append(a, x), x.timestamp = T(n + 1)
      PROVE  RowTimes'
  <2> DEFINE b == rows'[1]
  <2>1. /\ Len(b) = Len(a) + 1 /\ \A i \in 1 .. Len(a) : b[i] = a[i]
        /\ b[Len(a) + 1] = x
        /\ 1 .. Len(b) = 1 .. Len(a) \cup {Len(a) + 1}
    BY <1>0, <1>7, Appended
  <2> HIDE DEF T, b
  <2>2. \A i \in 1 .. Len(b) : \E j \in 1 .. Len(file') : b[i].timestamp = T(j)
    <3> HIDE DEF a, n
    <3> QED  BY <1>2, <1>5, <1>7, <2>1
  <2>3. ASSUME InOrder', NEW i \in 1 .. Len(b), NEW j \in 1 .. Len(b), i <= j
        PROVE  b[i].timestamp <= b[j].timestamp
    <3>1. CASE i \in 1 .. Len(a) /\ j \in 1 .. Len(a)
      BY <1>3, <2>1, <2>3, <3>1
    <3>2. CASE i \in 1 .. Len(a) /\ j = Len(a) + 1
      <4>1. PICK k \in 1 .. n : a[i].timestamp = T(k)
        BY <1>2, <3>2
      <4>2. T(k) <= T(n + 1)
        BY <1>4, <2>3
      <4> QED  BY <1>7, <2>1, <3>2, <4>1, <4>2
    <3>3. CASE i = Len(a) + 1
      <4>1. j = i
        BY <1>0, <2>1, <2>3, <3>3
      <4>2. x.timestamp \in Nat
        BY DEF RowType
      <4> QED  BY <2>1, <3>3, <4>1, <4>2
    <3> QED  BY <2>1, <3>1, <3>2, <3>3
  <2> QED  BY <1>0, <2>2, <2>3 DEF RowTimes, b, T
<1> QED  BY <1>6, <1>7

LEMMA RowTimesStep ==
    ASSUME TypeOK, Columns', RowTimes, [Next]_vars
    PROVE  RowTimes'
<1>0. /\ job' = job /\ file \in Seq(Record) /\ Len(file) \in Nat /\ 1 \in Processes
      /\ rows \in [Processes -> Seq(RowType)]
  BY RowsUnchanged DEF TypeOK, Processes
<1>1. CASE Normalize
  <2>1. PICK rec \in Record, hash \in [Processes -> Hashes] :
             /\ file' = Append(file, rec)
             /\ IF Skipped(job.source, rec) THEN rows' = rows
                ELSE rows' = [s \in Processes |->
                                Append(rows[s], Row(job.source, Len(file), rec, hash[s]))]
    BY <1>1, NormalizeMakes
  <2>2. stage = "reading" /\ job.source \in Kinds
    BY <1>1 DEF Normalize
  <2> DEFINE x == Row(job.source, Len(file), rec, hash[1])
  <2>3. x \in RowType /\ x.timestamp = Timestamp(job.source, Len(file), rec)
    <3> DEFINE n == Len(file)
               h == hash[1]
    <3>1. h \in Hashes /\ n \in Nat
      BY <1>0
    <3> HIDE DEF n, h
    <3>2. /\ Row(job.source, n, rec, h) \in RowType
          /\ Row(job.source, n, rec, h).timestamp = Timestamp(job.source, n, rec)
      BY <2>2, <3>1, RowMade
    <3> QED  BY <3>2 DEF n, h
  <2>4. TimeIn(job.source, file', Len(file) + 1) = Timestamp(job.source, Len(file), rec)
    <3>1. file'[Len(file) + 1] = rec /\ (Len(file) + 1) - 1 = Len(file) /\ job.source # "raw"
      BY <1>0, <2>1, <2>2 DEF Kinds
    <3> QED  BY <3>1 DEF TimeIn
  <2>5. rows'[1] = rows[1] \/ rows'[1] = Append(rows[1], x)
    BY <1>0, <2>1
  <2> HIDE DEF x
  <2> QED  BY <2>1, <2>2, <2>3, <2>4, <2>5, RowTimesGrow
<1>2. CASE ReadRaw
  <2>1. PICK rec \in Record :
                /\ file' = Append(file, rec)
                /\ \/ /\ HasRequired(rec) /\ stage' = stage
                      /\ rows' = [s \in Processes |-> Append(rows[s], RawRow(Len(file), rec))]
                   \/ rows' = rows /\ stage' = "unusable"
    BY <1>2, ReadRawMakes
  <2>2. stage = "reading" /\ job.source = "raw"
    BY <1>2 DEF ReadRaw
  <2>3. CASE rows' = rows
    BY <2>1, <2>2, <2>3, RowTimesGrow
  <2>4. CASE rows' # rows
    <3> DEFINE x == RawRow(Len(file), rec)
    <3>1. x \in RowType /\ x.timestamp = rec.ts
      BY <1>0, <2>1, <2>4, RawRowMade
    <3>2. rows'[1] = Append(rows[1], x)
      BY <1>0, <2>1, <2>4
    <3>3. TimeIn(job.source, file', Len(file) + 1) = rec.ts
      <4>1. file'[Len(file) + 1] = rec
        BY <1>0, <2>1
      <4> QED  BY <2>2, <4>1 DEF TimeIn
    <3> HIDE DEF x
    <3> QED  BY <2>1, <2>2, <3>1, <3>2, <3>3, RowTimesGrow
  <2> QED  BY <2>3, <2>4
<1>3. CASE WriteRows
  <2> DEFINE a == rows[1]
             b == rows'[1]
  <2>1. a \in Seq(RowType) /\ Len(b) = Len(a) /\ \A i \in 1 .. Len(a) : b[i] = Written(a[i])
    BY <1>0, <1>3, WriteRowsMakes
  <2>2. stage' # "reading" /\ InOrder' = InOrder
    BY <1>0, <1>3 DEF WriteRows, InOrder
  <2> HIDE DEF a, b
  <2>3. ASSUME InOrder, NEW i \in 1 .. Len(b), NEW j \in 1 .. Len(b), i <= j
        PROVE  b[i].timestamp <= b[j].timestamp
    <3>1. a[i] \in RowType /\ a[j] \in RowType
      BY <2>1
    <3>2. a[i].timestamp <= a[j].timestamp /\ a[i].timestamp \in Nat /\ a[j].timestamp \in Nat
      <4>1. a[i].timestamp \in Nat /\ a[j].timestamp \in Nat
        BY <3>1 DEF RowType
      <4> QED  BY <2>1, <2>3, <4>1 DEF RowTimes, a
    <3> DEFINE p == RoundHalfEven(a[i].timestamp, FileGrain)
               q == RoundHalfEven(a[j].timestamp, FileGrain)
    <3>3. FileGrain \in Nat \ {0}
      BY PipelineAssumption
    <3>4. p \in Nat /\ q \in Nat /\ p <= q
      BY <3>2, <3>3, RoundMonotone
    <3>5. b[i].timestamp = FileGrain * p /\ b[j].timestamp = FileGrain * q
      BY <2>1, <3>1, WrittenRow
    <3> HIDE DEF p, q
    <3> QED  BY <3>3, <3>4, <3>5, ProductMonotone
  <2> QED  BY <1>0, <2>2, <2>3 DEF RowTimes, b
<1>4. CASE rows' = rows /\ file' = file
  <2>1. stage' = "reading" => stage = "reading"
    <3>1. CASE ReplayRow
      BY <3>1, ReplayRowMakes
    <3>2. CASE SampleRequest
      BY <3>2, SampleRequestMakes
    <3>3. CASE ~(ReplayRow \/ SampleRequest)
      BY <3>3 DEF Next, vars, Normalize, WriteRows, ReadRaw, TraceMissing, EndOfFile,
                  EndReplay, DrawArrival, EndArrivals, EndSampling
    <3> QED  BY <3>1, <3>2, <3>3
  <2>2. InOrder' = InOrder
    BY <1>0, <1>4 DEF InOrder
  <2> QED  BY <1>0, <1>4, <2>1, <2>2 DEF RowTimes
<1> QED  BY <1>1, <1>2, <1>3, <1>4, RowsUnchanged

-----------------------------------------------------------------------------
(* Generated arrivals. *)

LEMMA DrawnTimesStep ==
    ASSUME TypeOK, DrawnTimes, [Next]_vars
    PROVE  DrawnTimes'
<1>0. /\ config' = config /\ arrivals \in Seq(Nat) /\ Len(arrivals) \in Nat
      /\ DOMAIN arrivals = 1 .. Len(arrivals)
      /\ config.pattern \in {"uniform", "bursty", "poisson"}
      /\ config.request_count \in Nat /\ Duration \in Nat
  BY RowsUnchanged, PipelineAssumption DEF TypeOK, Config
<1>1. CASE DrawArrival
  <2>1. PICK a \in Nat :
             /\ arrivals' = Append(arrivals, a)
             /\ config.pattern = "uniform" =>
                  a = (Len(arrivals) * Duration) \div config.request_count
             /\ config.pattern = "poisson" =>
                  /\ a <= Duration
                  /\ arrivals # <<>> /\ arrivals[Len(arrivals)] <= Duration
                       => arrivals[Len(arrivals)] <= a
    BY <1>1, DrawArrivalMakes
  <2> DEFINE n == Len(arrivals)
             next == arrivals'
  <2>2. /\ next \in Seq(Nat) /\ Len(next) = n + 1 /\ \A i \in 1 .. n : next[i] = arrivals[i]
        /\ next[n + 1] = a
        /\ 1 .. Len(next) = 1 .. n \cup {n + 1}
    BY <1>0, <2>1, Appended
  <2>3. stage = "drawing" /\ stage' = "drawing"
    BY <1>1 DEF DrawArrival
  <2>4. CASE config.pattern = "uniform"
    <3> DEFINE at(i) == ((i - 1) * Duration) \div config.request_count
    <3>1. \A i \in 1 .. n : next[i] = at(i)
      BY <2>2, <2>3, <2>4 DEF DrawnTimes
    <3>2. next[n + 1] = at(n + 1)
      <4>1. (n + 1) - 1 = n
        BY <1>0
      <4> QED  BY <2>1, <2>2, <2>4, <4>1
    <3> HIDE DEF at, next
    <3>3. \A i \in 1 .. Len(next) : next[i] = at(i)
      BY <2>2, <3>1, <3>2
    <3> QED  BY <1>0, <2>3, <2>4, <3>3 DEF DrawnTimes, at, next
  <2>5. CASE config.pattern = "poisson"
    <3>1. Ascending(arrivals) /\ \A i \in 1 .. n : arrivals[i] <= Duration
      BY <2>3, <2>5 DEF DrawnTimes
    <3>2. \A i \in 1 .. n : arrivals[i] <= a
      <4> SUFFICES ASSUME NEW i \in 1 .. n PROVE arrivals[i] <= a
        OBVIOUS
      <4>1. n \in 1 .. n /\ i <= n /\ arrivals # <<>>
        BY <1>0
      <4>2. arrivals[i] \in Nat /\ arrivals[n] \in Nat
        BY <1>0, <4>1
      <4>3. arrivals[i] <= arrivals[n] /\ arrivals[n] <= Duration
        BY <1>0, <3>1, <4>1 DEF Ascending
      <4>4. arrivals[n] <= a
        BY <2>1, <2>5, <4>1, <4>3
      <4> QED  BY <4>2, <4>3, <4>4
    <3>3. Ascending(next)
      <4> HIDE DEF next
      <4> SUFFICES ASSUME NEW i \in 1 .. Len(next), NEW j \in 1 .. Len(next), i <= j
                   PROVE  next[i] <= next[j]
        BY <2>2 DEF Ascending
      <4>1. CASE j \in 1 .. n
        <5>1. i \in 1 .. n
          BY <1>0, <4>1
        <5> QED  BY <1>0, <2>2, <3>1, <4>1, <5>1 DEF Ascending
      <4>2. CASE j = n + 1
        <5>1. CASE i \in 1 .. n
          BY <2>2, <3>2, <4>2, <5>1
        <5>2. CASE i = n + 1
          BY <2>2, <4>2, <5>2
        <5> QED  BY <2>2, <5>1, <5>2
      <4> QED  BY <2>2, <4>1, <4>2
    <3>4. \A i \in 1 .. Len(next) : next[i] <= Duration
      <4> HIDE DEF next
      <4> QED  BY <2>1, <2>2, <2>5, <3>1
    <3> QED  BY <1>0, <2>3, <2>5, <3>3, <3>4 DEF DrawnTimes
  <2>6. CASE config.pattern = "bursty"
    BY <1>0, <2>3, <2>6 DEF DrawnTimes
  <2> QED  BY <1>0, <2>4, <2>5, <2>6
<1>2. CASE EndArrivals
  <2>1. stage = "drawing" /\ stage' # "drawing" /\ Len(arrivals) = config.request_count
    BY <1>2 DEF EndArrivals
  <2>2. Ascending(arrivals')
    <3>1. CASE config.pattern = "bursty"
      BY <1>0, <1>2, <3>1, Sorted DEF EndArrivals
    <3>2. CASE config.pattern = "poisson"
      BY <1>2, <2>1, <3>2 DEF EndArrivals, DrawnTimes
    <3>3. CASE config.pattern = "uniform"
      <4>1. arrivals' = arrivals
        BY <1>2, <3>3 DEF EndArrivals
      <4> SUFFICES ASSUME NEW i \in 1 .. Len(arrivals), NEW j \in 1 .. Len(arrivals), i <= j
                   PROVE  arrivals[i] <= arrivals[j]
        BY <1>0, <4>1 DEF Ascending
      <4> DEFINE p == Duration * (i - 1)
                 q == Duration * (j - 1)
      <4>2. p <= q /\ p \in Nat /\ q \in Nat
        <5>1. i - 1 \in Nat /\ j - 1 \in Nat /\ i - 1 <= j - 1
          BY <1>0
        <5> QED  BY <1>0, <5>1, ProductMonotone
      <4>3. arrivals[i] = ((i - 1) * Duration) \div config.request_count
            /\ arrivals[j] = ((j - 1) * Duration) \div config.request_count
        BY <2>1, <3>3 DEF DrawnTimes
      <4>4. (i - 1) * Duration = p /\ (j - 1) * Duration = q
        BY <1>0
      <4>5. config.request_count \in Nat \ {0}
        BY <1>0, <2>1
      <4> HIDE DEF p, q
      <4> QED  BY <4>2, <4>3, <4>4, <4>5, DivMonotone
    <3> QED  BY <1>0, <3>1, <3>2, <3>3
  <2> QED  BY <2>1, <2>2 DEF DrawnTimes
<1>3. CASE ~(DrawArrival \/ EndArrivals)
  <2>1. arrivals' = arrivals
    BY <1>3 DEF Next, vars, Normalize, WriteRows, ReadRaw, TraceMissing, EndOfFile, ReplayRow,
                EndReplay, SampleRequest, EndSampling
  <2>2. (stage' = "drawing") = (stage = "drawing")
    <3>1. CASE ReplayRow
      BY <3>1, ReplayRowMakes
    <3>2. CASE SampleRequest
      BY <3>2, SampleRequestMakes
    <3>3. CASE ReadRaw
      BY <3>3, ReadRawMakes DEF ReadRaw
    <3>4. CASE ~(ReplayRow \/ SampleRequest \/ ReadRaw)
      BY <1>3, <3>4 DEF Next, vars, Normalize, WriteRows, TraceMissing, EndOfFile,
                        EndReplay, EndSampling
    <3> QED  BY <3>1, <3>2, <3>3, <3>4
  <2> QED  BY <1>0, <2>1, <2>2 DEF DrawnTimes
<1> QED  BY <1>1, <1>2, <1>3

-----------------------------------------------------------------------------
(* The order of the requests. *)

\* While there are no requests, whatever happens to rows and arrivals is fine.
LEMMA NothingReplayed ==
    ASSUME TypeOK', requests' = <<>>
    PROVE  Replayed'
<1>1. /\ rows'[1] \in Seq(RowType) /\ config'.trace_limit \in Nat \cup {Unlimited}
      /\ Len(arrivals') \in Nat
  BY DEF TypeOK, Processes, Config
<1>2. Prefix(rows'[1], config'.trace_limit) \in Seq(RowType)
  BY <1>1, PrefixIs
<1>3. Len(Trace') \in Nat
  BY <1>2 DEF Trace
<1>4. Len(requests') = 0 /\ 1 .. Len(requests') = {}
  OBVIOUS
<1> QED  BY <1>1, <1>3, <1>4 DEF Replayed

LEMMA ReplayedStep ==
    ASSUME TypeOK, TypeOK', Fed, Replayed, [Next]_vars
    PROVE  Replayed'
<1>0. /\ job' = job /\ config' = config /\ requests \in Seq(RequestType)
      /\ Len(requests) \in Nat /\ config.request_count \in Nat
  BY RowsUnchanged DEF TypeOK, Config
<1>1. ASSUME rows' = rows
      PROVE  Trace' = Trace /\ \A i : ArrivalTs(i)' = ArrivalTs(i)
  BY <1>0, <1>1 DEF Trace, ArrivalTs
<1>2. CASE Normalize \/ WriteRows \/ ReadRaw \/ DrawArrival \/ EndArrivals
  <2>1. requests = <<>> /\ requests' = requests
    BY <1>2 DEF Fed, Normalize, WriteRows, ReadRaw, DrawArrival, EndArrivals
  <2> QED  BY <2>1, NothingReplayed
<1>3. CASE ReplayRow
  <2>1. rows' = rows /\ job.source # "generated"
    BY <1>3 DEF ReplayRow, TypeOK
  <2>2. PICK r \in RequestType :
                /\ requests' = Append(requests, r)
                /\ r.arrival_ts = ArrivalTs(Len(requests) + 1)
                /\ r.request_id = rows[1][Len(requests) + 1].request_id
    BY <1>3, ReplayRowMakes
  <2> DEFINE n == Len(requests)
             next == requests'
  <2>3. /\ Len(next) = n + 1 /\ \A i \in 1 .. n : next[i] = requests[i]
        /\ next[n + 1] = r
        /\ 1 .. Len(next) = 1 .. n \cup {n + 1}
    BY <1>0, <2>2, Appended
  <2>4. Len(next) <= Len(Trace)
    BY <1>0, <1>3, <2>3, ReplayRowMakes, TraceIs
  <2>5. \A i \in 1 .. n : /\ requests[i].arrival_ts = ArrivalTs(i)
                          /\ requests[i].request_id = rows[1][i].request_id
    BY <2>1 DEF Replayed
  <2>6. \A i \in 1 .. Len(next) : /\ next[i].arrival_ts = ArrivalTs(i)
                                  /\ next[i].request_id = rows[1][i].request_id
    <3> HIDE DEF next
    <3> QED  BY <2>2, <2>3, <2>5
  <2> QED  BY <1>0, <1>1, <2>1, <2>4, <2>6 DEF Replayed
<1>4. CASE EndReplay
  <2>1. rows' = rows /\ job.source # "generated"
    BY <1>4 DEF EndReplay, TypeOK
  <2> DEFINE t == Prefix(requests, config.request_count)
  <2>2. /\ t \in Seq(RequestType) /\ Len(t) <= Len(requests)
        /\ \A i \in 1 .. Len(t) : t[i] = requests[i]
    BY <1>0, PrefixIs
  <2>3. requests' = requests \/ requests' = t
    BY <1>4 DEF EndReplay
  <2> HIDE DEF t
  <2>4. 1 .. Len(t) \subseteq 1 .. Len(requests) /\ Len(t) \in Nat
    BY <1>0, <2>2
  <2>5. /\ Len(requests) <= Len(Trace)
        /\ \A i \in 1 .. Len(requests) : /\ requests[i].arrival_ts = ArrivalTs(i)
                                         /\ requests[i].request_id = rows[1][i].request_id
    BY <2>1 DEF Replayed
  <2>6. /\ Len(t) <= Len(Trace)
        /\ \A i \in 1 .. Len(t) : /\ t[i].arrival_ts = ArrivalTs(i)
                                  /\ t[i].request_id = rows[1][i].request_id
    <3>1. Len(Trace) \in Nat
      BY TraceIs
    <3> QED  BY <1>0, <2>2, <2>4, <2>5, <3>1
  <2> QED  BY <1>0, <1>1, <2>1, <2>3, <2>5, <2>6 DEF Replayed
<1>5. CASE SampleRequest /\ requests' # requests
  <2>1. arrivals' = arrivals /\ job.source = "generated" /\ Len(arrivals) \in Nat
    BY <1>5 DEF SampleRequest, TypeOK
  <2>2. PICK r \in RequestType :
                /\ requests' = Append(requests, r)
                /\ r.arrival_ts = RoundHalfEven(arrivals[Len(requests) + 1], ClockGrain)
    BY <1>5, SampleRequestMakes
  <2> DEFINE n == Len(requests)
             next == requests'
  <2>3. /\ Len(next) = n + 1 /\ \A i \in 1 .. n : next[i] = requests[i]
        /\ next[n + 1] = r
        /\ 1 .. Len(next) = 1 .. n \cup {n + 1}
    BY <1>0, <2>2, Appended
  <2>4. Len(next) <= Len(arrivals)
    BY <1>0, <1>5, <2>1, <2>3, SampleRequestMakes
  <2>5. \A i \in 1 .. n : requests[i].arrival_ts = RoundHalfEven(arrivals[i], ClockGrain)
    BY <2>1 DEF Replayed
  <2>6. \A i \in 1 .. Len(next) : next[i].arrival_ts = RoundHalfEven(arrivals[i], ClockGrain)
    <3> HIDE DEF next
    <3> QED  BY <2>2, <2>3, <2>5
  <2> QED  BY <1>0, <2>1, <2>4, <2>6 DEF Replayed
<1>6. CASE UNCHANGED <<rows, arrivals, requests>>
  BY <1>0, <1>1, <1>6 DEF Replayed
<1> QED
  BY <1>2, <1>3, <1>4, <1>5, <1>6 DEF Next, vars, TraceMissing, EndOfFile, EndSampling, SampleRequest

LEMMA ArrivalInvInit == Init => ArrivalInv
<1> SUFFICES ASSUME Init PROVE ArrivalInv
  OBVIOUS
<1>1. /\ TypeOK /\ file = <<>> /\ arrivals = <<>> /\ requests = <<>> /\ rows[1] = <<>>
  BY InitType DEF Init, Processes
<1>2. Len(Trace) \in Nat
  BY <1>1, TraceIs
<1>3. 1 .. Len(file) = {} /\ 1 .. Len(arrivals) = {} /\ 1 .. Len(requests) = {} /\ 1 .. Len(rows[1]) = {}
      /\ Len(requests) = 0 /\ Len(arrivals) = 0
  BY <1>1
<1>4. Fed
  BY <1>1 DEF Fed
<1>5. Columns
  BY <1>3 DEF Columns
<1>6. RowTimes
  BY <1>3 DEF RowTimes
<1>7. DrawnTimes
  <2>1. Ascending(arrivals)
    BY <1>1 DEF Ascending
  <2> QED  BY <1>3, <2>1 DEF DrawnTimes
<1>8. Replayed
  BY <1>2, <1>3 DEF Replayed
<1> QED  BY <1>4, <1>5, <1>6, <1>7, <1>8 DEF ArrivalInv

LEMMA ArrivalInvStep == TypeOK /\ TypeOK' /\ ArrivalInv /\ [Next]_vars => ArrivalInv'
<1> SUFFICES ASSUME TypeOK, TypeOK', ArrivalInv, [Next]_vars PROVE ArrivalInv'
  OBVIOUS
<1>1. Columns'
  BY ColumnsStep DEF ArrivalInv
<1> QED  BY <1>1, FedStep, RowTimesStep, DrawnTimesStep, ReplayedStep DEF ArrivalInv

LEMMA ArrivalInvOrdered == TypeOK /\ ArrivalInv => ArrivalsOrdered
<1> SUFFICES ASSUME TypeOK, ArrivalInv, InOrder,
                    NEW i \in DOMAIN requests, NEW j \in DOMAIN requests, i <= j
             PROVE  requests[i].arrival_ts <= requests[j].arrival_ts
  BY DEF ArrivalsOrdered
<1>1. /\ requests \in Seq(RequestType) /\ Len(requests) \in Nat
      /\ i \in 1 .. Len(requests) /\ j \in 1 .. Len(requests)
  BY DEF TypeOK
<1>2. CASE job.source = "generated"
  <2>1. /\ Len(requests) <= Len(arrivals) /\ arrivals \in Seq(Nat) /\ Len(arrivals) \in Nat
        /\ requests[i].arrival_ts = RoundHalfEven(arrivals[i], ClockGrain)
        /\ requests[j].arrival_ts = RoundHalfEven(arrivals[j], ClockGrain)
    BY <1>1, <1>2 DEF TypeOK, ArrivalInv, Replayed
  <2>2. i \in 1 .. Len(arrivals) /\ j \in 1 .. Len(arrivals) /\ DOMAIN arrivals = 1 .. Len(arrivals)
    BY <1>1, <2>1
  <2>3. arrivals[i] \in Nat /\ arrivals[j] \in Nat
    BY <2>1, <2>2
  <2>4. Ascending(arrivals)
    <3>1. requests # <<>>
      BY <1>1
    <3> QED  BY <3>1 DEF ArrivalInv, Fed, DrawnTimes
  <2>5. arrivals[i] <= arrivals[j]
    BY <2>2, <2>4 DEF Ascending
  <2>6. ClockGrain \in Nat \ {0}
    BY PipelineAssumption
  <2> QED  BY <2>1, <2>3, <2>5, <2>6, RoundMonotone
<1>3. CASE job.source # "generated"
  <2>1. /\ Len(requests) <= Len(Trace)
        /\ requests[i].arrival_ts = ArrivalTs(i) /\ requests[j].arrival_ts = ArrivalTs(j)
    BY <1>1, <1>3 DEF ArrivalInv, Replayed
  <2>2. i \in 1 .. Len(Trace) /\ j \in 1 .. Len(Trace) /\ Len(Trace) <= Len(rows[1])
        /\ Len(Trace) \in Nat /\ Trace[i] = rows[1][i] /\ Trace[j] = rows[1][j]
        /\ Len(rows[1]) \in Nat
    <3>1. Len(rows[1]) \in Nat
      BY DEF TypeOK, Processes
    <3>2. Len(Trace) \in Nat /\ Len(Trace) <= Len(rows[1])
      BY TraceIs
    <3>3. i \in 1 .. Len(Trace) /\ j \in 1 .. Len(Trace)
      BY <1>1, <2>1, <3>2
    <3> QED  BY <3>1, <3>2, <3>3, TraceIs
  <2>3. Trace[i].timestamp <= Trace[j].timestamp
    <3>1. i \in 1 .. Len(rows[1]) /\ j \in 1 .. Len(rows[1])
      BY <2>2
    <3> QED  BY <2>2, <3>1 DEF ArrivalInv, RowTimes
  <2>4. /\ Trace[i].timestamp \in Nat /\ Trace[j].timestamp \in Nat /\ Trace[1].timestamp \in Nat
        /\ ClockGrain * config.speed \in Nat \ {0}
    BY <2>2, ArrivalType
  <2> DEFINE m == AtLeast(0, Trace[i].timestamp - Trace[1].timestamp)
             n == AtLeast(0, Trace[j].timestamp - Trace[1].timestamp)
  <2>5. m \in Nat /\ n \in Nat /\ m <= n
    BY <2>3, <2>4 DEF AtLeast
  <2>6. ArrivalTs(i) = RoundHalfEven(m, ClockGrain * config.speed)
        /\ ArrivalTs(j) = RoundHalfEven(n, ClockGrain * config.speed)
    BY DEF ArrivalTs
  <2> DEFINE grain == ClockGrain * config.speed
  <2> HIDE DEF m, n
  <2>7. RoundHalfEven(m, grain) <= RoundHalfEven(n, grain)
    <3>1. grain \in Nat \ {0}
      BY <2>4
    <3> HIDE DEF grain
    <3> QED  BY <2>5, <3>1, RoundMonotone
  <2> QED  BY <2>1, <2>6, <2>7
<1> QED  BY <1>2, <1>3

\* The arrival times of a workload never decrease (ArrivalsOrdered), for traces
\* of any length whose own times do not, any whole speed, any limit, and for each of
\* the patterns of generated arrivals: neither the rounding in the file nor the
\* one of the replay exchanges two of them.
THEOREM ArrivalsAreOrdered == Spec => []ArrivalsOrdered
<1> QED
  BY TypeCorrect, ArrivalInvInit, ArrivalInvStep, ArrivalInvOrdered, PTL DEF Spec

-----------------------------------------------------------------------------
(* Which records become requests. *)

\* The place in the file of the record that row i is made of.
Place(i) == rows[1][i].request_id[2] + 1

Before(place) == {j \in Usable : j < place}

\* The rows are the usable records, in their order.
RowsAreUsable ==
    /\ stage # "unusable" => Len(rows[1]) = Cardinality(Usable)
    /\ \A i \in 1 .. Len(rows[1]) :
         Place(i) \in Usable /\ Cardinality(Before(Place(i))) = i - 1

\* What has ended the reading, and the replay.
Limits ==
    /\ job.source \in Kinds /\ job.limit # Unlimited => Len(rows[1]) <= job.limit
    /\ job.source # "generated" /\ stage \in {"replaying", "done"} =>
         ended \/ (job.source \in Kinds /\ Len(rows[1]) = job.limit)
    /\ job.source # "generated" /\ stage = "done" =>
         Len(requests) = IF config.request_count = 0 \/ Len(Trace) <= config.request_count
                         THEN Len(Trace) ELSE config.request_count

LEMMA UsableIs ==
    ASSUME TypeOK
    PROVE  /\ file \in Seq(Record) /\ Len(file) \in Nat
           /\ Usable = {i \in 1 .. Len(file) : ~Skipped(job.source, file[i])}
           /\ IsFiniteSet(Usable) /\ Cardinality(Usable) \in Nat
<1>1. file \in Seq(Record) /\ Len(file) \in Nat /\ DOMAIN file = 1 .. Len(file)
  BY DEF TypeOK
<1>2. Usable = {i \in 1 .. Len(file) : ~Skipped(job.source, file[i])}
  BY <1>1 DEF Usable
<1>3. IsFiniteSet(1 .. Len(file))
  BY <1>1, FS_Interval
<1>4. IsFiniteSet(Usable)
  BY <1>2, <1>3, FS_Subset
<1> QED  BY <1>1, <1>2, <1>4, FS_CardinalityType

\* A record read is after the others; a skipped one is not usable.
LEMMA UsableGrows ==
    ASSUME TypeOK, [Next]_vars, NEW rec \in Record, file' = Append(file, rec)
    PROVE  /\ Usable' = IF Skipped(job.source, rec) THEN Usable ELSE Usable \cup {Len(file) + 1}
           /\ \A j \in Usable : j < Len(file) + 1
<1> DEFINE n == Len(file)
<1>0. /\ job' = job /\ file \in Seq(Record) /\ n \in Nat
      /\ Usable = {i \in 1 .. n : ~Skipped(job.source, file[i])}
  BY RowsUnchanged, UsableIs
<1>1. /\ file' \in Seq(Record) /\ Len(file') = n + 1 /\ \A i \in 1 .. n : file'[i] = file[i]
      /\ file'[n + 1] = rec /\ 1 .. n + 1 = 1 .. n \cup {n + 1}
  BY <1>0, Appended
<1>2. DOMAIN file' = 1 .. n \cup {n + 1}
  BY <1>1
<1>3. Usable' = {i \in 1 .. n \cup {n + 1} : ~Skipped(job.source, file'[i])}
  BY <1>0, <1>2 DEF Usable
<1>4. {i \in 1 .. n : ~Skipped(job.source, file'[i])} = Usable
  BY <1>0, <1>1
<1>5. Usable' = Usable \cup {i \in {n + 1} : ~Skipped(job.source, rec)}
  <2> HIDE DEF n
  <2> QED  BY <1>1, <1>3, <1>4
<1>6. \A j \in Usable : j < n + 1
  BY <1>0
<1> QED  BY <1>5, <1>6

\* A record read adds a row if it is usable, and then that of its place.
LEMMA RowsAreUsableGrow ==
    ASSUME TypeOK, TypeOK', RowsAreUsable, [Next]_vars,
           stage = "reading", NEW rec \in Record, file' = Append(file, rec),
           \/ rows'[1] = rows[1] /\ (stage' = "unusable" \/ Skipped(job.source, rec))
           \/ /\ ~Skipped(job.source, rec)
              /\ \E x \in RowType : /\ rows'[1] = Append(rows[1], x)
                                    /\ x.request_id[2] = Len(file)
    PROVE  RowsAreUsable'
<1> DEFINE a == rows[1]
           b == rows'[1]
           n == Len(file)
           U == Usable
           V == Usable'
           first(S, p) == {j \in S : j < p}
<1>0. /\ a \in Seq(RowType) /\ Len(a) \in Nat /\ n \in Nat
      /\ IsFiniteSet(U) /\ Cardinality(U) \in Nat
      /\ V = IF Skipped(job.source, rec) THEN U ELSE U \cup {n + 1}
      /\ \A j \in U : j < n + 1
      /\ U \subseteq 1 .. n
  <2>1. a \in Seq(RowType) /\ Len(a) \in Nat
    BY DEF TypeOK, Processes
  <2>2. n \in Nat /\ IsFiniteSet(U) /\ Cardinality(U) \in Nat /\ U \subseteq 1 .. n
    BY UsableIs
  <2>3. /\ V = IF Skipped(job.source, rec) THEN U ELSE U \cup {n + 1}
        /\ \A j \in U : j < n + 1
    BY UsableGrows
  <2> QED  BY <2>1, <2>2, <2>3
<1>1. \A i \in 1 .. Len(a) : /\ a[i].request_id[2] + 1 \in U
                             /\ Cardinality(first(U, a[i].request_id[2] + 1)) = i - 1
  BY DEF RowsAreUsable, Place, Before
<1>2. Len(a) = Cardinality(U)
  BY DEF RowsAreUsable
<1> HIDE DEF U, V, a, n
<1>3. \A p \in U : first(V, p) = first(U, p) /\ p \in V
  <2> SUFFICES ASSUME NEW p \in U PROVE first(V, p) = first(U, p) /\ p \in V
    OBVIOUS
  <2>1. p \in 1 .. n /\ p < n + 1 /\ ~ (n + 1 < p)
    BY <1>0
  <2> QED  BY <1>0, <2>1
<1>4. \A i \in 1 .. Len(a) : /\ a[i].request_id[2] + 1 \in V
                             /\ Cardinality(first(V, a[i].request_id[2] + 1)) = i - 1
  <2> HIDE DEF first
  <2> QED  BY <1>1, <1>3
<1>5. ASSUME \A i \in 1 .. Len(b) : /\ b[i].request_id[2] + 1 \in V
                                    /\ Cardinality(first(V, b[i].request_id[2] + 1)) = i - 1,
             stage' # "unusable" => Len(b) = Cardinality(V)
      PROVE  RowsAreUsable'
  BY <1>5 DEF RowsAreUsable, Place, Before, V
<1>6. CASE b = a /\ (stage' = "unusable" \/ Skipped(job.source, rec))
  BY <1>0, <1>2, <1>4, <1>5, <1>6
<1>7. ASSUME ~Skipped(job.source, rec), NEW x \in RowType, b = Append(a, x),
             x.request_id[2] = n
      PROVE  RowsAreUsable'
  <2>1. /\ Len(b) = Len(a) + 1 /\ \A i \in 1 .. Len(a) : b[i] = a[i]
        /\ b[Len(a) + 1] = x
        /\ 1 .. Len(b) = 1 .. Len(a) \cup {Len(a) + 1}
    BY <1>0, <1>7, Appended
  <2>2. V = U \cup {n + 1} /\ n + 1 \notin U
    BY <1>0, <1>7
  <2>3. Cardinality(V) = Cardinality(U) + 1
    BY <1>0, <2>2, FS_AddElement
  <2>4. first(V, n + 1) = U /\ n + 1 \in V
    <3>1. ~ (n + 1 < n + 1)
      BY <1>0
    <3>2. \A j \in V : j \in U \/ j = n + 1
      BY <2>2
    <3>3. \A j : j \in first(V, n + 1) <=> j \in U
      BY <1>0, <2>2, <3>1, <3>2
    <3> QED  BY <2>2, <3>3
  <2>5. ASSUME NEW i \in 1 .. Len(b)
        PROVE  /\ b[i].request_id[2] + 1 \in V
               /\ Cardinality(first(V, b[i].request_id[2] + 1)) = i - 1
    <3>1. CASE i \in 1 .. Len(a)
      BY <1>4, <2>1, <3>1
    <3>2. CASE i = Len(a) + 1
      <4>1. b[i].request_id[2] + 1 = n + 1 /\ i - 1 = Cardinality(U)
        BY <1>0, <1>2, <1>7, <2>1, <3>2
      <4> HIDE DEF first
      <4> QED  BY <2>4, <4>1
    <3> QED  BY <2>1, <3>1, <3>2
  <2>6. Len(b) = Cardinality(V)
    BY <1>2, <2>1, <2>3
  <2> QED  BY <1>5, <2>5, <2>6
<1> QED  BY <1>6, <1>7 DEF a, b, n

LEMMA RowsAreUsableStep ==
    ASSUME TypeOK, TypeOK', RowsAreUsable, [Next]_vars
    PROVE  RowsAreUsable'
<1>0. /\ job' = job /\ Len(file) \in Nat /\ 1 \in Processes
      /\ rows \in [Processes -> Seq(RowType)]
  BY RowsUnchanged DEF TypeOK, Processes
<1>1. CASE Normalize
  <2>1. PICK rec \in Record, hash \in [Processes -> Hashes] :
             /\ file' = Append(file, rec)
             /\ IF Skipped(job.source, rec) THEN rows' = rows
                ELSE rows' = [s \in Processes |->
                                Append(rows[s], Row(job.source, Len(file), rec, hash[s]))]
    BY <1>1, NormalizeMakes
  <2>2. stage = "reading" /\ job.source \in Kinds
    BY <1>1 DEF Normalize
  <2>3. CASE Skipped(job.source, rec)
    BY <2>1, <2>2, <2>3, RowsAreUsableGrow
  <2>4. CASE ~Skipped(job.source, rec)
    <3> DEFINE x == Row(job.source, Len(file), rec, hash[1])
    <3>1. hash[1] \in Hashes
      BY <1>0
    <3>2. x \in RowType /\ x.request_id[2] = Len(file)
      BY <1>0, <2>2, <3>1, RowMade
    <3>3. rows'[1] = Append(rows[1], x)
      BY <1>0, <2>1, <2>4
    <3> HIDE DEF x
    <3> QED  BY <2>1, <2>2, <2>4, <3>2, <3>3, RowsAreUsableGrow
  <2> QED  BY <2>3, <2>4
<1>2. CASE ReadRaw
  <2>1. PICK rec \in Record :
                /\ file' = Append(file, rec)
                /\ \/ /\ HasRequired(rec)
                      /\ rows' = [s \in Processes |-> Append(rows[s], RawRow(Len(file), rec))]
                   \/ rows' = rows /\ stage' = "unusable"
    BY <1>2, ReadRawMakes
  <2>2. stage = "reading" /\ ~Skipped(job.source, rec)
    BY <1>2 DEF ReadRaw, Skipped
  <2>3. CASE rows' = rows /\ stage' = "unusable"
    BY <2>1, <2>2, <2>3, RowsAreUsableGrow
  <2>4. CASE ~(rows' = rows /\ stage' = "unusable")
    <3> DEFINE x == RawRow(Len(file), rec)
    <3>1. x \in RowType /\ x.request_id[2] = Len(file)
      BY <1>0, <2>1, <2>4, RawRowMade
    <3>2. rows'[1] = Append(rows[1], x)
      BY <1>0, <2>1, <2>4
    <3> HIDE DEF x
    <3> QED  BY <2>1, <2>2, <3>1, <3>2, RowsAreUsableGrow
  <2> QED  BY <2>3, <2>4
<1>3. CASE WriteRows
  <2>1. Usable' = Usable /\ stage # "unusable"
    BY <1>0, <1>3 DEF WriteRows, Usable
  <2>2. Len(rows'[1]) = Len(rows[1])
    BY <1>0, <1>3, WriteRowsMakes
  <2>3. \A i \in 1 .. Len(rows[1]) : rows'[1][i].request_id = rows[1][i].request_id
    <3> SUFFICES ASSUME NEW i \in 1 .. Len(rows[1])
                 PROVE  rows'[1][i].request_id = rows[1][i].request_id
      OBVIOUS
    <3>1. rows[1][i] \in RowType /\ rows'[1][i] = Written(rows[1][i])
      BY <1>0, <1>3, WriteRowsMakes
    <3> QED  BY <3>1, WrittenRow
  <2> QED  BY <2>1, <2>2, <2>3 DEF RowsAreUsable, Place, Before
<1>4. CASE rows' = rows /\ file' = file
  <2>1. stage' # "unusable" => stage # "unusable"
    <3>1. CASE ReplayRow
      BY <3>1, ReplayRowMakes
    <3>2. CASE SampleRequest
      BY <3>2, SampleRequestMakes
    <3>3. CASE ~(ReplayRow \/ SampleRequest)
      BY <3>3 DEF Next, vars, Normalize, WriteRows, ReadRaw, TraceMissing, EndOfFile,
                  EndReplay, DrawArrival, EndArrivals, EndSampling
    <3> QED  BY <3>1, <3>2, <3>3
  <2>2. Usable' = Usable
    BY <1>0, <1>4 DEF Usable
  <2> QED  BY <1>4, <2>1, <2>2 DEF RowsAreUsable, Place, Before
<1> QED  BY <1>1, <1>2, <1>3, <1>4, RowsUnchanged

LEMMA LimitsStep ==
    ASSUME TypeOK, TypeOK', Limits, [Next]_vars
    PROVE  Limits'
<1> DEFINE a == rows[1]
           b == rows'[1]
<1>0. /\ job' = job /\ config' = config /\ 1 \in Processes
      /\ rows \in [Processes -> Seq(RowType)] /\ a \in Seq(RowType) /\ Len(a) \in Nat
      /\ job.limit \in Nat \cup {Unlimited} /\ config.request_count \in Nat
      /\ requests \in Seq(RequestType) /\ Len(requests) \in Nat
  <2>1. job' = job /\ config' = config
    BY RowsUnchanged
  <2>2. /\ 1 \in Processes /\ rows \in [Processes -> Seq(RowType)]
        /\ requests \in Seq(RequestType) /\ Len(requests) \in Nat
    BY DEF TypeOK, Processes
  <2>3. job.limit \in Nat \cup {Unlimited} /\ config.request_count \in Nat
    BY DEF TypeOK, Job, Config
  <2>4. a \in Seq(RowType) /\ Len(a) \in Nat
    BY <2>2
  <2> QED  BY <2>1, <2>2, <2>3, <2>4
<1>1. ASSUME rows' = rows PROVE Trace' = Trace
  BY <1>0, <1>1 DEF Trace
<1>2. CASE Normalize
  <2>1. PICK rec \in Record, hash \in [Processes -> Hashes] :
             IF Skipped(job.source, rec) THEN rows' = rows
             ELSE rows' = [s \in Processes |->
                             Append(rows[s], Row(job.source, Len(file), rec, hash[s]))]
    BY <1>2, NormalizeMakes
  <2>2. stage' = "reading" /\ ~LimitReached(job.limit)
    BY <1>2 DEF Normalize
  <2>3. Len(b) \in {Len(a), Len(a) + 1}
    BY <1>0, <2>1
  <2>4. job.limit # Unlimited => Len(b) <= job.limit
    BY <1>0, <2>2, <2>3 DEF LimitReached
  <2> QED  BY <1>0, <2>2, <2>4 DEF Limits
<1>3. CASE WriteRows
  <2>1. Len(b) = Len(a) /\ stage' = "replaying" /\ job.source \in Kinds /\ ended' = ended
        /\ (ended \/ LimitReached(job.limit))
    BY <1>0, <1>3, WriteRowsMakes DEF WriteRows
  <2>2. ended \/ Len(a) = job.limit
    BY <1>0, <2>1 DEF LimitReached, Limits
  <2> QED  BY <1>0, <2>1, <2>2 DEF Limits
<1>4. CASE ReadRaw
  <2>1. stage' \in {"reading", "unusable"} /\ job.source \notin Kinds
    BY <1>4, ReadRawMakes DEF ReadRaw, Kinds
  <2> QED  BY <1>0, <2>1 DEF Limits
<1>5. CASE EndOfFile
  BY <1>0, <1>5 DEF Limits, EndOfFile
<1>6. CASE ReplayRow
  <2>1. stage' = stage /\ stage = "replaying" /\ rows' = rows /\ ended' = ended
    BY <1>6, ReplayRowMakes DEF ReplayRow
  <2> QED  BY <1>0, <2>1 DEF Limits
<1>7. CASE EndReplay
  <2>1. stage' = "done" /\ stage = "replaying" /\ rows' = rows /\ ended' = ended
        /\ Len(requests) = Len(Trace)
    BY <1>7 DEF EndReplay
  <2> DEFINE t == Prefix(requests, config.request_count)
  <2>2. Len(t) = IF Len(requests) <= config.request_count THEN Len(requests)
                 ELSE config.request_count
    <3>1. Len(t) = IF config.request_count = Unlimited \/ Len(requests) <= config.request_count
                   THEN Len(requests) ELSE config.request_count
      BY <1>0, PrefixIs
    <3>2. config.request_count # Unlimited
      BY <1>0 DEF Unlimited
    <3> QED  BY <3>1, <3>2
  <2>3. requests' = IF config.request_count > 0 THEN t ELSE requests
    BY <1>7 DEF EndReplay
  <2> HIDE DEF t
  <2>4. Len(requests') = IF config.request_count = 0 \/ Len(Trace) <= config.request_count
                         THEN Len(Trace) ELSE config.request_count
    BY <1>0, <2>1, <2>2, <2>3
  <2> QED  BY <1>0, <1>1, <2>1, <2>4 DEF Limits
<1>8. CASE DrawArrival \/ EndArrivals \/ SampleRequest \/ EndSampling
  <2>1. job.source = "generated"
    BY <1>8 DEF TypeOK, DrawArrival, EndArrivals, SampleRequest, EndSampling
  <2> QED  BY <1>0, <2>1 DEF Limits, Kinds
<1>9. CASE TraceMissing
  <2>1. stage' = "unusable" /\ rows' = rows
    BY <1>9 DEF TraceMissing
  <2> QED  BY <1>0, <2>1 DEF Limits
<1>10. CASE UNCHANGED vars
  BY <1>0, <1>1, <1>10 DEF Limits, vars
<1> QED
  BY <1>2, <1>3, <1>4, <1>5, <1>6, <1>7, <1>8, <1>9, <1>10 DEF Next

LEMMA FirstRecords ==
    TypeOK /\ ArrivalInv /\ RowsAreUsable /\ Limits => RequestsAreFirstRecords
<1> SUFFICES ASSUME TypeOK, ArrivalInv, RowsAreUsable, Limits,
                    stage = "done", job.source # "generated"
             PROVE  RequestsAreFirstRecords
  BY DEF RequestsAreFirstRecords
<1> DEFINE count == config.request_count
           limit == config.trace_limit
           total == Cardinality(Usable)
           n == Len(requests)
           bounds == {config.trace_limit}
                      \cup (IF job.source = "raw" THEN {} ELSE {job.limit})
                      \cup (IF config.request_count = 0 THEN {} ELSE {config.request_count})
                      \cup (IF ended THEN {Cardinality(Usable)} ELSE {})
<1>1. /\ count \in Nat /\ limit \in Nat \cup {Unlimited} /\ job.limit \in Nat \cup {Unlimited}
      /\ total \in Nat /\ n \in Nat
      /\ job.source # "raw" => job.source \in Kinds
  BY UsableIs DEF TypeOK, Config, Job, Sources
<1>2. Len(Trace) = IF limit = Unlimited \/ total <= limit THEN total ELSE limit
  BY TraceIs DEF RowsAreUsable
<1>3. n = IF count = 0 \/ Len(Trace) <= count THEN Len(Trace) ELSE count
  BY DEF Limits
<1>4. ended \/ (job.source # "raw" /\ total = job.limit)
  BY DEF Limits, RowsAreUsable, Kinds
<1>5. job.source # "raw" /\ job.limit # Unlimited => total <= job.limit
  BY <1>1 DEF Limits, RowsAreUsable
<1>6. \A i \in DOMAIN requests :
        LET place == requests[i].request_id[2] + 1
        IN  place \in Usable /\ Cardinality({j \in Usable : j < place}) = i - 1
  <2> SUFFICES ASSUME NEW i \in DOMAIN requests
               PROVE  LET place == requests[i].request_id[2] + 1
                      IN  place \in Usable /\ Cardinality({j \in Usable : j < place}) = i - 1
    OBVIOUS
  <2>1. i \in 1 .. Len(requests) /\ Len(requests) <= Len(Trace)
    BY DEF TypeOK, ArrivalInv, Replayed
  <2>2. i \in 1 .. Len(rows[1])
    <3>1. Len(Trace) \in Nat /\ Len(Trace) <= Len(rows[1]) /\ Len(rows[1]) \in Nat
      BY TraceIs DEF TypeOK, Processes
    <3> QED  BY <1>1, <2>1, <3>1
  <2>3. requests[i].request_id = rows[1][i].request_id
    BY <2>1 DEF ArrivalInv, Replayed
  <2> QED  BY <2>2, <2>3 DEF RowsAreUsable, Place, Before
<1> HIDE DEF count, limit, total, n
<1>7. bounds = {limit} \cup (IF job.source = "raw" THEN {} ELSE {job.limit})
               \cup (IF count = 0 THEN {} ELSE {count}) \cup (IF ended THEN {total} ELSE {})
  BY DEF count, limit, total
<1> HIDE DEF bounds
<1>8. n \in bounds
  BY <1>1, <1>2, <1>3, <1>4, <1>7 DEF Unlimited
<1>9. \A m \in bounds \ {Unlimited} : n <= m
  BY <1>1, <1>2, <1>3, <1>5, <1>7 DEF Unlimited
<1> QED  BY <1>6, <1>8, <1>9 DEF RequestsAreFirstRecords, bounds, n

\* The requests of a trace are the first usable records of the file, each once
\* and in order (RequestsAreFirstRecords), for files of any length and any
\* limit, trace_limit and request_count, zero included.
THEOREM RequestsAreTheFirstRecords == Spec => []RequestsAreFirstRecords
<1>1. Init => RowsAreUsable /\ Limits
  <2> SUFFICES ASSUME Init PROVE RowsAreUsable /\ Limits
    OBVIOUS
  <2>1. rows[1] = <<>> /\ file = <<>> /\ TypeOK /\ stage \notin {"replaying", "done"}
    BY InitType DEF Init, Processes
  <2>2. Usable = {}
    BY <2>1 DEF Usable
  <2>3. Cardinality(Usable) = 0
    BY <2>2, FS_EmptySet
  <2>4. Len(rows[1]) = 0 /\ 1 .. Len(rows[1]) = {}
    BY <2>1
  <2>5. job.limit \in Nat \cup {Unlimited}
    BY <2>1 DEF TypeOK, Job
  <2> QED  BY <2>1, <2>3, <2>4, <2>5 DEF RowsAreUsable, Limits
<1>2. TypeOK /\ TypeOK' /\ RowsAreUsable /\ Limits /\ [Next]_vars => RowsAreUsable' /\ Limits'
  BY RowsAreUsableStep, LimitsStep
<1> QED
  BY <1>1, <1>2, TypeCorrect, ArrivalInvInit, ArrivalInvStep, FirstRecords, PTL DEF Spec
=============================================================================
