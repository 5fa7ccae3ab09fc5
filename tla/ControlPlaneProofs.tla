------------------------- MODULE ControlPlaneProofs -------------------------
(***************************************************************************)
(* Theorems about ControlPlane, and ControlPlaneInTime at the end, for     *)
(* every topology, workload and bound.                                     *)
(***************************************************************************)
EXTENDS ControlPlaneInTime, CacheEntriesProofs

(* The pieces of a placement. *)

\* The slot place_request() picks exists and is the earliest of its pool.
LEMMA EarliestSlotIsLeast ==
    ASSUME TypeOK, NEW p \in Pools
    PROVE  /\ EarliestSlot(p) \in SlotIds(p)
           /\ \A u \in SlotIds(p) : slots[p][EarliestSlot(p)] <= slots[p][u]
<1> DEFINE times == {slots[p][s] : s \in SlotIds(p)}
<1>1. slots[p] \in [SlotIds(p) -> Nat]
  BY DEF TypeOK
<1>2. 1 \in SlotIds(p) /\ SlotIds(p) \subseteq Nat
  BY ControlPlaneAssumption DEF SlotIds
<1>3. times \in SUBSET Nat /\ times # {}
  BY <1>1, <1>2
<1>4. PICK m \in times : \A n \in times : m <= n
  BY <1>3, LeastNatural
<1> DEFINE earliest == {s \in SlotIds(p) : slots[p][s] = m}
<1>5. earliest \in SUBSET Nat /\ earliest # {}
  BY <1>2, <1>4
<1>6. PICK s \in earliest : \A u \in earliest : s <= u
  BY <1>5, LeastNatural
<1>7. ASSUME NEW u \in SlotIds(p)
      PROVE  \/ slots[p][s] < slots[p][u]
             \/ slots[p][s] = slots[p][u] /\ s <= u
  <2>1. slots[p][s] = m /\ m <= slots[p][u]
    BY <1>4, <1>6, <1>7
  <2>2. slots[p][u] \in Nat /\ m \in Nat
    BY <1>1, <1>3, <1>4, <1>7
  <2>3. CASE slots[p][u] = m
    BY <1>6, <1>7, <2>1, <2>3
  <2>4. CASE slots[p][u] # m
    BY <2>1, <2>2, <2>4
  <2> QED  BY <2>3, <2>4
<1>8. \E x \in SlotIds(p) : \A u \in SlotIds(p) :
          \/ slots[p][x] < slots[p][u]
          \/ slots[p][x] = slots[p][u] /\ x <= u
  BY <1>6, <1>7
<1>9. /\ EarliestSlot(p) \in SlotIds(p)
      /\ \A u \in SlotIds(p) :
            \/ slots[p][EarliestSlot(p)] < slots[p][u]
            \/ slots[p][EarliestSlot(p)] = slots[p][u] /\ EarliestSlot(p) <= u
  BY <1>8 DEF EarliestSlot
<1> QED  BY <1>1, <1>9

\* A request starts at its arrival or when its slot is free, the later.
LEMMA StartTsBounds ==
    ASSUME TypeOK, NEW p \in Pools, NEW t \in Nat
    PROVE  /\ StartTs(p, t) \in Nat
           /\ t <= StartTs(p, t)
           /\ slots[p][EarliestSlot(p)] <= StartTs(p, t)
           /\ StartTs(p, t) = t \/ StartTs(p, t) = slots[p][EarliestSlot(p)]
<1> DEFINE free == slots[p][EarliestSlot(p)]
<1>1. free \in Nat
  BY EarliestSlotIsLeast DEF TypeOK
<1>2. /\ Max({t, free}) \in {t, free}
      /\ t <= Max({t, free}) /\ free <= Max({t, free})
  <2> HIDE DEF free
  <2> QED  BY <1>1, MaxOfTwo
<1>3. StartTs(p, t) = Max({t, free})
  BY DEF StartTs
<1> QED  BY <1>1, <1>2, <1>3

\* A request needs some memory, at most what it needs without a cache hit.
LEMMA RequestMemoryBounds ==
    ASSUME NEW k \in Keys, NEW prompt \in Nat, NEW gen \in Nat, NEW saved \in Nat
    PROVE  /\ 0 < RequestMemory(k, prompt, gen, saved)
           /\ RequestMemory(k, prompt, gen, saved) <= RequestMemory(k, prompt, gen, 0)
<1> DEFINE less == prompt + gen - saved
           full == prompt + gen - 0
           a == Max({1, less})
           b == Max({1, full})
           scale == ModelScale[k]
<1>1. scale \in Nat /\ 0 < scale
  BY CacheAssumption
<1>2. less \in Int /\ full \in Int /\ less <= full
  OBVIOUS
<1>3. 1 <= a /\ a \in {1, less} /\ 1 <= b /\ full <= b
  <2> HIDE DEF less, full
  <2> QED  BY <1>2, MaxOfTwo
<1>4. a \in Nat /\ b \in Nat
  <2> HIDE DEF less, full
  <2> QED  BY <1>2, MaxNatural
<1>5. a <= b
  <2> HIDE DEF a, b, less, full
  <2> QED  BY <1>2, <1>3, <1>4
<1>6. 0 < 20 * scale * a /\ 20 * scale * a <= 20 * scale * b
  <2> HIDE DEF a, b, scale, less, full
  <2>1. \A x, y, z \in Nat : 0 < x /\ 1 <= y /\ y <= z => 0 < 20 * x * y /\ 20 * x * y <= 20 * x * z
    OBVIOUS
  <2> QED  BY <1>1, <1>3, <1>4, <1>5, <2>1
<1> QED  BY <1>6 DEF RequestMemory

\* The memory of a candidate is a positive number, at most what the request
\* needs without a hit, and its reason is the one for that memory.
LEMMA CandidateType ==
    ASSUME TypeOK, NEW k \in Keys, NEW prompt \in Prompts, NEW t \in Nat,
           NEW scoring \in Scorings(k, prompt, t), NEW p \in Pools
    PROVE  LET cand == Candidates(k, prompt, t, scoring)[p]
           IN  /\ cand.mem \in Nat /\ HitIncrement(cand.score) \in Nat
               /\ 0 < cand.mem /\ cand.mem <= RequestMemory(k, prompt, GenTokens, 0)
               /\ cand.reason = RejectionReason(p, k, t, cand.mem)
<1> DEFINE bucket == ConsultedFor(entries, redis, k, p, t)[k]
<1>1. bucket \in SUBSET Entry
  <2>1. ConsultedFor(entries, redis, k, p, t) \in Directory
    BY ConsultedType DEF TypeOK
  <2> QED  BY <2>1 DEF Directory
<1>2. scoring[p] \in Scores(bucket, prompt, p, t)
  <2>1. \A q \in Pools :
          scoring[q] \in Scores(ConsultedFor(entries, redis, k, q, t)[k], prompt, q, t)
    BY Zenon DEF Scorings
  <2> QED  BY <2>1
<1>3. prompt \in Nat /\ GenTokens \in Nat
  BY ControlPlaneAssumption
<1>4. scoring[p].saved \in Nat /\ HitIncrement(scoring[p]) \in Nat
  <2> HIDE DEF bucket
  <2> QED  BY <1>1, <1>2, <1>3, ScoresType
<1>5. RequestMemory(k, prompt, GenTokens, scoring[p].saved) \in Nat
  BY <1>3, <1>4, RequestMemoryType
<1>6. /\ 0 < RequestMemory(k, prompt, GenTokens, scoring[p].saved)
      /\ RequestMemory(k, prompt, GenTokens, scoring[p].saved)
           <= RequestMemory(k, prompt, GenTokens, 0)
  BY <1>3, <1>4, RequestMemoryBounds
<1> QED  BY <1>4, <1>5, <1>6 DEF Candidates, Candidate

\* What place_request() books is a placement.
LEMMA NewPlacementType ==
    ASSUME TypeOK, NEW k \in Keys, NEW p \in Pools, NEW t \in Nat,
           NEW service \in ServiceTimes, NEW cand, cand.mem \in Nat
    PROVE  NewPlacement(k, p, t, service, cand) \in Placement
<1>1. EarliestSlot(p) \in Nat
  BY EarliestSlotIsLeast, ControlPlaneAssumption DEF SlotIds
<1>2. StartTs(p, t) \in Nat /\ StartTs(p, t) + service \in Nat
  BY StartTsBounds, ControlPlaneAssumption
<1>3. arrived \in Nat
  BY DEF TypeOK
<1> QED  BY <1>1, <1>2, <1>3 DEF NewPlacement, Placement

\* The directories of an observed placement are directories, trimmed or not.
LEMMA ObservedDirsType ==
    ASSUME TypeOK, NEW k \in Keys, NEW p \in Pools, NEW prompt \in Prompts,
           NEW t \in Nat, NEW finish \in Nat,
           NEW cand, cand.mem \in Nat, HitIncrement(cand.score) \in Nat,
           NEW after \in ObservedDirs(k, p, prompt, t, finish, cand)
    PROVE  after \in Directory /\ Trimmed(after) \subseteq Directory
<1> DEFINE routed == Routed(k, t)
           touched == Touched(routed[k], p, prompt, cand.mem, finish,
                              HitIncrement(cand.score))
<1>1. routed \in Directory
  BY ConsultedType DEF Routed, TypeOK
<1>2. PICK bucket \in Capped(touched) : after = [routed EXCEPT ![k] = bucket]
  BY DEF ObservedDirs
<1>3. routed[k] \in SUBSET Entry
  BY <1>1 DEF Directory
<1>4. prompt \in Nat
  BY ControlPlaneAssumption
<1>5. touched \subseteq Entry
  <2> HIDE DEF routed
  <2> QED  BY <1>3, <1>4, TouchedType
<1>6. bucket \subseteq Entry
  <2> HIDE DEF touched
  <2> QED  BY <1>2, <1>5, CappedSubset
<1>7. after \in Directory
  <2> HIDE DEF routed
  <2> QED  BY <1>1, <1>2, <1>6 DEF Directory
<1> QED  BY <1>7, TrimmedSubset

\* A request is charged to its tenant.
LEMMA StatsType ==
    ASSUME TypeOK, NEW k \in Keys
    PROVE  /\ Submitted(k) \in [Tenants -> TenantStats]
           /\ \A j \in Placement : j.key = k /\ j.arrival <= j.finish
                 => Accounted(j) \in [Tenants -> TenantStats]
<1>1. TenantOf[k] \in Tenants
  BY ControlPlaneAssumption
<1>2. Submitted(k) \in [Tenants -> TenantStats]
  BY <1>1 DEF TypeOK, Submitted, TenantStats
<1>3. ASSUME NEW j \in Placement, j.key = k, j.arrival <= j.finish
      PROVE  Accounted(j) \in [Tenants -> TenantStats]
  <2> DEFINE old     == Submitted(k)[TenantOf[k]]
             latency == j.finish - j.arrival
             miss    == IF latency > MaxLatency THEN 1 ELSE 0
  <2>1. old \in TenantStats
    BY <1>1, <1>2
  <2>2. latency \in Nat /\ miss \in Nat
    BY <1>3 DEF Placement
  <2>3. WithResult(old, j) = [old EXCEPT !.completed = old.completed + 1,
                                         !.total_latency = old.total_latency + latency,
                                         !.sla_misses = old.sla_misses + miss]
    BY DEF WithResult
  <2>4. WithResult(old, j) \in TenantStats
    <3> HIDE DEF old, miss, latency
    <3>1. /\ old.completed + 1 \in Nat
          /\ old.total_latency + latency \in Nat
          /\ old.sla_misses + miss \in Nat
      BY <2>1, <2>2 DEF TenantStats
    <3> QED  BY <2>1, <2>3, <3>1 DEF TenantStats
  <2>5. Accounted(j) = [Submitted(k) EXCEPT ![TenantOf[k]] = WithResult(old, j)]
    BY <1>3 DEF Accounted
  <2> QED  BY <1>2, <2>4, <2>5
<1> QED  BY <1>2, <1>3

-----------------------------------------------------------------------------
(* Type correctness. *)

\* A step that books placement j, as place_request() does.
Booked(j) ==
    /\ j \in Placement
    /\ j.id = arrived /\ j.arrival = now'
    /\ j.slot = EarliestSlot(j.pool)
    /\ j.start = StartTs(j.pool, j.arrival)
    /\ j.start < j.finish /\ j.finish - j.start \in ServiceTimes
    /\ Book(j)

\* The checks of build_candidates that an admitted placement j has passed.
Accepted(j) ==
    /\ 0 < j.mem
    /\ ~(InflightCount(j.pool, j.arrival) >= QueueLimit[j.pool])
    /\ ~(MemoryHeadroom(j.pool, j.arrival) < j.mem)

\* The placement of an admitted request is booked by place_request().
LEMMA NewPlacementBooked ==
    ASSUME TypeOK, NEW k \in Keys, NEW p \in Pools, NEW t \in Nat, now' = t,
           NEW service \in ServiceTimes, NEW cand, cand.mem \in Nat,
           Book(NewPlacement(k, p, t, service, cand))
    PROVE  Booked(NewPlacement(k, p, t, service, cand))
<1> DEFINE j == NewPlacement(k, p, t, service, cand)
<1>1. j \in Placement
  BY NewPlacementType
<1>2. /\ j.id = arrived /\ j.arrival = t /\ j.pool = p /\ j.slot = EarliestSlot(p)
      /\ j.start = StartTs(p, t) /\ j.finish = StartTs(p, t) + service
  BY DEF NewPlacement
<1>3. j.start < j.finish /\ j.finish - j.start \in ServiceTimes
  <2>a. StartTs(p, t) \in Nat
    BY StartTsBounds
  <2>b. ServiceTimes \subseteq Nat \ {0}
    BY ControlPlaneAssumption
  <2>1. StartTs(p, t) \in Nat /\ service \in Nat /\ 0 < service
    BY <2>a, <2>b
  <2>2. (StartTs(p, t) + service) - StartTs(p, t) = service
    BY <2>1
  <2> QED  BY <1>2, <2>1, <2>2
<1> HIDE DEF j
<1> QED  BY <1>1, <1>2, <1>3 DEF Booked, j

\* Refreshing and booking keep the types of the pools' state.
LEMMA BookType ==
    ASSUME TypeOK, NEW j, Booked(j)
    PROVE  /\ slots' = [p \in Pools |-> slots'[p]]
           /\ \A p \in Pools : slots'[p] \in [SlotIds(p) -> Nat]
           /\ inflight' \in [Pools -> SUBSET Placement]
           /\ decision_count' \in [Pools -> Nat]
           /\ placed' \subseteq Placement
<1>1. j \in Placement /\ j.pool \in Pools /\ j.finish \in Nat
  BY DEF Booked, Placement
<1>2. j.slot \in SlotIds(j.pool)
  BY <1>1, EarliestSlotIsLeast DEF Booked
<1>3. slots' = [slots EXCEPT ![j.pool][j.slot] = j.finish]
  BY DEF Booked, Book
<1>4. slots = [p \in Pools |-> slots[p]] /\ \A p \in Pools : slots[p] \in [SlotIds(p) -> Nat]
  BY DEF TypeOK
<1>5. slots' = [p \in Pools |-> slots'[p]]
  BY <1>3, <1>4
<1>6. \A p \in Pools : slots'[p] \in [SlotIds(p) -> Nat]
  BY <1>1, <1>2, <1>3, <1>4
<1>7. inflight' \in [Pools -> SUBSET Placement]
  BY <1>1 DEF Booked, Book, Refreshed, StillInflight, TypeOK
<1>8. decision_count' \in [Pools -> Nat] /\ placed' \subseteq Placement
  BY <1>1 DEF Booked, Book, TypeOK
<1> QED  BY <1>5, <1>6, <1>7, <1>8

\* Every step but a stuttering one handles one request, either booking a
\* placement for it or leaving all bookings alone.
LEMMA StepShape ==
    ASSUME TypeOK, Next
    PROVE  /\ now' \in Nat /\ (Ordered => now <= now') /\ arrived' = arrived + 1
           /\ \/ UNCHANGED <<slots, placed>> /\ inflight' = Refreshed(now')
              \/ \E j : Booked(j) /\ Accepted(j)
<1>1. PICK k \in Keys, t \in 0 .. MaxTime :
        \/ \E prompt \in Prompts, service \in ServiceTimes :
              Admit(k, prompt, t, service) \/ AdmitRaises(k, prompt, t, service)
        \/ \E prompt \in Prompts : Reject(k, prompt, t)
        \/ RouteRaises(k, t)
  BY DEF Next, Iteration
<1>2. t \in Nat /\ Arrive(k, t)
  BY <1>1, ControlPlaneAssumption DEF Admit, AdmitRaises, Reject, RouteRaises
<1>3. now' = t /\ (Ordered => now <= t) /\ arrived' = arrived + 1
  BY <1>2 DEF Arrive
<1>4. ASSUME NEW prompt \in Prompts, NEW service \in ServiceTimes,
             Admit(k, prompt, t, service) \/ AdmitRaises(k, prompt, t, service)
      PROVE  \E j : Booked(j) /\ Accepted(j)
  <2>1. PICK scoring \in Scorings(k, prompt, t), p \in Pools :
          /\ Book(NewPlacement(k, p, t, service, Candidates(k, prompt, t, scoring)[p]))
          /\ Candidates(k, prompt, t, scoring)[p].reason = "none"
    BY <1>4 DEF Admit, AdmitRaises, Choosable
  <2> DEFINE cand == Candidates(k, prompt, t, scoring)[p]
  <2>2. cand.mem \in Nat /\ 0 < cand.mem /\ cand.reason = RejectionReason(p, k, t, cand.mem)
    BY <1>2, CandidateType
  <2>3. RejectionReason(p, k, t, cand.mem) = "none"
    BY <2>1, <2>2
  <2> HIDE DEF cand
  <2> DEFINE j == NewPlacement(k, p, t, service, cand)
  <2>4. Booked(j)
    BY <1>2, <1>3, <2>1, <2>2, NewPlacementBooked DEF cand
  <2>5. j.pool = p /\ j.arrival = t /\ j.mem = cand.mem
    BY DEF NewPlacement
  <2>6. Accepted(j)
    <3> HIDE DEF j
    <3>1. ~(InflightCount(p, t) >= QueueLimit[p]) /\ ~(MemoryHeadroom(p, t) < cand.mem)
      BY <2>3 DEF RejectionReason
    <3> QED  BY <2>2, <2>5, <3>1 DEF Accepted
  <2> HIDE DEF j
  <2> QED  BY <2>4, <2>6
<1>5. (\E prompt \in Prompts : Reject(k, prompt, t)) \/ RouteRaises(k, t)
        => UNCHANGED <<slots, placed>> /\ inflight' = Refreshed(t)
  BY DEF Reject, RouteRaises
<1> QED  BY <1>1, <1>2, <1>3, <1>4, <1>5

\* The two outcomes of an admitted request preserve the types.
LEMMA AdmitPreservesType ==
    ASSUME TypeOK, NEW k \in Keys, NEW prompt \in Prompts, NEW t \in Nat,
           NEW service \in ServiceTimes,
           Admit(k, prompt, t, service) \/ AdmitRaises(k, prompt, t, service)
    PROVE  TypeOK'
<1>1. Arrive(k, t)
  BY DEF Admit, AdmitRaises
<1>2. now' = t /\ now' \in Nat /\ arrived' \in Nat
  BY <1>1 DEF Arrive, TypeOK
<1>3. PICK scoring \in Scorings(k, prompt, t), p \in Pools :
        LET cand == Candidates(k, prompt, t, scoring)[p]
            j    == NewPlacement(k, p, t, service, cand)
        IN  /\ Book(j)
            /\ \E after \in ObservedDirs(k, p, prompt, t, j.finish, cand) :
                  /\ entries' = after \/ entries' \in Trimmed(after)
                  /\ redis' = [redis EXCEPT ![k] = after[k]] \/ redis' = redis
            /\ stats' = Accounted(j) \/ stats' = Submitted(k)
            /\ \/ completed_count' = [completed_count EXCEPT ![p] = @ + 1]
               \/ completed_count' = completed_count
  <2>1. CASE Admit(k, prompt, t, service)
    BY <2>1 DEF Admit, Choosable, Mirrored
  <2>2. CASE AdmitRaises(k, prompt, t, service)
    BY <2>2 DEF AdmitRaises, Choosable, Mirrored
  <2> QED  BY <2>1, <2>2
<1> DEFINE cand == Candidates(k, prompt, t, scoring)[p]
           j    == NewPlacement(k, p, t, service, cand)
<1>4. cand.mem \in Nat /\ HitIncrement(cand.score) \in Nat
  BY CandidateType
<1> HIDE DEF cand
<1>5. Booked(j)
  BY <1>2, <1>3, <1>4, NewPlacementBooked DEF cand
<1>6. j \in Placement /\ j.key = k /\ j.arrival <= j.finish
  <2>1. j \in Placement /\ j.arrival = t /\ j.start = StartTs(p, t) /\ j.start < j.finish
    BY <1>2, <1>5 DEF Booked, NewPlacement
  <2>2. j.key = k
    BY DEF NewPlacement
  <2>3. t <= StartTs(p, t) /\ StartTs(p, t) \in Nat
    BY StartTsBounds
  <2> HIDE DEF j
  <2> QED  BY <2>1, <2>2, <2>3 DEF Placement
<1> HIDE DEF j
<1>7. PICK after \in ObservedDirs(k, p, prompt, t, j.finish, cand) :
        /\ entries' = after \/ entries' \in Trimmed(after)
        /\ redis' = [redis EXCEPT ![k] = after[k]] \/ redis' = redis
  BY <1>3 DEF cand, j
<1>8. after \in Directory /\ Trimmed(after) \subseteq Directory
  BY <1>4, <1>6, ObservedDirsType DEF Placement
<1>9. entries' \in Directory /\ redis' \in Directory
  BY <1>7, <1>8 DEF TypeOK, Directory
<1>10. stats' \in [Tenants -> TenantStats]
  <2>1. stats' = Accounted(j) \/ stats' = Submitted(k)
    BY <1>3 DEF cand, j
  <2> QED  BY <1>6, <2>1, StatsType
<1>11. completed_count' \in [Pools -> Nat]
  BY <1>3 DEF TypeOK
<1>12. raised' \in BOOLEAN /\ rejected' \subseteq Rejection
  BY DEF Admit, AdmitRaises, TypeOK
<1>13. enabled' \in BOOLEAN
  BY <1>1 DEF Arrive, TypeOK
<1> QED  BY <1>2, <1>5, <1>9, <1>10, <1>11, <1>12, <1>13, BookType DEF TypeOK

\* A request that is not placed preserves the types.
LEMMA OtherPreservesType ==
    ASSUME TypeOK, NEW k \in Keys, NEW t \in Nat,
           (\E prompt \in Prompts : Reject(k, prompt, t)) \/ RouteRaises(k, t)
    PROVE  TypeOK'
<1>1. now' \in Nat /\ arrived' \in Nat /\ enabled' \in BOOLEAN
  BY DEF Reject, RouteRaises, Arrive, TypeOK
<1>2. entries' = Routed(k, t) \/ entries' = EvictStale(entries, t)
  BY DEF Reject, RouteRaises
<1>3. Routed(k, t) \in Directory /\ EvictStale(entries, t) \in Directory
  BY ConsultedType, CacheAssumption DEF Routed, TypeOK
<1>4. inflight' \in [Pools -> SUBSET Placement]
  BY DEF Reject, RouteRaises, Refreshed, StillInflight, TypeOK
<1>5. stats' \in [Tenants -> TenantStats]
  BY StatsType DEF Reject, RouteRaises
<1>6. /\ UNCHANGED <<slots, redis, decision_count, completed_count, placed>>
      /\ raised' \in BOOLEAN
  BY DEF Reject, RouteRaises, TypeOK
<1>7. rejected' \subseteq Rejection
  <2>1. CASE RouteRaises(k, t)
    BY <2>1 DEF RouteRaises, TypeOK
  <2>2. ASSUME NEW prompt \in Prompts, Reject(k, prompt, t)
        PROVE  rejected' \subseteq Rejection
    <3>1. PICK scoring \in Scorings(k, prompt, t), p \in Pools :
            LET cand == Candidates(k, prompt, t, scoring)[p]
            IN  /\ cand.reason # "none"
                /\ rejected' = rejected \cup {[id |-> arrived, key |-> k, prompt |-> prompt,
                                              arrival |-> t, reason |-> cand.reason]}
      BY <2>2 DEF Reject, Choosable
    <3> DEFINE reason == Candidates(k, prompt, t, scoring)[p].reason
    <3>2. reason # "none" /\ reason \in {"cluster-unavailable", "unsupported-model",
                                         "queue-limit", "memory-pressure", "none"}
      BY <3>1 DEF Candidates, Candidate, RejectionReason
    <3> HIDE DEF reason
    <3>3. [id |-> arrived, key |-> k, prompt |-> prompt, arrival |-> t, reason |-> reason]
             \in Rejection
      BY <3>2 DEF Rejection, TypeOK
    <3> QED  BY <3>1, <3>3 DEF TypeOK, reason
  <2> QED  BY <2>1, <2>2
<1> QED  BY <1>1, <1>2, <1>3, <1>4, <1>5, <1>6, <1>7 DEF TypeOK

\* The control plane keeps every part of its state well typed, in every run,
\* also in the iteration an exception cuts short.
THEOREM TypeCorrect == Spec => []TypeOK
<1>1. Init => TypeOK
  <2> SUFFICES ASSUME Init PROVE TypeOK
    OBVIOUS
  <2>1. /\ slots = [p \in Pools |-> slots[p]]
        /\ \A p \in Pools : slots[p] \in [SlotIds(p) -> Nat]
    BY DEF Init
  <2>2. entries \in Directory /\ redis \in Directory
    BY DEF Init, EmptyDirectory, Directory
  <2>3. stats \in [Tenants -> TenantStats]
    BY DEF Init, TenantStats
  <2> QED  BY <2>1, <2>2, <2>3 DEF Init, TypeOK
<1>2. TypeOK /\ [Next]_vars => TypeOK'
  <2> SUFFICES ASSUME TypeOK, [Next]_vars
               PROVE  TypeOK'
    OBVIOUS
  <2>1. CASE Next
    <3>1. 0 .. MaxTime \subseteq Nat
      BY ControlPlaneAssumption
    <3>2. PICK k \in Keys, t \in 0 .. MaxTime :
            \/ \E prompt \in Prompts, service \in ServiceTimes :
                  Admit(k, prompt, t, service) \/ AdmitRaises(k, prompt, t, service)
            \/ \E prompt \in Prompts : Reject(k, prompt, t)
            \/ RouteRaises(k, t)
      BY <2>1 DEF Next, Iteration
    <3> QED  BY <3>1, <3>2, AdmitPreservesType, OtherPreservesType
  <2>2. CASE UNCHANGED vars
    BY <2>2 DEF vars, TypeOK
  <2> QED  BY <2>1, <2>2
<1> QED  BY <1>1, <1>2, PTL DEF Spec

-----------------------------------------------------------------------------
(* The bookings of a pool. *)

\* What a booking changes: one slot, which is booked further than before.
LEMMA BookEffect ==
    ASSUME TypeOK, NEW j, Booked(j)
    PROVE  /\ j \in Placement /\ placed' = placed \cup {j}
           /\ j.slot \in SlotIds(j.pool)
           /\ slots[j.pool][j.slot] <= j.start
           /\ slots'[j.pool][j.slot] = j.finish
           /\ \A p \in Pools : \A s \in SlotIds(p) :
                 /\ slots[p][s] \in Nat /\ slots'[p][s] \in Nat
                 /\ slots[p][s] <= slots'[p][s]
                 /\ ~(p = j.pool /\ s = j.slot) => slots'[p][s] = slots[p][s]
<1>1. /\ j \in Placement /\ j.pool \in Pools
      /\ j.start \in Nat /\ j.finish \in Nat /\ j.arrival \in Nat
  BY DEF Booked, Placement
<1>2. j.slot \in SlotIds(j.pool) /\ slots[j.pool][j.slot] <= j.start /\ j.start < j.finish
  BY <1>1, EarliestSlotIsLeast, StartTsBounds DEF Booked
<1>3. placed' = placed \cup {j} /\ slots' = [slots EXCEPT ![j.pool][j.slot] = j.finish]
  BY DEF Booked, Book
<1>4. slots = [p \in Pools |-> slots[p]] /\ \A p \in Pools : slots[p] \in [SlotIds(p) -> Nat]
  BY DEF TypeOK
<1>5. slots'[j.pool][j.slot] = j.finish
  BY <1>1, <1>2, <1>3, <1>4
<1>6. ASSUME NEW p \in Pools, NEW s \in SlotIds(p)
      PROVE  /\ slots[p][s] \in Nat
             /\ ~(p = j.pool /\ s = j.slot) => slots'[p][s] = slots[p][s]
  BY <1>1, <1>2, <1>3, <1>4, <1>6
<1>7. ASSUME NEW p \in Pools, NEW s \in SlotIds(p)
      PROVE  slots'[p][s] \in Nat /\ slots[p][s] <= slots'[p][s]
  <2>1. CASE p = j.pool /\ s = j.slot
    BY <1>1, <1>2, <1>5, <1>6, <1>7, <2>1
  <2>2. CASE ~(p = j.pool /\ s = j.slot)
    BY <1>6, <1>7, <2>2
  <2> QED  BY <2>1, <2>2
<1> QED  BY <1>1, <1>2, <1>3, <1>5, <1>6, <1>7

\* The strengthening of SlotExclusive: a slot is marked as booked until the
\* end of every placement it was given.
SlotsCoverPlacements ==
    \A j \in placed : /\ j.slot \in SlotIds(j.pool)
                      /\ j.start < j.finish
                      /\ j.finish <= slots[j.pool][j.slot]

\* The strengthening is an invariant.
LEMMA BookingsAlwaysDisjoint == Spec => [](SlotsCoverPlacements /\ SlotExclusive)
<1> DEFINE Inv == SlotsCoverPlacements /\ SlotExclusive
<1>1. Init => Inv
  BY DEF Init, SlotsCoverPlacements, SlotExclusive
<1>2. TypeOK /\ Inv /\ [Next]_vars => Inv'
  <2> SUFFICES ASSUME TypeOK, Inv, [Next]_vars
               PROVE  Inv'
    OBVIOUS
  <2>1. CASE UNCHANGED <<slots, placed>>
    BY <2>1 DEF SlotsCoverPlacements, SlotExclusive
  <2>2. ASSUME NEW j, Booked(j)
        PROVE  Inv'
    <3>1. \A i \in placed : i \in Placement
      BY DEF TypeOK
    <3>2. SlotsCoverPlacements'
      <4> SUFFICES ASSUME NEW i \in placed'
                   PROVE  /\ i.slot \in SlotIds(i.pool) /\ i.start < i.finish
                          /\ i.finish <= slots'[i.pool][i.slot]
        BY DEF SlotsCoverPlacements, SlotIds
      <4>1. CASE i = j
        BY <2>2, <4>1, BookEffect DEF Booked, Placement
      <4>2. CASE i \in placed
        <5>1. /\ i.slot \in SlotIds(i.pool) /\ i.start < i.finish
              /\ i.finish <= slots[i.pool][i.slot]
          BY <4>2 DEF SlotsCoverPlacements
        <5>2. i.pool \in Pools /\ i.finish \in Nat
          BY <3>1, <4>2 DEF Placement
        <5>3. /\ slots[i.pool][i.slot] \in Nat /\ slots'[i.pool][i.slot] \in Nat
              /\ slots[i.pool][i.slot] <= slots'[i.pool][i.slot]
          BY <2>2, <5>1, <5>2, BookEffect
        <5> QED  BY <5>1, <5>2, <5>3
      <4> QED  BY <2>2, <4>1, <4>2, BookEffect
    <3>3. ASSUME NEW i \in placed, i.pool = j.pool, i.slot = j.slot
          PROVE  i.finish <= j.start
      <4>1. i.finish <= slots[j.pool][j.slot] /\ slots[j.pool][j.slot] <= j.start
        BY <2>2, <3>3, BookEffect DEF SlotsCoverPlacements
      <4>2. i.finish \in Nat /\ j.start \in Nat /\ slots[j.pool][j.slot] \in Nat
        BY <2>2, <3>1, <3>3, BookEffect DEF Placement
      <4> QED  BY <4>1, <4>2
    <3>4. SlotExclusive'
      BY <2>2, <3>3, BookEffect DEF SlotExclusive
    <3> QED  BY <3>2, <3>4
  <2>3. CASE Next
    BY <2>1, <2>2, <2>3, StepShape
  <2>4. CASE UNCHANGED vars
    BY <2>1, <2>4 DEF vars
  <2> QED  BY <2>3, <2>4
<1> QED  BY <1>1, <1>2, TypeCorrect, PTL DEF Spec

\* No slot of any pool ever runs two requests at the same time, whatever the
\* policy chooses, in whatever order requests arrive, and in runs that an
\* exception ends.
THEOREM SlotsAreExclusive == Spec => []SlotExclusive
BY BookingsAlwaysDisjoint, PTL

\* A booked request starts at its arrival, or else when the earliest slot of
\* its pool is free.
LEMMA BookedStart ==
    ASSUME TypeOK, NEW j, Booked(j)
    PROVE  /\ j.arrival = now' /\ now' \in Nat
           /\ now' <= j.start
           /\ \/ j.start = now'
              \/ \A s \in SlotIds(j.pool) : j.start <= slots[j.pool][s]
<1>1. j.pool \in Pools /\ j.arrival \in Nat /\ j.arrival = now'
  BY DEF Booked, Placement
<1>2. j.start = StartTs(j.pool, j.arrival)
  BY DEF Booked
<1> QED  BY <1>1, <1>2, StartTsBounds, EarliestSlotIsLeast

\* Identifiers are given out in order.
IdsUsed == \A j \in placed : j.id < arrived

\* The strengthening of NoOvertaking: a placement has started by now, or no
\* slot of its pool is free before it starts.
StartedOrNoSlotEarlier ==
    \A j \in placed : \/ j.start <= now
                      \/ \A s \in SlotIds(j.pool) : j.start <= slots[j.pool][s]

\* If requests arrive in order, every pool serves them first come, first
\* served: booking the earliest slot at arrival is a fair queue.
THEOREM RequestsStartInOrder ==
    ASSUME Ordered
    PROVE  Spec => []NoOvertaking
<1> DEFINE Inv == IdsUsed /\ StartedOrNoSlotEarlier /\ NoOvertaking
<1>1. Init => Inv
  BY DEF Init, IdsUsed, StartedOrNoSlotEarlier, NoOvertaking
<1>2. TypeOK /\ Inv /\ [Next]_vars => Inv'
  <2> SUFFICES ASSUME TypeOK, Inv, [Next]_vars
               PROVE  Inv'
    OBVIOUS
  <2>1. \A i \in placed : /\ i.pool \in Pools /\ i.id \in Nat
                          /\ i.start \in Nat /\ i.finish \in Nat
    BY DEF TypeOK, Placement
  <2>2. now \in Nat /\ arrived \in Nat
    BY DEF TypeOK
  <2>3. ASSUME UNCHANGED <<slots, placed>>, now' \in Nat, now <= now',
               arrived' = arrived + 1
        PROVE  Inv'
    <3>1. IdsUsed'
      BY <2>1, <2>2, <2>3 DEF IdsUsed
    <3>2. StartedOrNoSlotEarlier'
      BY <2>1, <2>2, <2>3 DEF StartedOrNoSlotEarlier, SlotIds
    <3>3. NoOvertaking'
      BY <2>3 DEF NoOvertaking
    <3> QED  BY <3>1, <3>2, <3>3
  <2>4. ASSUME NEW j, Booked(j), now' \in Nat, now <= now', arrived' = arrived + 1
        PROVE  Inv'
    <3>1. /\ j.id = arrived /\ j.pool \in Pools
          /\ j.start \in Nat /\ j.finish \in Nat /\ j.start < j.finish
      BY <2>4 DEF Booked, Placement
    <3>2. placed' = placed \cup {j}
      BY <2>4, BookEffect
    <3>3. ASSUME NEW i \in placed, i.pool = j.pool
          PROVE  i.start <= j.start
      <4>1. CASE i.start <= now
        BY <2>1, <2>2, <2>4, <3>1, <3>3, <4>1, BookedStart
      <4>2. CASE \A s \in SlotIds(i.pool) : i.start <= slots[i.pool][s]
        <5>1. /\ j.slot \in SlotIds(j.pool) /\ slots[j.pool][j.slot] <= j.start
              /\ slots[j.pool][j.slot] \in Nat
          BY <2>4, <3>1, BookEffect
        <5> QED  BY <2>1, <3>1, <3>3, <4>2, <5>1
      <4> QED  BY <4>1, <4>2 DEF StartedOrNoSlotEarlier
    <3>4. IdsUsed'
      BY <2>1, <2>2, <2>4, <3>1, <3>2 DEF IdsUsed
    <3>5. ASSUME NEW i \in placed'
          PROVE  \/ i.start <= now'
                 \/ \A s \in SlotIds(i.pool) : i.start <= slots'[i.pool][s]
      <4>1. CASE i = j
        <5>1. CASE j.start = now'
          BY <2>4, <4>1, <5>1
        <5>2. CASE \A s \in SlotIds(j.pool) : j.start <= slots[j.pool][s]
          <6>1. \A s \in SlotIds(j.pool) : /\ slots[j.pool][s] \in Nat
                                           /\ slots'[j.pool][s] \in Nat
                                           /\ slots[j.pool][s] <= slots'[j.pool][s]
            BY <2>4, <3>1, BookEffect
          <6> QED  BY <3>1, <4>1, <5>2, <6>1
        <5> QED  BY <2>4, <5>1, <5>2, BookedStart
      <4>2. CASE i \in placed
        <5>1. CASE i.start <= now
          BY <2>1, <2>2, <2>4, <4>2, <5>1
        <5>2. CASE \A s \in SlotIds(i.pool) : i.start <= slots[i.pool][s]
          <6>1. i.pool \in Pools /\ i.start \in Nat
            BY <2>1, <4>2
          <6>2. \A s \in SlotIds(i.pool) : /\ slots[i.pool][s] \in Nat
                                           /\ slots'[i.pool][s] \in Nat
                                           /\ slots[i.pool][s] <= slots'[i.pool][s]
            BY <2>4, <6>1, BookEffect
          <6> QED  BY <5>2, <6>1, <6>2
        <5> QED  BY <4>2, <5>1, <5>2 DEF StartedOrNoSlotEarlier
      <4> QED  BY <3>2, <4>1, <4>2
    <3>6. StartedOrNoSlotEarlier'
      BY <3>5 DEF StartedOrNoSlotEarlier, SlotIds
    <3>7. NoOvertaking'
      <4> SUFFICES ASSUME NEW i \in placed', NEW l \in placed', i.pool = l.pool,
                          i.id < l.id
                   PROVE  i.start <= l.start
        BY DEF NoOvertaking
      <4>1. CASE i \in placed /\ l \in placed
        BY <4>1 DEF NoOvertaking
      <4>2. CASE i \in placed /\ l = j
        BY <3>3, <4>2
      <4>3. CASE i = j
        <5>1. l \in placed => l.id < arrived /\ l.id \in Nat
          BY <2>1 DEF IdsUsed
        <5> QED  BY <2>2, <3>1, <3>2, <4>3, <5>1
      <4> QED  BY <3>2, <4>1, <4>2, <4>3
    <3> QED  BY <3>4, <3>6, <3>7
  <2>5. CASE Next
    BY <2>3, <2>4, <2>5, StepShape
  <2>6. CASE UNCHANGED vars
    BY <2>6 DEF vars, IdsUsed, StartedOrNoSlotEarlier, NoOvertaking, SlotIds
  <2> QED  BY <2>5, <2>6
<1>3. Inv => NoOvertaking
  OBVIOUS
<1> QED  BY <1>1, <1>2, <1>3, TypeCorrect, PTL DEF Spec

\* The strengthening of WorkConserving: from now until the time a slot is
\* booked to, the slot is busy without a gap.
BusyUntilBooked ==
    \A p \in Pools : \A s \in SlotIds(p), t \in Nat :
        now <= t /\ t < slots[p][s] =>
            \E i \in placed : i.pool = p /\ i.slot = s /\ i.start <= t /\ t < i.finish

\* If requests arrive in order, no request waits while a slot of its pool is
\* idle: the queueing delay that place_request() reports is never padded.
THEOREM NoIdleSlotWhileWaiting ==
    ASSUME Ordered
    PROVE  Spec => []WorkConserving
<1> DEFINE Inv == IdsUsed /\ BusyUntilBooked /\ WorkConserving
<1>1. Init => Inv
  BY DEF Init, IdsUsed, BusyUntilBooked, WorkConserving
<1>2. TypeOK /\ Inv /\ [Next]_vars => Inv'
  <2> SUFFICES ASSUME TypeOK, Inv, [Next]_vars
               PROVE  Inv'
    OBVIOUS
  <2>1. \A i \in placed : /\ i.pool \in Pools /\ i.id \in Nat
                          /\ i.start \in Nat /\ i.finish \in Nat
    BY DEF TypeOK, Placement
  <2>2. now \in Nat /\ arrived \in Nat
    BY DEF TypeOK
  <2>3. ASSUME UNCHANGED <<slots, placed>>, now' \in Nat, now <= now',
               arrived' = arrived + 1
        PROVE  Inv'
    <3>1. IdsUsed'
      BY <2>1, <2>2, <2>3 DEF IdsUsed
    <3>2. BusyUntilBooked'
      BY <2>2, <2>3 DEF BusyUntilBooked, SlotIds
    <3>3. WorkConserving'
      BY <2>3 DEF WorkConserving, PlacedAt, SlotIds
    <3> QED  BY <3>1, <3>2, <3>3
  <2>4. ASSUME NEW j, Booked(j), now' \in Nat, now <= now', arrived' = arrived + 1
        PROVE  Inv'
    <3>1. /\ j.id = arrived /\ j.pool \in Pools /\ j.arrival = now'
          /\ j.start \in Nat /\ j.finish \in Nat /\ j.start < j.finish
      BY <2>4 DEF Booked, Placement
    <3>2. placed' = placed \cup {j}
      BY <2>4, BookEffect
    <3>3. IdsUsed'
      BY <2>1, <2>2, <2>4, <3>1, <3>2 DEF IdsUsed
    <3>4. ASSUME NEW p \in Pools, NEW s \in SlotIds(p), NEW t \in Nat,
                 now' <= t, t < slots'[p][s]
          PROVE  \E i \in placed' : i.pool = p /\ i.slot = s /\ i.start <= t /\ t < i.finish
      <4>1. slots[p][s] \in Nat
        BY <2>4, <3>4, BookEffect
      <4>2. CASE t < slots[p][s]
        <5>1. now <= t
          BY <2>2, <2>4, <3>4
        <5> QED  BY <3>2, <3>4, <4>2, <5>1 DEF BusyUntilBooked
      <4>3. CASE ~(t < slots[p][s])
        <5>1. p = j.pool /\ s = j.slot /\ slots'[p][s] = j.finish
          BY <2>4, <3>4, <4>1, <4>3, BookEffect
        <5>2. j.start <= t
          <6>1. slots[p][s] <= t
            BY <3>4, <4>1, <4>3
          <6>2. CASE j.start = now'
            BY <3>4, <6>2
          <6>3. CASE \A u \in SlotIds(j.pool) : j.start <= slots[j.pool][u]
            BY <3>1, <3>4, <4>1, <5>1, <6>1, <6>3
          <6> QED  BY <2>4, <6>2, <6>3, BookedStart
        <5> QED  BY <3>2, <3>4, <5>1, <5>2
      <4> QED  BY <4>2, <4>3
    <3>5. BusyUntilBooked'
      BY <3>4 DEF BusyUntilBooked, SlotIds
    <3>6. ASSUME NEW l \in placed', NEW s \in SlotIds(l.pool),
                 NEW t \in l.arrival .. l.start - 1
          PROVE  \E i \in PlacedAt(l.pool)' :
                    i.id < l.id /\ i.slot = s /\ i.start <= t /\ t < i.finish
      <4>1. CASE l \in placed
        <5>1. PICK i \in PlacedAt(l.pool) :
                i.id < l.id /\ i.slot = s /\ i.start <= t /\ t < i.finish
          BY <3>6, <4>1 DEF WorkConserving
        <5>2. i \in PlacedAt(l.pool)'
          BY <3>2 DEF PlacedAt
        <5> QED  BY <5>1, <5>2
      <4>2. CASE l = j
        <5>1. t \in Nat /\ now <= t /\ t < j.start
          BY <2>2, <2>4, <3>1, <3>6, <4>2
        <5>2. j.start <= slots[j.pool][s] /\ slots[j.pool][s] \in Nat
          <6>1. j.start # now'
            BY <3>1, <3>6, <4>2
          <6>2. slots[j.pool][s] \in Nat
            BY <2>4, <3>1, <3>6, <4>2, BookEffect
          <6> QED  BY <2>4, <3>6, <4>2, <6>1, <6>2, BookedStart
        <5>3. t < slots[j.pool][s]
          BY <3>1, <5>1, <5>2
        <5>4. PICK i \in placed :
                i.pool = j.pool /\ i.slot = s /\ i.start <= t /\ t < i.finish
          BY <3>1, <3>6, <4>2, <5>1, <5>3 DEF BusyUntilBooked
        <5>5. i.id < j.id
          BY <3>1, <5>4 DEF IdsUsed
        <5> QED  BY <3>2, <4>2, <5>4, <5>5 DEF PlacedAt
      <4> QED  BY <3>2, <4>1, <4>2
    <3>7. WorkConserving'
      BY <3>6 DEF WorkConserving, SlotIds
    <3> QED  BY <3>3, <3>5, <3>7
  <2>5. CASE Next
    BY <2>3, <2>4, <2>5, StepShape
  <2>6. CASE UNCHANGED vars
    BY <2>6 DEF vars, IdsUsed, BusyUntilBooked, WorkConserving, PlacedAt, SlotIds
  <2> QED  BY <2>5, <2>6
<1>3. Inv => WorkConserving
  OBVIOUS
<1> QED  BY <1>1, <1>2, <1>3, TypeCorrect, PTL DEF Spec

-----------------------------------------------------------------------------
(* The cache directory beside the pools. *)

\* A directory that routing reads or writes has finitely many entries, in
\* buckets with one entry per pool.
FiniteDirectory(dir) == ShapedDirectory(dir) /\ IsFiniteSet(Items(dir))

\* Directory `after` is what observe() leaves before its trim for placement j.
Observed(j, prompt, hits, after) ==
    LET routed == Routed(j.key, j.arrival)
    IN  /\ after \in Directory
        /\ \A y \in Keys : y # j.key => after[y] = routed[y]
        /\ after[j.key] \in Capped(Touched(routed[j.key], j.pool, prompt, j.mem,
                                           j.finish, hits))

\* The mirror is left alone or given the bucket of key k.
MirrorWritten(k, after) ==
    \/ redis' = redis
    \/ enabled /\ redis' = [redis EXCEPT ![k] = after[k]]

\* What a step does to the directory and its mirror, beside the bookings.
LEMMA StepDirectories ==
    ASSUME TypeOK, Next
    PROVE  \E k \in Keys, t \in Nat :
              /\ now' = t
              /\ \/ /\ entries' = Routed(k, t) \/ entries' = EvictStale(entries, t)
                    /\ UNCHANGED <<redis, slots, placed>> /\ inflight' = Refreshed(t)
                 \/ \E j : /\ Booked(j) /\ Accepted(j) /\ j.key = k
                           /\ \E prompt \in Nat, hits \in Nat, after \in Directory :
                                /\ Observed(j, prompt, hits, after)
                                /\ entries' = after \/ entries' \in Trimmed(after)
                                /\ MirrorWritten(k, after)
<1>1. PICK k \in Keys, t \in 0 .. MaxTime :
        \/ \E prompt \in Prompts, service \in ServiceTimes :
              Admit(k, prompt, t, service) \/ AdmitRaises(k, prompt, t, service)
        \/ \E prompt \in Prompts : Reject(k, prompt, t)
        \/ RouteRaises(k, t)
  BY DEF Next, Iteration
<1>2. t \in Nat /\ now' = t
  BY <1>1, ControlPlaneAssumption DEF Admit, AdmitRaises, Reject, RouteRaises, Arrive
<1>3. ASSUME NEW prompt \in Prompts, NEW service \in ServiceTimes,
             Admit(k, prompt, t, service) \/ AdmitRaises(k, prompt, t, service)
      PROVE  \E j : /\ Booked(j) /\ Accepted(j) /\ j.key = k
                    /\ \E after \in Directory, hits \in Nat :
                         /\ Observed(j, prompt, hits, after)
                         /\ entries' = after \/ entries' \in Trimmed(after)
                         /\ MirrorWritten(k, after)
  <2>1. PICK scoring \in Scorings(k, prompt, t), p \in Pools :
          LET cand == Candidates(k, prompt, t, scoring)[p]
              j    == NewPlacement(k, p, t, service, cand)
          IN  /\ cand.reason = "none"
              /\ Book(j)
              /\ \E after \in ObservedDirs(k, p, prompt, t, j.finish, cand) :
                    /\ entries' = after \/ entries' \in Trimmed(after)
                    /\ MirrorWritten(k, after)
    <3>1. CASE Admit(k, prompt, t, service)
      BY <3>1 DEF Admit, Choosable, Mirrored, MirrorWritten
    <3>2. CASE AdmitRaises(k, prompt, t, service)
      BY <3>2 DEF AdmitRaises, Choosable, Mirrored, MirrorWritten
    <3> QED  BY <1>3, <3>1, <3>2
  <2> DEFINE cand == Candidates(k, prompt, t, scoring)[p]
  <2>2. /\ cand.mem \in Nat /\ 0 < cand.mem /\ HitIncrement(cand.score) \in Nat
        /\ cand.reason = RejectionReason(p, k, t, cand.mem)
    BY <1>2, CandidateType
  <2>3. RejectionReason(p, k, t, cand.mem) = "none"
    BY <2>1, <2>2
  <2> HIDE DEF cand
  <2> DEFINE j == NewPlacement(k, p, t, service, cand)
  <2>4. Booked(j)
    BY <1>2, <2>1, <2>2, NewPlacementBooked DEF cand
  <2>5. j.pool = p /\ j.arrival = t /\ j.mem = cand.mem /\ j.key = k
    BY DEF NewPlacement
  <2> HIDE DEF j
  <2>6. PICK after \in ObservedDirs(k, p, prompt, t, j.finish, cand) :
          /\ entries' = after \/ entries' \in Trimmed(after)
          /\ MirrorWritten(k, after)
    BY <2>1 DEF cand, j
  <2>7. Accepted(j)
    <3>1. ~(InflightCount(p, t) >= QueueLimit[p]) /\ ~(MemoryHeadroom(p, t) < cand.mem)
      BY <2>3 DEF RejectionReason
    <3> QED  BY <2>2, <2>5, <3>1 DEF Accepted
  <2>8. Observed(j, prompt, HitIncrement(cand.score), after)
    <3>1. j.finish \in Nat
      BY <2>4 DEF Booked, Placement
    <3>2. after \in Directory
      BY <1>2, <2>2, <2>6, <3>1, ObservedDirsType
    <3>3. Routed(k, t) \in Directory
      BY <1>2, ConsultedType DEF Routed, TypeOK
    <3>4. PICK b \in Capped(Touched(Routed(k, t)[k], p, prompt, cand.mem, j.finish,
                                    HitIncrement(cand.score))) :
             after = [Routed(k, t) EXCEPT ![k] = b]
      BY <2>6 DEF ObservedDirs
    <3>5. after[k] = b /\ \A y \in Keys : y # k => after[y] = Routed(k, t)[y]
      BY <3>3, <3>4 DEF Directory
    <3> QED  BY <2>5, <3>2, <3>4, <3>5 DEF Observed
  <2>9. after \in Directory
    BY <2>8 DEF Observed
  <2> QED  BY <2>2, <2>4, <2>5, <2>6, <2>7, <2>8, <2>9
<1>4. ASSUME (\E prompt \in Prompts : Reject(k, prompt, t)) \/ RouteRaises(k, t)
      PROVE  /\ entries' = Routed(k, t) \/ entries' = EvictStale(entries, t)
             /\ UNCHANGED <<redis, slots, placed>> /\ inflight' = Refreshed(t)
  BY <1>4 DEF Reject, RouteRaises
<1>5. \A prompt \in Prompts : prompt \in Nat
  BY ControlPlaneAssumption
<1>6. CASE (\E prompt \in Prompts : Reject(k, prompt, t)) \/ RouteRaises(k, t)
  BY <1>2, <1>4, <1>6
<1>7. ASSUME NEW prompt \in Prompts, NEW service \in ServiceTimes,
             Admit(k, prompt, t, service) \/ AdmitRaises(k, prompt, t, service)
      PROVE  \E j : /\ Booked(j) /\ Accepted(j) /\ j.key = k
                    /\ \E x \in Nat, hits \in Nat, after \in Directory :
                         /\ Observed(j, x, hits, after)
                         /\ entries' = after \/ entries' \in Trimmed(after)
                         /\ MirrorWritten(k, after)
  BY <1>3, <1>5, <1>7
<1> QED  BY <1>1, <1>2, <1>6, <1>7

\* Routing reads every bucket from the directory or, if empty there, from the
\* mirror.
LEMMA RoutedPart ==
    ASSUME TypeOK, NEW k \in Keys, NEW t \in Nat, NEW x \in Keys
    PROVE  Routed(k, t)[x] \subseteq entries[x] \/ Routed(k, t)[x] \subseteq redis[x]
<1> DEFINE first == Consulted(entries, redis, k, t)
<1>1. entries \in Directory /\ redis \in Directory
  BY DEF TypeOK
<1>2. first \in Directory
  BY <1>1, ConsultedType, CacheAssumption
<1>3. first[x] \subseteq entries[x] \/ first[x] \subseteq redis[x]
  BY <1>1, ConsultedPart
<1> HIDE DEF first
<1>4. \/ Consulted(first, redis, k, t)[x] \subseteq first[x]
      \/ Consulted(first, redis, k, t)[x] \subseteq redis[x]
  BY <1>1, <1>2, ConsultedPart
<1>5. Routed(k, t) = first \/ Routed(k, t) = Consulted(first, redis, k, t)
  BY DEF Routed, ConsultedByAll, first
<1> QED  BY <1>3, <1>4, <1>5

\* Routing and eviction keep the directory finite and its buckets well shaped.
LEMMA RoutedFinite ==
    ASSUME TypeOK, FiniteDirectory(entries), FiniteDirectory(redis),
           NEW k \in Keys, NEW t \in Nat
    PROVE  /\ Routed(k, t) \in Directory /\ FiniteDirectory(Routed(k, t))
           /\ EvictStale(entries, t) \in Directory
           /\ FiniteDirectory(EvictStale(entries, t))
<1>1. Routed(k, t) \in Directory /\ EvictStale(entries, t) \in Directory
  BY ConsultedType, CacheAssumption DEF Routed, TypeOK
<1>2. \A x \in Keys : ShapedBucket(entries[x]) /\ ShapedBucket(redis[x])
  BY DEF FiniteDirectory, ShapedDirectory
<1>3. IsFiniteSet(Items(entries)) /\ IsFiniteSet(Items(redis))
  BY DEF FiniteDirectory
<1>4. \A x \in Keys : EvictStale(entries, t)[x] \subseteq entries[x]
  BY DEF EvictStale
<1>5. FiniteDirectory(EvictStale(entries, t))
  <2> DEFINE dir == EvictStale(entries, t)
  <2> HIDE DEF dir
  <2>1. ShapedDirectory(dir)
    BY <1>2, <1>4, ShapedSubset DEF ShapedDirectory, dir
  <2>2. IsFiniteSet(Items(dir))
    BY <1>3, <1>4, ItemsSubset, FS_Subset DEF dir
  <2> QED  BY <2>1, <2>2 DEF FiniteDirectory, dir
<1>6. FiniteDirectory(Routed(k, t))
  <2> DEFINE dir == Routed(k, t)
  <2>1. \A x \in Keys : dir[x] \subseteq entries[x] \/ dir[x] \subseteq redis[x]
    BY RoutedPart
  <2> HIDE DEF dir
  <2>2. ShapedDirectory(dir)
    BY <1>2, <2>1, ShapedSubset DEF ShapedDirectory
  <2>3. Items(dir) \subseteq Items(entries) \cup Items(redis)
    <3> SUFFICES ASSUME NEW i \in Items(dir)
                 PROVE  i \in Items(entries) \cup Items(redis)
      OBVIOUS
    <3>1. i = <<i[1], i[2]>> /\ i[1] \in Keys /\ i[2] \in dir[i[1]]
      BY ItemPair
    <3> QED  BY <2>1, <3>1, ItemOf
  <2>4. IsFiniteSet(Items(dir))
    <3>1. IsFiniteSet(Items(entries) \cup Items(redis))
      BY <1>3, FS_Union
    <3> QED  BY <2>3, <3>1, FS_Subset
  <2> QED  BY <2>2, <2>4 DEF FiniteDirectory, dir
<1> QED  BY <1>1, <1>5, <1>6

\* So does observing a placement.
LEMMA ObservedFinite ==
    ASSUME TypeOK, FiniteDirectory(entries), FiniteDirectory(redis),
           NEW j \in Placement, NEW prompt \in Nat, NEW hits \in Nat,
           NEW after \in Directory, Observed(j, prompt, hits, after)
    PROVE  FiniteDirectory(after)
<1> DEFINE routed == Routed(j.key, j.arrival)
<1>1. /\ j.key \in Keys /\ j.pool \in Pools /\ j.arrival \in Nat
      /\ j.mem \in Nat /\ j.finish \in Nat
  BY DEF Placement
<1>2. routed \in Directory /\ FiniteDirectory(routed)
  BY <1>1, RoutedFinite
<1>3. /\ \A y \in Keys : y # j.key => after[y] = routed[y]
      /\ after[j.key] \in Capped(Touched(routed[j.key], j.pool, prompt, j.mem,
                                         j.finish, hits))
  BY DEF Observed
<1> HIDE DEF routed
<1>4. routed[j.key] \in SUBSET Entry /\ \A x \in Keys : ShapedBucket(routed[x])
  BY <1>1, <1>2 DEF Directory, FiniteDirectory, ShapedDirectory
<1>5. ShapedBucket(after[j.key])
  BY <1>1, <1>3, <1>4, TouchedCappedShape
<1>6. ShapedDirectory(after)
  BY <1>3, <1>4, <1>5 DEF ShapedDirectory
<1>7. IsFiniteSet(Items(after))
  <2>1. IsFiniteSet(Items(routed)) /\ IsFiniteSet(after[j.key])
    BY <1>2, <1>5 DEF FiniteDirectory, ShapedBucket
  <2> QED  BY <1>1, <1>3, <2>1, ItemsFinite
<1> QED  BY <1>6, <1>7 DEF FiniteDirectory

\* A part of a finite directory is one.
LEMMA PartFinite ==
    ASSUME NEW dir, FiniteDirectory(dir), NEW other,
           \A x \in Keys : other[x] \subseteq dir[x]
    PROVE  FiniteDirectory(other)
<1>1. ShapedDirectory(other)
  BY ShapedSubset DEF ShapedDirectory, FiniteDirectory
<1>2. IsFiniteSet(Items(other))
  BY ItemsSubset, FS_Subset DEF FiniteDirectory
<1> QED  BY <1>1, <1>2 DEF FiniteDirectory

\* The directory and its mirror always have finitely many entries, at most
\* one per key and pool, whatever is hydrated, observed or trimmed.
LEMMA DirectoriesFinite == Spec => [](FiniteDirectory(entries) /\ FiniteDirectory(redis))
<1> DEFINE Inv == FiniteDirectory(entries) /\ FiniteDirectory(redis)
<1>1. Init => Inv
  <2>1. \A k \in Keys : EmptyDirectory[k] = {}
    BY DEF EmptyDirectory
  <2>2. ShapedDirectory(EmptyDirectory)
    BY <2>1, FS_EmptySet, CacheAssumption DEF ShapedDirectory, ShapedBucket
  <2>3. Items(EmptyDirectory) = {}
    BY <2>1 DEF Items
  <2> QED  BY <2>2, <2>3, FS_EmptySet DEF Init, FiniteDirectory
<1>2. TypeOK /\ Inv /\ [Next]_vars => Inv'
  <2> SUFFICES ASSUME TypeOK, Inv, [Next]_vars
               PROVE  FiniteDirectory(entries') /\ FiniteDirectory(redis')
    BY DEF FiniteDirectory, ShapedDirectory, ShapedBucket, Items
  <2>1. CASE UNCHANGED vars
    BY <2>1 DEF vars
  <2>2. ASSUME NEW k \in Keys, NEW t \in Nat,
               entries' = Routed(k, t) \/ entries' = EvictStale(entries, t), redis' = redis
        PROVE  FiniteDirectory(entries') /\ FiniteDirectory(redis')
    BY <2>2, RoutedFinite
  <2>3. ASSUME NEW j, Booked(j), NEW prompt \in Nat, NEW hits \in Nat,
               NEW after \in Directory, Observed(j, prompt, hits, after),
               entries' = after \/ entries' \in Trimmed(after),
               MirrorWritten(j.key, after)
        PROVE  FiniteDirectory(entries') /\ FiniteDirectory(redis')
    <3>1. j \in Placement /\ j.key \in Keys
      BY <2>3 DEF Booked, Placement
    <3>2. FiniteDirectory(after)
      BY <2>3, <3>1, ObservedFinite
    <3>3. FiniteDirectory(entries')
      <4>1. \A x \in Keys : entries'[x] \subseteq after[x]
        BY <2>3, TrimmedSubset
      <4> QED  BY <3>2, <4>1, PartFinite
    <3>4. FiniteDirectory(redis')
      <4>1. CASE redis' = redis
        BY <4>1
      <4>2. CASE redis' = [redis EXCEPT ![j.key] = after[j.key]]
        <5>1. redis \in Directory
          BY DEF TypeOK
        <5>2. redis'[j.key] = after[j.key] /\ \A x \in Keys \ {j.key} : redis'[x] = redis[x]
          BY <3>1, <4>2, <5>1 DEF Directory
        <5>3. ShapedBucket(after[j.key]) /\ IsFiniteSet(after[j.key])
          BY <3>1, <3>2 DEF FiniteDirectory, ShapedDirectory, ShapedBucket
        <5>4. ShapedDirectory(redis) /\ IsFiniteSet(Items(redis))
          BY DEF FiniteDirectory
        <5>5. ShapedDirectory(redis')
          BY <5>2, <5>3, <5>4 DEF ShapedDirectory
        <5>6. IsFiniteSet(Items(redis'))
          <6> DEFINE other == redis'
          <6>1. IsFiniteSet(other[j.key]) /\ \A x \in Keys \ {j.key} : other[x] = redis[x]
            BY <5>2, <5>3
          <6> HIDE DEF other
          <6>2. IsFiniteSet(Items(other))
            BY <3>1, <5>4, <6>1, ItemsFinite
          <6> QED  BY <6>2 DEF other
        <5> QED  BY <5>5, <5>6 DEF FiniteDirectory
      <4> QED  BY <2>3, <4>1, <4>2 DEF MirrorWritten
    <3> QED  BY <3>3, <3>4
  <2>4. CASE Next
    BY <2>2, <2>3, <2>4, StepDirectories
  <2> QED  BY <2>1, <2>4
<1> QED  BY <1>1, <1>2, TypeCorrect, PTL DEF Spec

-----------------------------------------------------------------------------
(* The memory of a pool. *)

MemOf == [j \in Placement |-> j.mem]

\* The memory of a finite set of placements is the sum of theirs.
LEMMA TotalMemoryIsSum ==
    ASSUME NEW S \in SUBSET Placement, IsFiniteSet(S)
    PROVE  TotalMemory(S) = SumOf(MemOf, S) /\ TotalMemory(S) \in Nat
<1> DEFINE F(g) == [s \in SUBSET S |->
                      IF s = {} THEN 0 ELSE AnyOf(s).mem + g[s \ {AnyOf(s)}]]
           G == CHOOSE g : g = F(g)
<1>1. TotalMemory(S) = G[S]
  BY DEF TotalMemory, MapThenSumSet, MapThenFoldSet, AnyOf
<1>2. \A j \in S : MemOf[j] = j.mem /\ MemOf[j] \in Nat
  BY DEF MemOf, Placement
<1>3. \A g : IsSum(g, MemOf, S) <=> g = F(g)
  <2>1. \A s \in SUBSET S : s # {} => AnyOf(s) \in S
    BY DEF AnyOf
  <2> QED  BY <1>2, <2>1 DEF IsSum
<1>4. G = F(G)
  <2>1. PICK g : IsSum(g, MemOf, S)
    BY SumExists
  <2>2. g = F(g)
    BY <1>3, <2>1
  <2> HIDE DEF F
  <2> QED  BY <2>2
<1>5. IsSum(G, MemOf, S)
  BY <1>3, <1>4
<1>6. SumOf(MemOf, S) = G[S]
  <2>1. \A g : IsSum(g, MemOf, S) => SumOf(MemOf, S) = g[S]
    BY SumIsOwn
  <2> HIDE DEF G
  <2> QED  BY <1>5, <2>1
<1>7. SumOf(MemOf, S) \in Nat
  BY <1>2, SumType
<1> QED  BY <1>1, <1>6, <1>7

\* One more placement needs its memory on top.
LEMMA TotalMemoryAdd ==
    ASSUME NEW S \in SUBSET Placement, IsFiniteSet(S), NEW j \in Placement, j \notin S
    PROVE  TotalMemory(S \cup {j}) = TotalMemory(S) + j.mem
<1>1. IsFiniteSet(S \cup {j}) /\ S \cup {j} \in SUBSET Placement
  BY FS_AddElement
<1>2. \A i \in Placement : MemOf[i] = i.mem /\ MemOf[i] \in Nat
  BY DEF MemOf, Placement
<1>3. SumOf(MemOf, S \cup {j}) = SumOf(MemOf, S) + j.mem
  BY <1>2, SumAdd
<1> QED  BY <1>1, <1>3, TotalMemoryIsSum

\* Two numbers fit into a memory that has headroom for a third.
LEMMA HeadroomFits ==
    ASSUME NEW m \in Nat, NEW a \in Nat, NEW r \in Nat, NEW need \in Nat, 0 < need,
           ~(Max({0, m - a - r}) < need)
    PROVE  a + r + need <= m
<1> DEFINE x == m - a - r
<1>1. x \in Int
  OBVIOUS
<1>2. Max({0, x}) \in {0, x}
  <2> HIDE DEF x
  <2>1. 0 \in Int
    OBVIOUS
  <2> QED  BY <1>1, <2>1, MaxOfTwo
<1> QED  BY <1>2

\* The requests of pool p among S that are accepted and not completed at t.
OutstandingIn(S, p, t) == {j \in S : j.pool = p /\ j.arrival <= t /\ t < j.finish}

LEMMA OutstandingIsIn ==
    ASSUME NEW p, NEW t
    PROVE  Outstanding(p, t) = OutstandingIn(placed, p, t)
BY DEF Outstanding, PlacedAt, OutstandingIn

\* An accepted placement fits in the memory of its pool beside the work in
\* flight and the entries that are not stale.
LEMMA AcceptedFits ==
    ASSUME TypeOK, FiniteDirectory(entries), NEW j \in Placement, Accepted(j),
           IsFiniteSet(inflight[j.pool])
    PROVE  LET live == EvictStale(entries, j.arrival)
               held == TotalMemory(StillInflight(j.pool, j.arrival))
           IN  /\ live \in Directory /\ FiniteDirectory(live)
               /\ held \in Nat /\ ReservedGb(live, j.pool) \in Nat
               /\ held + ReservedGb(live, j.pool) + j.mem <= MemoryGb[j.pool]
<1> DEFINE live == EvictStale(entries, j.arrival)
           still == StillInflight(j.pool, j.arrival)
<1>1. j.pool \in Pools /\ j.key \in Keys /\ j.arrival \in Nat /\ j.mem \in Nat
  BY DEF Placement
<1>2. live \in Directory
  BY <1>1, ConsultedType, CacheAssumption DEF TypeOK
<1>3. \A x \in Keys : live[x] \subseteq entries[x]
  BY DEF EvictStale
<1>4. still \in SUBSET inflight[j.pool] /\ inflight[j.pool] \in SUBSET Placement
  BY <1>1 DEF StillInflight, TypeOK
<1>5. MemoryGb[j.pool] \in Nat
  BY <1>1, ControlPlaneAssumption
<1>6. ~(Max({0, MemoryGb[j.pool] - TotalMemory(still) - ReservedGb(live, j.pool)}) < j.mem)
  BY DEF Accepted, MemoryHeadroom, ActiveMemory
<1> HIDE DEF live, still
<1>7. FiniteDirectory(live)
  BY <1>3, PartFinite
<1>8. ReservedGb(live, j.pool) \in Nat
  BY <1>2, <1>7, ReservedIsSum DEF FiniteDirectory
<1>9. TotalMemory(still) \in Nat
  BY <1>4, FS_Subset, TotalMemoryIsSum
<1>10. TotalMemory(still) + ReservedGb(live, j.pool) + j.mem <= MemoryGb[j.pool]
  BY <1>1, <1>5, <1>6, <1>8, <1>9, HeadroomFits DEF Accepted
<1> QED  BY <1>2, <1>7, <1>8, <1>9, <1>10 DEF live, still

\* Placements and the work in flight are finitely many.
LEMMA FinitelyPlaced ==
    Spec => [](IsFiniteSet(placed) /\ \A p \in Pools : IsFiniteSet(inflight[p]))
<1> DEFINE Inv == IsFiniteSet(placed) /\ \A p \in Pools : IsFiniteSet(inflight[p])
<1>1. Init => Inv
  BY FS_EmptySet DEF Init
<1>2. TypeOK /\ Inv /\ [Next]_vars => Inv'
  <2> SUFFICES ASSUME TypeOK, Inv, [Next]_vars
               PROVE  Inv'
    OBVIOUS
  <2>1. ASSUME NEW t, NEW p \in Pools
        PROVE  IsFiniteSet(Refreshed(t)[p])
    BY FS_Subset DEF Refreshed, StillInflight
  <2>2. CASE UNCHANGED placed /\ inflight' = Refreshed(now')
    BY <2>1, <2>2
  <2>3. ASSUME NEW j, Booked(j)
        PROVE  Inv'
    <3>1. j.pool \in Pools /\ placed' = placed \cup {j}
      BY <2>3 DEF Booked, Book, Placement
    <3>2. inflight' = [Refreshed(j.arrival) EXCEPT ![j.pool] = @ \cup {j}]
      BY <2>3 DEF Booked, Book
    <3>3. \A p \in Pools : \/ inflight'[p] = Refreshed(j.arrival)[p]
                           \/ inflight'[p] = Refreshed(j.arrival)[p] \cup {j}
      BY <3>1, <3>2 DEF Refreshed
    <3>4. IsFiniteSet(placed') 
      BY <3>1, FS_AddElement
    <3>5. \A p \in Pools : IsFiniteSet(inflight'[p])
      BY <2>1, <3>3, FS_AddElement
    <3> QED  BY <3>4, <3>5
  <2>4. CASE Next
    BY <2>2, <2>3, <2>4, StepShape
  <2>5. CASE UNCHANGED vars
    BY <2>5 DEF vars
  <2> QED  BY <2>4, <2>5
<1> QED  BY <1>1, <1>2, TypeCorrect, PTL DEF Spec

\* Identifiers of placements are those of requests taken so far.
LEMMA IdsAlwaysUsed == Spec => []IdsUsed
<1>1. Init => IdsUsed
  BY DEF Init, IdsUsed
<1>2. TypeOK /\ IdsUsed /\ [Next]_vars => IdsUsed'
  <2> SUFFICES ASSUME TypeOK, IdsUsed, [Next]_vars
               PROVE  IdsUsed'
    OBVIOUS
  <2>1. arrived \in Nat /\ \A i \in placed : i.id \in Nat /\ i.id < arrived
    BY DEF TypeOK, IdsUsed, Placement
  <2>2. CASE Next
    <3>1. arrived' = arrived + 1
      BY <2>2, StepShape
    <3>2. CASE UNCHANGED placed
      BY <2>1, <3>1, <3>2 DEF IdsUsed
    <3>3. ASSUME NEW j, Booked(j)
          PROVE  IdsUsed'
      <4>1. j.id = arrived /\ placed' = placed \cup {j}
        BY <3>3 DEF Booked, Book
      <4> QED  BY <2>1, <3>1, <4>1 DEF IdsUsed
    <3> QED  BY <2>2, <3>2, <3>3, StepShape
  <2>3. CASE UNCHANGED vars
    BY <2>3 DEF vars, IdsUsed
  <2> QED  BY <2>2, <2>3
<1> QED  BY <1>1, <1>2, TypeCorrect, PTL DEF Spec

\* The strengthening of MemoryWithinPool: what refresh() keeps in
\* inflight_memory is the outstanding work, and that work fits.
InflightIsOutstanding ==
    /\ \A j \in placed : j.arrival <= now /\ j.arrival < j.finish
    /\ \A p \in Pools : inflight[p] = Outstanding(p, now)
    /\ \A p \in Pools : TotalMemory(Outstanding(p, now)) <= MemoryGb[p]

\* Refreshing keeps of the outstanding work what has not completed at the new
\* time.
LEMMA OutstandingRefreshed ==
    ASSUME TypeOK, InflightIsOutstanding, now <= now', now' \in Nat, NEW p \in Pools
    PROVE  /\ StillInflight(p, now') = OutstandingIn(placed, p, now')
           /\ StillInflight(p, now') \subseteq Outstanding(p, now)
<1>1. now \in Nat /\ \A i \in placed : i.arrival \in Nat /\ i.finish \in Nat
  BY DEF TypeOK, Placement
<1>2. inflight[p] = OutstandingIn(placed, p, now)
  BY OutstandingIsIn DEF InflightIsOutstanding
<1>3. \A i \in placed : i.arrival <= now
  BY DEF InflightIsOutstanding
<1>4. StillInflight(p, now') = OutstandingIn(placed, p, now')
  BY <1>1, <1>2, <1>3 DEF StillInflight, OutstandingIn
<1>5. StillInflight(p, now') \subseteq Outstanding(p, now)
  BY <1>2, OutstandingIsIn DEF StillInflight
<1> QED  BY <1>4, <1>5

\* A booking adds its placement to the outstanding work of its pool.
LEMMA OutstandingBooked ==
    ASSUME TypeOK, InflightIsOutstanding, now <= now', now' \in Nat, NEW p \in Pools,
           NEW j, Booked(j)
    PROVE  /\ OutstandingIn(placed', p, now') =
                IF p = j.pool THEN OutstandingIn(placed, p, now') \cup {j}
                ELSE OutstandingIn(placed, p, now')
           /\ inflight'[p] = OutstandingIn(placed', p, now')
<1>1. placed' = placed \cup {j} /\ j.pool \in Pools /\ j.start \in Nat /\ j.finish \in Nat
  BY DEF Booked, Book, Placement
<1>2. j.arrival = now' /\ now' <= j.start /\ j.start < j.finish
  BY BookedStart DEF Booked
<1>3. j.arrival <= now' /\ now' < j.finish
  BY <1>1, <1>2
<1>4. OutstandingIn(placed', p, now') =
        IF p = j.pool THEN OutstandingIn(placed, p, now') \cup {j}
        ELSE OutstandingIn(placed, p, now')
  BY <1>1, <1>3 DEF OutstandingIn
<1>5. inflight' = [Refreshed(now') EXCEPT ![j.pool] = @ \cup {j}]
  BY <1>2 DEF Booked, Book
<1>6. inflight'[p] = IF p = j.pool THEN StillInflight(p, now') \cup {j}
                     ELSE StillInflight(p, now')
  BY <1>1, <1>5 DEF Refreshed
<1> QED  BY <1>4, <1>6, OutstandingRefreshed

\* With arrivals in order the strengthening is an invariant.
LEMMA InflightAlwaysOutstanding ==
    ASSUME Ordered
    PROVE  Spec => [](InflightIsOutstanding /\ MemoryWithinPool)
<1> DEFINE Inv == InflightIsOutstanding /\ MemoryWithinPool
           Known == /\ TypeOK /\ IdsUsed /\ FiniteDirectory(entries)
                    /\ IsFiniteSet(placed) /\ \A p \in Pools : IsFiniteSet(inflight[p])
<1>1. Init => Inv
  <2> SUFFICES ASSUME Init PROVE Inv
    OBVIOUS
  <2>1. \A p \in Pools : Outstanding(p, now) = {}
    BY DEF Init, Outstanding, PlacedAt
  <2>2. TotalMemory({}) \in Nat /\ TotalMemory({}) = SumOf(MemOf, {})
    BY TotalMemoryIsSum, FS_EmptySet
  <2>3. TotalMemory({}) = 0
    BY <2>2, SumEmpty
  <2>4. placed = {} /\ \A p \in Pools : inflight[p] = {} /\ 0 <= MemoryGb[p]
    BY ControlPlaneAssumption DEF Init
  <2>5. InflightIsOutstanding
    BY <2>1, <2>3, <2>4 DEF InflightIsOutstanding
  <2> QED  BY <2>4, <2>5 DEF MemoryWithinPool
<1>2. Known /\ Inv /\ [Next]_vars => Inv'
  <2> SUFFICES ASSUME Known, Inv, [Next]_vars
               PROVE  Inv'
    OBVIOUS
  <2>1. /\ now \in Nat /\ placed \in SUBSET Placement
        /\ \A i \in placed : i.pool \in Pools /\ i.arrival \in Nat /\ i.finish \in Nat
    BY DEF TypeOK, Placement
  <2>2. \A p \in Pools : MemoryGb[p] \in Nat
    BY ControlPlaneAssumption
  <2>3. ASSUME NEW S \in SUBSET placed, NEW T \in SUBSET S
        PROVE  TotalMemory(T) <= TotalMemory(S) /\ TotalMemory(T) \in Nat
               /\ TotalMemory(S) \in Nat
    <3>1. IsFiniteSet(S) /\ IsFiniteSet(T) /\ S \in SUBSET Placement /\ T \in SUBSET Placement
      BY <2>1, FS_Subset
    <3>2. \A i \in S : MemOf[i] \in Nat
      BY <2>1 DEF MemOf, Placement
    <3>3. SumOf(MemOf, T) <= SumOf(MemOf, S)
      BY <3>1, <3>2, SumSubset
    <3> QED  BY <3>1, <3>3, TotalMemoryIsSum
  <2>4. ASSUME UNCHANGED placed, inflight' = Refreshed(now'), now' \in Nat, now <= now'
        PROVE  Inv'
    <3>1. \A p \in Pools : inflight'[p] = OutstandingIn(placed, p, now')
      BY <2>4, OutstandingRefreshed, OutstandingBooked DEF Refreshed
    <3>2. \A p \in Pools : TotalMemory(OutstandingIn(placed, p, now')) <= MemoryGb[p]
      <4> SUFFICES ASSUME NEW p \in Pools
                   PROVE  TotalMemory(OutstandingIn(placed, p, now')) <= MemoryGb[p]
        OBVIOUS
      <4>1. /\ OutstandingIn(placed, p, now') \subseteq Outstanding(p, now)
            /\ Outstanding(p, now) \subseteq placed
        BY <2>4, OutstandingRefreshed, OutstandingBooked DEF Outstanding, PlacedAt
      <4>2. TotalMemory(Outstanding(p, now)) <= MemoryGb[p]
        BY DEF InflightIsOutstanding
      <4> HIDE DEF Inv
      <4>3. /\ TotalMemory(OutstandingIn(placed, p, now')) <= TotalMemory(Outstanding(p, now))
            /\ TotalMemory(OutstandingIn(placed, p, now')) \in Nat
            /\ TotalMemory(Outstanding(p, now)) \in Nat
        BY <2>3, <4>1
      <4> QED  BY <2>2, <4>2, <4>3
    <3>3. \A j \in placed' : j.arrival <= now' /\ j.arrival < j.finish
      BY <2>1, <2>4 DEF InflightIsOutstanding
    <3>4. InflightIsOutstanding'
      BY <2>4, <3>1, <3>2, <3>3 DEF InflightIsOutstanding, Outstanding, PlacedAt, OutstandingIn
    <3>5. MemoryWithinPool'
      BY <2>4 DEF MemoryWithinPool, Outstanding, PlacedAt
    <3> QED  BY <3>4, <3>5
  <2>5. ASSUME NEW j, Booked(j), Accepted(j), now' \in Nat, now <= now'
        PROVE  Inv'
    <3>1. /\ j \in Placement /\ j.pool \in Pools /\ j.arrival = now' /\ j.mem \in Nat
          /\ j.id = arrived /\ placed' = placed \cup {j}
          /\ j.start \in Nat /\ j.finish \in Nat
      BY <2>5 DEF Booked, Book, Placement
    <3>2. now' <= j.start /\ j.start < j.finish
      BY <2>5, BookedStart DEF Booked
    <3> DEFINE old == OutstandingIn(placed, j.pool, now')
               new == OutstandingIn(placed', j.pool, now')
    <3>3. old \in SUBSET placed /\ j \notin old
      BY <3>1 DEF OutstandingIn, IdsUsed, TypeOK
    <3>4. TotalMemory(new) <= MemoryGb[j.pool]
      <4>1. old = StillInflight(j.pool, now') /\ new = old \cup {j}
        BY <2>5, <3>1, OutstandingRefreshed, OutstandingBooked
      <4>2. IsFiniteSet(old) /\ old \in SUBSET Placement
        BY <2>1, <3>3, FS_Subset
      <4>3. LET live == EvictStale(entries, j.arrival)
            IN  /\ TotalMemory(old) \in Nat /\ ReservedGb(live, j.pool) \in Nat
                /\ TotalMemory(old) + ReservedGb(live, j.pool) + j.mem <= MemoryGb[j.pool]
        <5> HIDE DEF old
        <5> QED  BY <2>5, <3>1, <4>1, AcceptedFits
      <4> HIDE DEF old, new
      <4>4. TotalMemory(new) = TotalMemory(old) + j.mem
        BY <3>1, <3>3, <4>1, <4>2, TotalMemoryAdd
      <4> QED  BY <2>2, <3>1, <4>3, <4>4
    <3>5. ASSUME NEW p \in Pools
          PROVE  TotalMemory(OutstandingIn(placed', p, now')) <= MemoryGb[p]
      <4>1. CASE p = j.pool
        BY <3>4, <4>1
      <4>2. CASE p # j.pool
        <5>1. OutstandingIn(placed', p, now') = StillInflight(p, now')
          BY <2>5, <4>2, OutstandingRefreshed, OutstandingBooked
        <5>2. /\ StillInflight(p, now') \subseteq Outstanding(p, now)
              /\ Outstanding(p, now) \subseteq placed
          BY <2>5, OutstandingRefreshed, OutstandingBooked DEF Outstanding, PlacedAt
        <5>3. TotalMemory(Outstanding(p, now)) <= MemoryGb[p]
          BY DEF InflightIsOutstanding
        <5> HIDE DEF Inv
        <5>4. /\ TotalMemory(StillInflight(p, now')) <= TotalMemory(Outstanding(p, now))
              /\ TotalMemory(StillInflight(p, now')) \in Nat
              /\ TotalMemory(Outstanding(p, now)) \in Nat
          BY <2>3, <5>2
        <5> QED  BY <2>2, <5>1, <5>3, <5>4
      <4> QED  BY <4>1, <4>2
    <3>6. \A i \in placed' : i.arrival <= now' /\ i.arrival < i.finish
      <4>1. \A i \in placed : i.arrival <= now' /\ i.arrival < i.finish
        BY <2>1, <2>5 DEF InflightIsOutstanding
      <4> QED  BY <2>5, <3>1, <3>2, <4>1
    <3>7. \A p \in Pools : inflight'[p] = OutstandingIn(placed', p, now')
      BY <2>5, OutstandingRefreshed, OutstandingBooked
    <3>8. InflightIsOutstanding'
      BY <3>5, <3>6, <3>7 DEF InflightIsOutstanding, Outstanding, PlacedAt, OutstandingIn
    <3>9. ASSUME NEW i \in placed'
          PROVE  TotalMemory(OutstandingIn(placed', i.pool, i.arrival)) <= MemoryGb[i.pool]
      <4>1. i.pool \in Pools /\ i.arrival \in Nat /\ i.arrival <= now'
        BY <2>1, <2>5, <3>1, <3>6, <3>9
      <4>2. CASE i.arrival = now'
        BY <3>5, <4>1, <4>2
      <4>3. CASE i.arrival # now'
        <5>1. ~(j.arrival <= i.arrival)
          BY <2>5, <3>1, <4>1, <4>3
        <5>2. OutstandingIn(placed', i.pool, i.arrival) = Outstanding(i.pool, i.arrival)
          BY <3>1, <5>1, OutstandingIsIn DEF OutstandingIn
        <5>3. i \in placed
          BY <3>1, <3>9, <4>3
        <5> QED  BY <5>2, <5>3 DEF MemoryWithinPool
      <4> QED  BY <4>2, <4>3
    <3>10. MemoryWithinPool'
      BY <3>9 DEF MemoryWithinPool, Outstanding, PlacedAt, OutstandingIn
    <3> QED  BY <3>8, <3>10
  <2>6. CASE Next
    BY <2>4, <2>5, <2>6, StepShape
  <2>7. CASE UNCHANGED vars
    BY <2>7 DEF vars, InflightIsOutstanding, MemoryWithinPool, Outstanding, PlacedAt
  <2> QED  BY <2>6, <2>7
<1> QED  BY <1>1, <1>2, TypeCorrect, IdsAlwaysUsed, DirectoriesFinite, FinitelyPlaced,
            PTL DEF Spec

\* If requests arrive in order, a pool never accepts a request that does not
\* fit in its memory beside all of its unfinished work, running or waiting.
THEOREM MemoryIsNeverOvercommitted ==
    ASSUME Ordered
    PROVE  Spec => []MemoryWithinPool
BY InflightAlwaysOutstanding, PTL

\* With Redis disabled nothing is hydrated: routing reads live entries only.
LEMMA RoutedUnmirrored ==
    ASSUME TypeOK, redis = EmptyDirectory, NEW k \in Keys, NEW t \in Nat, NEW x \in Keys
    PROVE  Routed(k, t)[x] \subseteq EvictStale(entries, t)[x]
<1> DEFINE first == Consulted(entries, redis, k, t)
<1>1. \A dir \in Directory : Consulted(dir, redis, k, t)[x] = EvictStale(dir, t)[x]
  BY DEF Consulted, HydrateFromRedis, EvictStale, EmptyDirectory, Directory
<1>2. entries \in Directory /\ first \in Directory
  BY ConsultedType, CacheAssumption DEF TypeOK
<1>3. first[x] = EvictStale(entries, t)[x]
  BY <1>1, <1>2
<1> HIDE DEF first
<1>4. Consulted(first, redis, k, t)[x] \subseteq first[x]
  BY <1>1, <1>2 DEF EvictStale
<1>5. Routed(k, t) = first \/ Routed(k, t) = Consulted(first, redis, k, t)
  BY DEF Routed, ConsultedByAll, first
<1> QED  BY <1>3, <1>4, <1>5

\* Without Redis, a step that books nothing adds nothing to the cache, and one
\* that books j adds at most the entry of j to what is live at its pool.
LEMMA UnmirroredStep ==
    ASSUME TypeOK, FiniteDirectory(entries), FiniteDirectory(redis),
           ~enabled, redis = EmptyDirectory, Next
    PROVE  /\ redis' = redis
           /\ \A q \in Pools : ReservedGb(entries', q) \in Nat
           /\ \/ /\ UNCHANGED placed
                 /\ \A q \in Pools : ReservedGb(entries', q) <= ReservedGb(entries, q)
              \/ \E j : /\ Booked(j) /\ Accepted(j)
                        /\ \A q \in Pools :
                             ReservedGb(entries', q) <=
                               IF q = j.pool
                               THEN ReservedGb(EvictStale(entries, j.arrival), q)
                                      + (11 * j.mem) \div 20
                               ELSE ReservedGb(entries, q)
<1>1. entries \in Directory /\ IsFiniteSet(Items(entries))
  BY DEF TypeOK, FiniteDirectory
<1>2. ASSUME NEW t \in Nat, NEW dir \in Directory,
             \A x \in Keys : dir[x] \subseteq EvictStale(entries, t)[x], NEW q \in Pools
      PROVE  /\ IsFiniteSet(Items(dir)) /\ ReservedGb(dir, q) \in Nat
             /\ ReservedGb(dir, q) <= ReservedGb(EvictStale(entries, t), q)
             /\ ReservedGb(dir, q) <= ReservedGb(entries, q)
             /\ ReservedGb(EvictStale(entries, t), q) \in Nat /\ ReservedGb(entries, q) \in Nat
  <2> DEFINE live == EvictStale(entries, t)
  <2>1. live \in Directory /\ \A x \in Keys : live[x] \subseteq entries[x]
    BY <1>1 DEF EvictStale, Directory
  <2> HIDE DEF live
  <2>2. IsFiniteSet(Items(live)) /\ ReservedGb(live, q) <= ReservedGb(entries, q)
    BY <1>1, <2>1, ReservedSubset
  <2>3. IsFiniteSet(Items(dir)) /\ ReservedGb(dir, q) <= ReservedGb(live, q)
    BY <1>2, <2>1, <2>2, ReservedSubset DEF live
  <2>4. ReservedGb(live, q) \in Nat /\ ReservedGb(dir, q) \in Nat /\ ReservedGb(entries, q) \in Nat
    BY <1>1, <1>2, <2>1, <2>2, <2>3, ReservedIsSum
  <2> QED  BY <2>2, <2>3, <2>4 DEF live
<1>3. ASSUME NEW k \in Keys, NEW t \in Nat
      PROVE  /\ Routed(k, t) \in Directory /\ EvictStale(entries, t) \in Directory
             /\ \A x \in Keys : Routed(k, t)[x] \subseteq EvictStale(entries, t)[x]
  BY RoutedUnmirrored, RoutedFinite
<1>4. ASSUME NEW k \in Keys, NEW t \in Nat, NEW q \in Pools,
             entries' = Routed(k, t) \/ entries' = EvictStale(entries, t)
      PROVE  ReservedGb(entries', q) \in Nat /\ ReservedGb(entries', q) <= ReservedGb(entries, q)
  <2>1. entries' \in Directory /\ \A x \in Keys : entries'[x] \subseteq EvictStale(entries, t)[x]
    BY <1>3, <1>4
  <2> QED  BY <1>2, <2>1
<1>5. ASSUME NEW j, Booked(j), NEW prompt \in Nat, NEW hits \in Nat,
             NEW after \in Directory, Observed(j, prompt, hits, after),
             entries' = after \/ entries' \in Trimmed(after), NEW q \in Pools
      PROVE  /\ ReservedGb(entries', q) \in Nat
             /\ ReservedGb(entries', q) <=
                  IF q = j.pool
                  THEN ReservedGb(EvictStale(entries, j.arrival), q) + (11 * j.mem) \div 20
                  ELSE ReservedGb(entries, q)
  <2> DEFINE routed == Routed(j.key, j.arrival)
             live == EvictStale(entries, j.arrival)
             gb == (11 * j.mem) \div 20
  <2>1. /\ j \in Placement /\ j.key \in Keys /\ j.pool \in Pools /\ j.arrival \in Nat
        /\ j.mem \in Nat /\ j.finish \in Nat
    BY <1>5 DEF Booked, Placement
  <2>2. gb \in Nat
    BY <2>1
  <2>3. /\ routed \in Directory /\ IsFiniteSet(Items(routed)) /\ ReservedGb(routed, q) \in Nat
        /\ ReservedGb(routed, q) <= ReservedGb(live, q)
        /\ ReservedGb(routed, q) <= ReservedGb(entries, q)
        /\ ReservedGb(live, q) \in Nat /\ ReservedGb(entries, q) \in Nat
    BY <1>2, <1>3, <2>1
  <2>4. FiniteDirectory(after) /\ IsFiniteSet(Items(after))
    BY <1>5, <2>1, ObservedFinite DEF FiniteDirectory
  <2>5. /\ \A y \in Keys : y # j.key => after[y] = routed[y]
        /\ after[j.key] \subseteq Touched(routed[j.key], j.pool, prompt, j.mem, j.finish, hits)
    BY <1>5, CappedSubset DEF Observed
  <2>6. ShapedBucket(routed[j.key])
    BY <2>1, RoutedFinite DEF FiniteDirectory, ShapedDirectory
  <2> HIDE DEF routed, live
  <2>7. ReservedGb(after, q) <= ReservedGb(routed, q) + (IF q = j.pool THEN gb ELSE 0)
    BY <1>5, <2>1, <2>3, <2>4, <2>5, <2>6, ReservedAfterObserve
  <2>8. ReservedGb(after, q) \in Nat
    BY <2>4, ReservedIsSum
  <2>9. entries' \in Directory /\ \A x \in Keys : entries'[x] \subseteq after[x]
    BY <1>5, TrimmedSubset
  <2>10. ReservedGb(entries', q) <= ReservedGb(after, q) /\ ReservedGb(entries', q) \in Nat
    <3>1. IsFiniteSet(Items(entries')) /\ ReservedGb(entries', q) <= ReservedGb(after, q)
      BY <2>4, <2>9, ReservedSubset
    <3> QED  BY <2>9, <3>1, ReservedIsSum
  <2> HIDE DEF gb
  <2>11. ReservedGb(entries', q) <= IF q = j.pool THEN ReservedGb(live, q) + gb
                                    ELSE ReservedGb(entries, q)
    BY <2>2, <2>3, <2>7, <2>8, <2>10
  <2> QED  BY <2>10, <2>11 DEF live, gb
<1>6. PICK k \in Keys, t \in Nat :
        \/ /\ entries' = Routed(k, t) \/ entries' = EvictStale(entries, t)
           /\ UNCHANGED <<redis, placed>>
        \/ \E j : /\ Booked(j) /\ Accepted(j) /\ j.key = k
                  /\ \E prompt \in Nat, hits \in Nat, after \in Directory :
                       /\ Observed(j, prompt, hits, after)
                       /\ entries' = after \/ entries' \in Trimmed(after)
                       /\ MirrorWritten(k, after)
  BY StepDirectories
<1>7. CASE /\ entries' = Routed(k, t) \/ entries' = EvictStale(entries, t)
           /\ UNCHANGED <<redis, placed>>
  BY <1>4, <1>7
<1>8. CASE \E j : /\ Booked(j) /\ Accepted(j) /\ j.key = k
                  /\ \E prompt \in Nat, hits \in Nat, after \in Directory :
                       /\ Observed(j, prompt, hits, after)
                       /\ entries' = after \/ entries' \in Trimmed(after)
                       /\ MirrorWritten(k, after)
  <2>1. redis' = redis
    BY <1>8 DEF MirrorWritten
  <2> QED  BY <1>5, <1>8, <2>1
<1> QED  BY <1>6, <1>7, <1>8

\* The mirror is used all the time or never.
LEMMA EnabledFixed ==
    ASSUME [Next]_vars
    PROVE  enabled' = enabled
BY DEF Next, Iteration, Admit, AdmitRaises, Reject, RouteRaises, Arrive, vars

\* The empty cache reserves nothing.
LEMMA EmptyReservesNothing == \A p \in Pools : ReservedGb(EmptyDirectory, p) = 0
<1>1. \A k \in Keys : EmptyDirectory[k] = {}
  BY DEF EmptyDirectory
<1>2. EmptyDirectory \in Directory
  BY DEF EmptyDirectory, Directory
<1>3. Items(EmptyDirectory) = {}
  BY <1>1 DEF Items
<1>4. \A p \in Pools : ReservedGb(EmptyDirectory, p) = SumOf(SizeOf, {})
  BY <1>2, <1>3, FS_EmptySet, ReservedIsSum DEF ItemsAt
<1> QED  BY <1>4, SumEmpty

\* A mirror that is not in use stays empty, and then the cache fits.
LEMMA CacheAlwaysWithinPool ==
    Spec => []((~enabled => redis = EmptyDirectory) /\ CacheWithinPool)
<1> DEFINE Inv == (~enabled => redis = EmptyDirectory) /\ CacheWithinPool
           Known == /\ TypeOK /\ FiniteDirectory(entries) /\ FiniteDirectory(redis)
                    /\ \A p \in Pools : IsFiniteSet(inflight[p])
<1>1. Init => Inv
  BY EmptyReservesNothing, ControlPlaneAssumption DEF Init, CacheWithinPool
<1>2. Known /\ Inv /\ [Next]_vars => Inv'
  <2> SUFFICES ASSUME Known, ~enabled, redis = EmptyDirectory, CacheWithinPool, [Next]_vars
               PROVE  redis' = redis /\ \A q \in Pools : ReservedGb(entries', q) <= MemoryGb[q]
    BY EnabledFixed DEF CacheWithinPool
  <2>1. \A q \in Pools : /\ MemoryGb[q] \in Nat /\ ReservedGb(entries, q) \in Nat
                         /\ ReservedGb(entries, q) <= MemoryGb[q]
    BY ReservedIsSum, ControlPlaneAssumption DEF CacheWithinPool, TypeOK, FiniteDirectory
  <2>2. ASSUME NEW j, Booked(j), Accepted(j), NEW q \in Pools,
               ReservedGb(entries', q) \in Nat,
               ReservedGb(entries', q) <=
                 IF q = j.pool
                 THEN ReservedGb(EvictStale(entries, j.arrival), q) + (11 * j.mem) \div 20
                 ELSE ReservedGb(entries, q)
        PROVE  ReservedGb(entries', q) <= MemoryGb[q]
    <3>1. j \in Placement /\ j.pool \in Pools /\ j.mem \in Nat
      BY <2>2 DEF Booked, Placement
    <3>2. (11 * j.mem) \div 20 \in Nat /\ (11 * j.mem) \div 20 <= j.mem
      BY <3>1
    <3>3. LET held == TotalMemory(StillInflight(j.pool, j.arrival))
              live == EvictStale(entries, j.arrival)
          IN  /\ held \in Nat /\ ReservedGb(live, j.pool) \in Nat
              /\ held + ReservedGb(live, j.pool) + j.mem <= MemoryGb[j.pool]
      BY <2>2, <3>1, AcceptedFits
    <3>4. CASE q = j.pool
      BY <2>1, <2>2, <3>1, <3>2, <3>3, <3>4
    <3>5. CASE q # j.pool
      BY <2>1, <2>2, <3>5
    <3> QED  BY <3>4, <3>5
  <2>3. CASE Next
    <3>1. /\ redis' = redis
          /\ \A q \in Pools : ReservedGb(entries', q) \in Nat
          /\ \/ \A q \in Pools : ReservedGb(entries', q) <= ReservedGb(entries, q)
             \/ \E j : /\ Booked(j) /\ Accepted(j)
                       /\ \A q \in Pools :
                            ReservedGb(entries', q) <=
                              IF q = j.pool
                              THEN ReservedGb(EvictStale(entries, j.arrival), q)
                                     + (11 * j.mem) \div 20
                              ELSE ReservedGb(entries, q)
      BY <2>3, UnmirroredStep
    <3>2. CASE \A q \in Pools : ReservedGb(entries', q) <= ReservedGb(entries, q)
      BY <2>1, <3>1, <3>2
    <3> QED  BY <2>2, <3>1, <3>2
  <2>4. CASE UNCHANGED vars
    BY <2>1, <2>4 DEF vars
  <2> QED  BY <2>3, <2>4
<1> QED  BY <1>1, <1>2, TypeCorrect, DirectoriesFinite, FinitelyPlaced, PTL DEF Spec

\* With Redis disabled the cache entries of a pool never reserve more than its
\* memory: the room a request was admitted into also holds the entry it leaves.
THEOREM CacheNeverOutgrowsPool == Spec => []CacheWithinPool
BY CacheAlwaysWithinPool, PTL

\* Work and cache of pool p together exceed its memory by no more than the
\* entry of one placement.
ExceedsByOneEntry(p) ==
    \/ MemoryInUse(p) <= MemoryGb[p]
    \/ \E j \in PlacedAt(p) : MemoryInUse(p) <= MemoryGb[p] + (11 * j.mem) \div 20

\* If requests arrive in order and Redis is disabled, the cache of a pool fits
\* in its memory, and with the unfinished work it exceeds that memory by no
\* more than one entry: the check of the next request sees what observe() left.
THEOREM CacheOvercommitIsBounded ==
    ASSUME Ordered
    PROVE  Spec => []CacheOvercommitBounded
<1> DEFINE Inv == ~enabled => \A p \in Pools : ExceedsByOneEntry(p)
           Known == /\ TypeOK /\ IdsUsed /\ FiniteDirectory(entries) /\ FiniteDirectory(redis)
                    /\ IsFiniteSet(placed) /\ (\A p \in Pools : IsFiniteSet(inflight[p]))
                    /\ InflightIsOutstanding /\ (~enabled => redis = EmptyDirectory)
<1>1. Init => Inv
  <2> SUFFICES ASSUME Init, NEW p \in Pools PROVE MemoryInUse(p) <= MemoryGb[p]
    BY DEF ExceedsByOneEntry
  <2>1. Outstanding(p, now) = {} /\ entries = EmptyDirectory
    BY DEF Init, Outstanding, PlacedAt
  <2>2. TotalMemory({}) = 0
    BY TotalMemoryIsSum, SumEmpty, FS_EmptySet
  <2>3. ReservedGb(entries, p) = 0 /\ MemoryGb[p] \in Nat
    BY <2>1, EmptyReservesNothing, ControlPlaneAssumption
  <2> QED  BY <2>1, <2>2, <2>3 DEF MemoryInUse
<1>2. Known /\ Inv /\ [Next]_vars => Inv'
  <2> SUFFICES ASSUME Known, Inv, [Next]_vars, ~enabled, NEW p \in Pools
               PROVE  ExceedsByOneEntry(p)'
    BY EnabledFixed
  <2>1. CASE UNCHANGED vars
    BY <2>1 DEF vars, ExceedsByOneEntry, MemoryInUse, Outstanding, PlacedAt
  <2> DEFINE old == TotalMemory(Outstanding(p, now))
             kept == TotalMemory(StillInflight(p, now'))
             use == TotalMemory(OutstandingIn(placed', p, now')) + ReservedGb(entries', p)
  <2>2. CASE Next
    <3>1. now' \in Nat /\ now <= now'
      BY <2>2, StepShape
    <3>2. StillInflight(p, now') = OutstandingIn(placed, p, now')
          /\ StillInflight(p, now') \subseteq Outstanding(p, now)
          /\ Outstanding(p, now) \subseteq placed /\ placed \in SUBSET Placement
      BY <3>1, OutstandingRefreshed DEF Outstanding, PlacedAt, TypeOK
    <3>3. kept \in Nat /\ old \in Nat /\ kept <= old
      <4>1. /\ IsFiniteSet(Outstanding(p, now)) /\ IsFiniteSet(StillInflight(p, now'))
            /\ Outstanding(p, now) \in SUBSET Placement
            /\ StillInflight(p, now') \in SUBSET Placement
        BY <3>2, FS_Subset
      <4>2. \A i \in Outstanding(p, now) : MemOf[i] \in Nat
        BY <4>1 DEF MemOf, Placement
      <4>3. SumOf(MemOf, StillInflight(p, now')) <= SumOf(MemOf, Outstanding(p, now))
        BY <3>2, <4>1, <4>2, SumSubset
      <4> QED  BY <4>1, <4>3, TotalMemoryIsSum
    <3>4. MemoryGb[p] \in Nat /\ ReservedGb(entries, p) \in Nat /\ ReservedGb(entries', p) \in Nat
      BY <2>2, UnmirroredStep, ReservedIsSum, ControlPlaneAssumption DEF TypeOK, FiniteDirectory
    <3>5. MemoryInUse(p)' = use
      BY DEF MemoryInUse, Outstanding, PlacedAt, OutstandingIn
    <3> HIDE DEF old, kept, use, Inv
    <3>6. ASSUME placed \subseteq placed', OutstandingIn(placed', p, now') = StillInflight(p, now'),
                 ReservedGb(entries', p) <= ReservedGb(entries, p)
          PROVE  ExceedsByOneEntry(p)'
      <4>1. use = kept + ReservedGb(entries', p)
        BY <3>6 DEF use, kept
      <4>2. MemoryInUse(p) = old + ReservedGb(entries, p)
        BY DEF MemoryInUse, old
      <4>3. use \in Nat /\ MemoryInUse(p) \in Nat /\ use <= MemoryInUse(p)
        BY <3>3, <3>4, <3>6, <4>1, <4>2
      <4>4. ExceedsByOneEntry(p)
        BY DEF Inv
      <4>5. CASE MemoryInUse(p) <= MemoryGb[p]
        <5>1. use <= MemoryGb[p]
          BY <3>4, <4>3, <4>5
        <5> QED  BY <3>5, <5>1 DEF ExceedsByOneEntry
      <4>6. ASSUME NEW j \in PlacedAt(p), MemoryInUse(p) <= MemoryGb[p] + (11 * j.mem) \div 20
            PROVE  ExceedsByOneEntry(p)'
        <5>1. j \in PlacedAt(p)' /\ j.mem \in Nat
          BY <3>2, <3>6, <4>6 DEF PlacedAt, Placement
        <5>2. use <= MemoryGb[p] + (11 * j.mem) \div 20
          BY <3>4, <4>3, <4>6, <5>1
        <5>3. MemoryInUse(p)' <= MemoryGb[p] + (11 * j.mem) \div 20
          BY <3>5, <5>2
        <5> QED  BY <5>1, <5>3 DEF ExceedsByOneEntry
      <4> QED  BY <4>4, <4>5, <4>6 DEF ExceedsByOneEntry
    <3>7. CASE UNCHANGED placed /\ \A q \in Pools : ReservedGb(entries', q) <= ReservedGb(entries, q)
      BY <3>2, <3>6, <3>7
    <3>8. ASSUME NEW j, Booked(j), Accepted(j),
                 ReservedGb(entries', p) <=
                   IF p = j.pool
                   THEN ReservedGb(EvictStale(entries, j.arrival), p) + (11 * j.mem) \div 20
                   ELSE ReservedGb(entries, p)
          PROVE  ExceedsByOneEntry(p)'
      <4>1. /\ j \in Placement /\ j.arrival = now' /\ j.mem \in Nat /\ j.pool \in Pools
            /\ placed' = placed \cup {j} /\ j.id = arrived
        BY <3>8 DEF Booked, Book, Placement
      <4>2. CASE p # j.pool
        BY <3>1, <3>2, <3>6, <3>8, <4>1, <4>2, OutstandingBooked
      <4>3. CASE p = j.pool
        <5> DEFINE live == ReservedGb(EvictStale(entries, j.arrival), p)
                   gb == (11 * j.mem) \div 20
        <5>1. /\ kept \in Nat /\ live \in Nat
              /\ kept + live + j.mem <= MemoryGb[p]
          BY <3>8, <4>1, <4>3, AcceptedFits DEF kept
        <5>2. use = kept + j.mem + ReservedGb(entries', p)
          <6>1. OutstandingIn(placed', p, now') = StillInflight(p, now') \cup {j}
            BY <3>1, <3>2, <3>8, <4>3, OutstandingBooked
          <6>2. IsFiniteSet(StillInflight(p, now')) /\ StillInflight(p, now') \in SUBSET Placement
            BY <3>2, FS_Subset
          <6>3. j \notin StillInflight(p, now')
            BY <3>2, <4>1 DEF IdsUsed, TypeOK
          <6>4. TotalMemory(StillInflight(p, now') \cup {j}) = kept + j.mem
            BY <4>1, <6>2, <6>3, TotalMemoryAdd DEF kept
          <6> QED  BY <6>1, <6>4 DEF use
        <5>3. gb \in Nat
          BY <4>1
        <5> HIDE DEF live, gb
        <5>4. ReservedGb(entries', p) <= live + gb
          BY <3>8, <4>3 DEF live, gb
        <5>5. use <= MemoryGb[p] + gb
          BY <3>4, <4>1, <5>1, <5>2, <5>3, <5>4
        <5>6. j \in PlacedAt(p)'
          BY <4>1, <4>3 DEF PlacedAt
        <5>7. MemoryInUse(p)' <= MemoryGb[p] + (11 * j.mem) \div 20
          BY <3>5, <5>5 DEF gb
        <5> QED  BY <5>6, <5>7 DEF ExceedsByOneEntry
      <4> QED  BY <4>2, <4>3
    <3>9. \/ UNCHANGED placed /\ \A q \in Pools : ReservedGb(entries', q) <= ReservedGb(entries, q)
          \/ \E j : /\ Booked(j) /\ Accepted(j)
                    /\ ReservedGb(entries', p) <=
                         IF p = j.pool
                         THEN ReservedGb(EvictStale(entries, j.arrival), p) + (11 * j.mem) \div 20
                         ELSE ReservedGb(entries, p)
      BY <2>2, UnmirroredStep
    <3> QED  BY <3>7, <3>8, <3>9
  <2> QED  BY <2>1, <2>2
<1>3. Inv /\ CacheWithinPool => CacheOvercommitBounded
  BY DEF CacheOvercommitBounded, ExceedsByOneEntry
<1> QED  BY <1>1, <1>2, <1>3, TypeCorrect, IdsAlwaysUsed, DirectoriesFinite, FinitelyPlaced,
            InflightAlwaysOutstanding, CacheAlwaysWithinPool, PTL DEF Spec

-----------------------------------------------------------------------------
(* Rejections. *)

\* A slot is booked up to the end of a placement made on it.
SlotsTraced ==
    \A p \in Pools : \A s \in SlotIds(p) :
        \/ slots[p][s] = 0
        \/ \E i \in placed : i.pool = p /\ i.slot = s /\ i.finish = slots[p][s]

LEMMA SlotsAlwaysTraced == Spec => []SlotsTraced
<1>1. Init => SlotsTraced
  BY DEF Init, SlotsTraced
<1>2. TypeOK /\ SlotsTraced /\ [Next]_vars => SlotsTraced'
  <2> SUFFICES ASSUME TypeOK, SlotsTraced, [Next]_vars
               PROVE  SlotsTraced'
    OBVIOUS
  <2>1. CASE UNCHANGED <<slots, placed>>
    BY <2>1 DEF SlotsTraced, SlotIds
  <2>2. ASSUME NEW j, Booked(j)
        PROVE  SlotsTraced'
    <3>1. /\ placed' = placed \cup {j} /\ slots'[j.pool][j.slot] = j.finish
          /\ \A p \in Pools : \A s \in SlotIds(p) :
               ~(p = j.pool /\ s = j.slot) => slots'[p][s] = slots[p][s]
      BY <2>2, BookEffect
    <3>2. ASSUME NEW p \in Pools, NEW s \in SlotIds(p)
          PROVE  \/ slots'[p][s] = 0
                 \/ \E i \in placed' : i.pool = p /\ i.slot = s /\ i.finish = slots'[p][s]
      <4>1. CASE p = j.pool /\ s = j.slot
        BY <3>1, <4>1
      <4>2. CASE ~(p = j.pool /\ s = j.slot)
        BY <3>1, <3>2, <4>2 DEF SlotsTraced
      <4> QED  BY <4>1, <4>2
    <3> QED  BY <3>2 DEF SlotsTraced, SlotIds
  <2>3. CASE Next
    BY <2>1, <2>2, <2>3, StepShape
  <2>4. CASE UNCHANGED vars
    BY <2>1, <2>4 DEF vars
  <2> QED  BY <2>3, <2>4
<1> QED  BY <1>1, <1>2, TypeCorrect, PTL DEF Spec

\* Every slot booked beyond t is held by an outstanding request of its own:
\* inflight_count never exceeds the unfinished work.
LEMMA CountedAreOutstanding ==
    ASSUME TypeOK, SlotsTraced, NEW p \in Pools, NEW t \in Nat, IsFiniteSet(placed),
           \A i \in placed : i.arrival <= t
    PROVE  /\ InflightCount(p, t) \in Nat
           /\ Cardinality(OutstandingIn(placed, p, t)) \in Nat
           /\ InflightCount(p, t) <= Cardinality(OutstandingIn(placed, p, t))
<1> DEFINE S == {s \in SlotIds(p) : slots[p][s] > t}
           T == OutstandingIn(placed, p, t)
           Holder(s) == CHOOSE i \in T : i.slot = s
           f == [s \in S |-> Holder(s)]
<1>1. IsFiniteSet(T)
  BY FS_Subset DEF OutstandingIn
<1>2. ASSUME NEW s \in S
      PROVE  Holder(s) \in T /\ Holder(s).slot = s
  <2>1. slots[p][s] > t /\ slots[p][s] \in Nat
    BY <1>2 DEF TypeOK
  <2>2. PICK i \in placed : i.pool = p /\ i.slot = s /\ i.finish = slots[p][s]
    BY <1>2, <2>1 DEF SlotsTraced
  <2>3. i \in T
    BY <2>1, <2>2 DEF OutstandingIn
  <2> QED  BY <2>2, <2>3
<1>3. f \in Injection(S, T)
  <2>1. f \in [S -> T] /\ \A s \in S : f[s].slot = s
    BY <1>2
  <2> HIDE DEF S, T, f
  <2>2. \A a, b \in S : f[a] = f[b] => a = b
    BY <2>1
  <2> QED  BY <2>1, <2>2 DEF Injection, IsInjective
<1> HIDE DEF S, T, f
<1>4. IsFiniteSet(S) /\ Cardinality(S) <= Cardinality(T)
  BY <1>1, <1>3, FS_Injection
<1>5. Cardinality(S) \in Nat /\ Cardinality(T) \in Nat
  BY <1>1, <1>4, FS_CardinalityType
<1> QED  BY <1>4, <1>5 DEF InflightCount, S, T

\* Routing never drops a live entry.
LEMMA RoutedKeepsLive ==
    ASSUME TypeOK, NEW k \in Keys, NEW t \in Nat, NEW x \in Keys
    PROVE  EvictStale(entries, t)[x] \subseteq Routed(k, t)[x]
<1> DEFINE first == Consulted(entries, redis, k, t)
<1>1. \A dir \in Directory : EvictStale(dir, t)[x] \subseteq Consulted(dir, redis, k, t)[x]
  BY DEF Consulted, HydrateFromRedis, EvictStale, Directory
<1>2. entries \in Directory /\ first \in Directory
  BY ConsultedType, CacheAssumption DEF TypeOK
<1>3. EvictStale(entries, t)[x] \subseteq first[x]
  BY <1>1, <1>2
<1> HIDE DEF first
<1>4. EvictStale(entries, t)[x] \subseteq EvictStale(first, t)[x]
  BY <1>3 DEF EvictStale
<1>5. EvictStale(first, t)[x] \subseteq Consulted(first, redis, k, t)[x]
  BY <1>1, <1>2
<1>6. Routed(k, t) = first \/ Routed(k, t) = Consulted(first, redis, k, t)
  BY DEF Routed, ConsultedByAll, first
<1> QED  BY <1>3, <1>4, <1>5, <1>6

\* A request that finds less headroom than it needs does not fit.
LEMMA HeadroomLacks ==
    ASSUME NEW m \in Nat, NEW a \in Nat, NEW r \in Nat, NEW need \in Nat,
           Max({0, m - a - r}) < need
    PROVE  a + r + need > m
<1> DEFINE x == m - a - r
<1>1. x \in Int
  OBVIOUS
<1>2. x <= Max({0, x}) /\ Max({0, x}) \in {0, x}
  <2> HIDE DEF x
  <2>1. 0 \in Int
    OBVIOUS
  <2> QED  BY <1>1, <2>1, MaxOfTwo
<1> QED  BY <1>2

\* A rejected request has been refused by every pool.
LEMMA RejectedEverywhere ==
    ASSUME TypeOK, NEW k \in Keys, NEW prompt \in Prompts, NEW t \in Nat,
           Reject(k, prompt, t), NEW p \in Pools
    PROVE  \E mem \in Nat : /\ mem <= RequestMemory(k, prompt, GenTokens, 0)
                            /\ RejectionReason(p, k, t, mem) # "none"
<1>1. PICK scoring \in Scorings(k, prompt, t) :
        \E q \in Choosable(Candidates(k, prompt, t, scoring)) :
            Candidates(k, prompt, t, scoring)[q].reason # "none"
  BY DEF Reject
<1> DEFINE cands == Candidates(k, prompt, t, scoring)
<1>2. cands[p].reason # "none"
  <2> HIDE DEF cands
  <2> QED  BY <1>1 DEF Choosable, cands
<1>3. /\ cands[p].mem \in Nat
      /\ cands[p].mem <= RequestMemory(k, prompt, GenTokens, 0)
      /\ cands[p].reason = RejectionReason(p, k, t, cands[p].mem)
  BY CandidateType
<1> HIDE DEF cands
<1> QED  BY <1>2, <1>3

\* If requests arrive in order, a request is rejected only where unfinished
\* work and live entries leave no room for it: neither finished work nor
\* stale entries ever count against a request.
THEOREM RejectionsAreJustified ==
    ASSUME Ordered
    PROVE  Spec => NoSpuriousReject
<1> DEFINE Known == /\ TypeOK /\ FiniteDirectory(entries) /\ FiniteDirectory(redis)
                    /\ IsFiniteSet(placed) /\ \A p \in Pools : IsFiniteSet(inflight[p])
                    /\ InflightIsOutstanding /\ SlotsTraced
           Justified(r, p) ==
               \/ Unavailable(p, r.arrival)
               \/ r.key \notin Supports[p]
               \/ Cardinality(Outstanding(p, now)') >= QueueLimit[p]
               \/ TotalMemory(Outstanding(p, now)') + ReservedGb(entries', p)
                    + RequestMemory(r.key, r.prompt, GenTokens, 0) > MemoryGb[p]
<1>1. Known /\ [Next]_vars => [\A r \in rejected' \ rejected, p \in Pools : Justified(r, p)]_vars
  <2> SUFFICES ASSUME Known, Next, NEW r \in rejected' \ rejected, NEW p \in Pools
               PROVE  Justified(r, p)
    OBVIOUS
  <2>1. PICK k \in Keys, t \in 0 .. MaxTime, prompt \in Prompts : Reject(k, prompt, t)
    BY DEF Next, Iteration, Admit, AdmitRaises, RouteRaises
  <2>2. /\ t \in Nat /\ now' = t /\ now <= t /\ now \in Nat
        /\ UNCHANGED placed /\ entries' = Routed(k, t)
    BY <2>1, ControlPlaneAssumption DEF Reject, Arrive, TypeOK
  <2>3. r.key = k /\ r.prompt = prompt /\ r.arrival = t
    BY <2>1 DEF Reject
  <2>4. PICK mem \in Nat : /\ mem <= RequestMemory(k, prompt, GenTokens, 0)
                           /\ RejectionReason(p, k, t, mem) # "none"
    BY <2>1, <2>2, RejectedEverywhere
  <2> DEFINE out == OutstandingIn(placed, p, t)
             live == EvictStale(entries, t)
  <2>5. Outstanding(p, now)' = out
    BY <2>2 DEF Outstanding, PlacedAt, OutstandingIn
  <2>6. out = StillInflight(p, t) /\ IsFiniteSet(out) /\ out \in SUBSET Placement
    <3>1. out = StillInflight(p, t)
      BY <2>2, OutstandingRefreshed
    <3> QED  BY <3>1, FS_Subset DEF OutstandingIn, TypeOK
  <2>7. CASE InflightCount(p, t) >= QueueLimit[p]
    <3>1. \A i \in placed : i.arrival <= t
      BY <2>2 DEF InflightIsOutstanding, TypeOK, Placement
    <3>2. /\ InflightCount(p, t) \in Nat /\ Cardinality(out) \in Nat
          /\ InflightCount(p, t) <= Cardinality(out)
      BY <2>2, <3>1, CountedAreOutstanding
    <3>3. QueueLimit[p] \in Nat
      BY ControlPlaneAssumption
    <3>4. Cardinality(out) >= QueueLimit[p]
      <4> HIDE DEF out
      <4> QED  BY <2>7, <3>2, <3>3
    <3> QED  BY <2>5, <3>4
  <2>8. CASE MemoryHeadroom(p, t) < mem
    <3> DEFINE need == RequestMemory(k, prompt, GenTokens, 0)
    <3>1. need \in Nat
      BY RequestMemoryType, ControlPlaneAssumption
    <3>2. TotalMemory(out) \in Nat
      <4> HIDE DEF out
      <4> QED  BY <2>6, TotalMemoryIsSum
    <3>3. live \in Directory /\ FiniteDirectory(live)
      BY <2>2, RoutedFinite
    <3>4. Routed(k, t) \in Directory /\ FiniteDirectory(Routed(k, t))
      BY <2>2, RoutedFinite
    <3>5. \A x \in Keys : live[x] \subseteq Routed(k, t)[x]
      BY <2>2, RoutedKeepsLive
    <3>6. Max({0, MemoryGb[p] - TotalMemory(out) - ReservedGb(live, p)}) < mem
      BY <2>6, <2>8 DEF MemoryHeadroom, ActiveMemory
    <3>7. MemoryGb[p] \in Nat
      BY ControlPlaneAssumption
    <3> HIDE DEF live, out, need
    <3>8. /\ ReservedGb(live, p) \in Nat /\ ReservedGb(Routed(k, t), p) \in Nat
          /\ ReservedGb(live, p) <= ReservedGb(Routed(k, t), p)
      BY <3>3, <3>4, <3>5, ReservedIsSum, ReservedSubset DEF FiniteDirectory
    <3>9. TotalMemory(out) + ReservedGb(live, p) + mem > MemoryGb[p]
      BY <3>2, <3>6, <3>7, <3>8, HeadroomLacks
    <3>10. TotalMemory(out) + ReservedGb(Routed(k, t), p) + need > MemoryGb[p]
      BY <2>4, <3>1, <3>2, <3>7, <3>8, <3>9 DEF need
    <3> QED  BY <2>2, <2>3, <2>5, <3>10 DEF need
  <2> QED  BY <2>3, <2>4, <2>7, <2>8 DEF RejectionReason
<1> QED  BY <1>1, TypeCorrect, DirectoriesFinite, FinitelyPlaced, InflightAlwaysOutstanding,
            SlotsAlwaysTraced, PTL DEF Spec, NoSpuriousReject

-----------------------------------------------------------------------------
(* The queue limit. *)

\* A pool that admits no more requests than it has slots.
NeverQueues(p) == QueueLimit[p] <= Slots[p]

\* At such a pool every request starts when it arrives.
StartsAtOnce == \A j \in placed : NeverQueues(j.pool) => j.start = j.arrival

\* No more requests are placed than have been taken from the workload.
LEMMA PlacedAreFew ==
    Spec => [](arrived <= MaxRequests /\ IsFiniteSet(placed) /\ Cardinality(placed) <= arrived)
<1> DEFINE Inv == arrived <= MaxRequests /\ IsFiniteSet(placed) /\ Cardinality(placed) <= arrived
<1>1. Init => Inv
  BY FS_EmptySet, ControlPlaneAssumption DEF Init
<1>2. TypeOK /\ Inv /\ [Next]_vars => Inv'
  <2> SUFFICES ASSUME TypeOK, Inv, [Next]_vars
               PROVE  Inv'
    OBVIOUS
  <2>1. arrived \in Nat /\ MaxRequests \in Nat /\ Cardinality(placed) \in Nat
    BY FS_CardinalityType, ControlPlaneAssumption DEF TypeOK
  <2>2. CASE Next
    <3>1. arrived < MaxRequests /\ arrived' = arrived + 1
      BY <2>2 DEF Next, Iteration, Admit, AdmitRaises, Reject, RouteRaises, Arrive
    <3>2. UNCHANGED placed \/ \E j : placed' = placed \cup {j}
      BY <2>2, StepShape DEF Booked, Book
    <3>3. CASE UNCHANGED placed
      BY <2>1, <3>1, <3>3
    <3>4. ASSUME NEW j, placed' = placed \cup {j}
          PROVE  Inv'
      <4>1. /\ IsFiniteSet(placed \cup {j})
            /\ Cardinality(placed \cup {j}) = Cardinality(placed)
                 \/ Cardinality(placed \cup {j}) = Cardinality(placed) + 1
        BY FS_AddElement
      <4> QED  BY <2>1, <3>1, <3>4, <4>1
    <3> QED  BY <3>2, <3>3, <3>4
  <2>3. CASE UNCHANGED vars
    BY <2>3 DEF vars
  <2> QED  BY <2>2, <2>3
<1> QED  BY <1>1, <1>2, TypeCorrect, PTL DEF Spec

\* A pool whose slots are not all booked beyond t starts a request at t.
LEMMA FreeSlotStartsNow ==
    ASSUME TypeOK, NEW p \in Pools, NEW t \in Nat, ~(InflightCount(p, t) >= Slots[p])
    PROVE  StartTs(p, t) = t
<1> DEFINE S == {s \in SlotIds(p) : slots[p][s] > t}
<1>1. Slots[p] \in Nat /\ 1 <= Slots[p]
  BY ControlPlaneAssumption
<1>2. IsFiniteSet(SlotIds(p)) /\ Cardinality(SlotIds(p)) = Slots[p]
  <2>1. /\ IsFiniteSet(1 .. Slots[p])
        /\ Cardinality(1 .. Slots[p]) = IF 1 > Slots[p] THEN 0 ELSE Slots[p] - 1 + 1
    <3>1. 1 \in Int /\ Slots[p] \in Int
      BY <1>1
    <3> QED  BY <3>1, FS_Interval
  <2> QED  BY <1>1, <2>1 DEF SlotIds
<1>3. S # SlotIds(p)
  <2> SUFFICES ASSUME S = SlotIds(p) PROVE FALSE
    OBVIOUS
  <2>1. InflightCount(p, t) = Slots[p]
    BY <1>2 DEF InflightCount
  <2> QED  BY <1>1, <2>1
<1>4. PICK s \in SlotIds(p) : ~(slots[p][s] > t)
  BY <1>3
<1>5. slots[p][s] \in Nat /\ slots[p][EarliestSlot(p)] \in Nat
  BY EarliestSlotIsLeast DEF TypeOK
<1>6. slots[p][EarliestSlot(p)] <= slots[p][s]
  BY EarliestSlotIsLeast
<1> QED  BY <1>4, <1>5, <1>6, StartTsBounds

\* Where every request starts at once, the outstanding requests hold a slot
\* each, and inflight_count counts them.
LEMMA OutstandingAreCounted ==
    ASSUME TypeOK, SlotsCoverPlacements, SlotExclusive, StartsAtOnce, NEW p \in Pools,
           NeverQueues(p), NEW t \in Nat
    PROVE  /\ IsFiniteSet(OutstandingIn(placed, p, t)) /\ InflightCount(p, t) \in Nat
           /\ Cardinality(OutstandingIn(placed, p, t)) <= InflightCount(p, t)
<1> DEFINE S == OutstandingIn(placed, p, t)
           T == {s \in SlotIds(p) : slots[p][s] > t}
           f == [i \in S |-> i.slot]
<1>1. IsFiniteSet(T) /\ Cardinality(T) \in Nat
  <2>a. Slots[p] \in Int
    BY ControlPlaneAssumption
  <2>1. IsFiniteSet(SlotIds(p))
    BY <2>a, FS_Interval DEF SlotIds
  <2> QED  BY <2>1, FS_Subset, FS_CardinalityType
<1>2. \A i \in S : /\ i \in placed /\ i.pool = p /\ i.start <= t /\ t < i.finish
                   /\ i.start \in Nat /\ i.finish \in Nat
  BY DEF OutstandingIn, StartsAtOnce, TypeOK, Placement
<1>3. ASSUME NEW i \in S PROVE i.slot \in T
  <2>1. i.slot \in SlotIds(p) /\ i.finish <= slots[p][i.slot] /\ slots[p][i.slot] \in Nat
    BY <1>2, <1>3 DEF SlotsCoverPlacements, TypeOK
  <2> QED  BY <1>2, <1>3, <2>1
<1>4. ASSUME NEW i \in S, NEW l \in S, i.slot = l.slot PROVE i = l
  <2> SUFFICES ASSUME i # l PROVE FALSE
    OBVIOUS
  <2>1. i.finish <= l.start \/ l.finish <= i.start
    BY <1>2, <1>4 DEF SlotExclusive
  <2> QED  BY <1>2, <1>4, <2>1
<1>5. f \in Injection(S, T)
  <2> HIDE DEF S, T
  <2> QED  BY <1>3, <1>4 DEF Injection, IsInjective
<1> HIDE DEF S, T, f
<1>6. IsFiniteSet(S) /\ Cardinality(S) <= Cardinality(T)
  BY <1>1, <1>5, FS_Injection
<1> QED  BY <1>1, <1>6 DEF InflightCount, S, T

\* If requests arrive in order, a pool keeps to its queue limit when the limit
\* is at most its number of slots, or is one the workload cannot reach: between
\* the two inflight_count misses the requests that wait.
THEOREM QueueLimitIsKept ==
    ASSUME Ordered,
           \A p \in Pools : QueueLimit[p] <= Slots[p] \/ MaxRequests <= QueueLimit[p]
    PROVE  Spec => []OutstandingWithinLimit
<1> DEFINE Inv == /\ StartsAtOnce
                  /\ \A p \in Pools : NeverQueues(p) =>
                        Cardinality(Outstanding(p, now)) <= QueueLimit[p]
           Known == /\ TypeOK /\ SlotsCoverPlacements /\ SlotExclusive /\ IsFiniteSet(placed)
                    /\ InflightIsOutstanding /\ IdsUsed
<1>1. Init => Inv
  <2> SUFFICES ASSUME Init PROVE Inv
    OBVIOUS
  <2>1. placed = {} /\ \A p \in Pools : Outstanding(p, now) = {} /\ 0 <= QueueLimit[p]
    BY ControlPlaneAssumption DEF Init, Outstanding, PlacedAt
  <2>2. Cardinality({}) = 0
    BY FS_EmptySet
  <2> QED  BY <2>1, <2>2 DEF StartsAtOnce
<1>2. Known /\ Inv /\ [Next]_vars => Inv'
  <2> SUFFICES ASSUME Known, Inv, [Next]_vars
               PROVE  Inv'
    OBVIOUS
  <2>1. \A p \in Pools : QueueLimit[p] \in Nat /\ Slots[p] \in Nat
    BY ControlPlaneAssumption
  <2>2. ASSUME NEW p \in Pools, NeverQueues(p), now' \in Nat, now <= now'
        PROVE  /\ IsFiniteSet(OutstandingIn(placed, p, now'))
               /\ Cardinality(OutstandingIn(placed, p, now')) \in Nat
               /\ Cardinality(OutstandingIn(placed, p, now')) <= QueueLimit[p]
    <3>1. OutstandingIn(placed, p, now') \subseteq Outstanding(p, now)
      BY <2>2, OutstandingRefreshed
    <3>2. IsFiniteSet(Outstanding(p, now))
      BY FS_Subset DEF Outstanding, PlacedAt
    <3>3. /\ IsFiniteSet(OutstandingIn(placed, p, now'))
          /\ Cardinality(OutstandingIn(placed, p, now')) <= Cardinality(Outstanding(p, now))
      BY <3>1, <3>2, FS_Subset
    <3>4. /\ Cardinality(OutstandingIn(placed, p, now')) \in Nat
          /\ Cardinality(Outstanding(p, now)) \in Nat
      BY <3>2, <3>3, FS_CardinalityType
    <3>5. Cardinality(Outstanding(p, now)) <= QueueLimit[p]
      BY <2>2
    <3> HIDE DEF Inv
    <3> QED  BY <2>1, <3>3, <3>4, <3>5
  <2>3. ASSUME UNCHANGED <<slots, placed>>, now' \in Nat, now <= now'
        PROVE  Inv'
    <3>1. \A p \in Pools : NeverQueues(p) => Cardinality(OutstandingIn(placed', p, now')) <= QueueLimit[p]
      BY <2>2, <2>3
    <3>2. StartsAtOnce'
      BY <2>3 DEF StartsAtOnce, NeverQueues
    <3> QED  BY <3>1, <3>2 DEF Outstanding, PlacedAt, OutstandingIn, NeverQueues
  <2>4. ASSUME NEW j, Booked(j), Accepted(j), now' \in Nat, now <= now'
        PROVE  Inv'
    <3>1. /\ j \in Placement /\ j.pool \in Pools /\ j.arrival = now'
          /\ j.start = StartTs(j.pool, now') /\ placed' = placed \cup {j}
      BY <2>4 DEF Booked, Book, Placement
    <3>2. ASSUME NeverQueues(j.pool)
          PROVE  j.start = now'
      <4>1. ~(InflightCount(j.pool, now') >= QueueLimit[j.pool])
        BY <2>4, <3>1 DEF Accepted
      <4>2. /\ InflightCount(j.pool, now') \in Nat
        BY <2>4, <3>1, <3>2, OutstandingAreCounted
      <4>3. ~(InflightCount(j.pool, now') >= Slots[j.pool])
        BY <2>1, <3>1, <3>2, <4>1, <4>2 DEF NeverQueues
      <4> QED  BY <2>4, <3>1, <4>3, FreeSlotStartsNow
    <3>3. StartsAtOnce'
      BY <3>1, <3>2 DEF StartsAtOnce, NeverQueues
    <3>4. ASSUME NEW p \in Pools, NeverQueues(p)
          PROVE  Cardinality(OutstandingIn(placed', p, now')) <= QueueLimit[p]
      <4>1. CASE p # j.pool
        BY <2>2, <2>4, <3>4, <4>1, OutstandingBooked
      <4>2. CASE p = j.pool
        <5> DEFINE old == OutstandingIn(placed, p, now')
        <5>1. OutstandingIn(placed', p, now') = old \cup {j}
          BY <2>4, <3>4, <4>2, OutstandingBooked
        <5>2. /\ IsFiniteSet(old) /\ Cardinality(old) \in Nat /\ InflightCount(p, now') \in Nat
              /\ Cardinality(old) <= InflightCount(p, now')
          BY <2>2, <2>4, <3>4, OutstandingAreCounted
        <5>3. ~(InflightCount(p, now') >= QueueLimit[p])
          BY <2>4, <3>1, <4>2 DEF Accepted
        <5> HIDE DEF old
        <5>4. \/ Cardinality(old \cup {j}) = Cardinality(old)
              \/ Cardinality(old \cup {j}) = Cardinality(old) + 1
          BY <5>2, FS_AddElement
        <5> QED  BY <2>1, <5>1, <5>2, <5>3, <5>4
      <4> QED  BY <4>1, <4>2
    <3> QED  BY <3>3, <3>4 DEF Outstanding, PlacedAt, OutstandingIn, NeverQueues
  <2>5. CASE Next
    BY <2>3, <2>4, <2>5, StepShape
  <2>6. CASE UNCHANGED vars
    BY <2>6 DEF vars, StartsAtOnce, Outstanding, PlacedAt,
                NeverQueues
  <2> QED  BY <2>5, <2>6
<1> DEFINE Few == arrived <= MaxRequests /\ IsFiniteSet(placed) /\ Cardinality(placed) <= arrived
<1>3. TypeOK /\ Inv /\ Few => OutstandingWithinLimit
  <2> SUFFICES ASSUME TypeOK, Inv, Few, NEW p \in Pools
               PROVE  Cardinality(Outstanding(p, now)) <= QueueLimit[p]
    BY DEF OutstandingWithinLimit
  <2>1. CASE QueueLimit[p] <= Slots[p]
    BY <2>1 DEF NeverQueues
  <2>2. CASE MaxRequests <= QueueLimit[p]
    <3>1. Outstanding(p, now) \in SUBSET placed
      BY DEF Outstanding, PlacedAt
    <3>2. /\ IsFiniteSet(Outstanding(p, now))
          /\ Cardinality(Outstanding(p, now)) <= Cardinality(placed)
      BY <3>1, FS_Subset
    <3>3. /\ Cardinality(Outstanding(p, now)) \in Nat /\ Cardinality(placed) \in Nat
          /\ arrived \in Nat /\ MaxRequests \in Nat /\ QueueLimit[p] \in Nat
      BY <3>2, FS_CardinalityType, ControlPlaneAssumption DEF TypeOK
    <3> QED  BY <2>2, <3>2, <3>3
  <2> QED  BY <2>1, <2>2
<1> QED  BY <1>1, <1>2, <1>3, TypeCorrect, BookingsAlwaysDisjoint, FinitelyPlaced, IdsAlwaysUsed,
            InflightAlwaysOutstanding, PlacedAreFew, PTL DEF Spec

-----------------------------------------------------------------------------
(* The accounts of tenants and pools. *)

\* The parts of a step that the accounts depend on, one case per action.
LEMMA StepAccounts ==
    ASSUME TypeOK, Next
    PROVE  /\ ~raised /\ arrived' = arrived + 1
           /\ \E k \in Keys :
                \/ \E j : /\ Booked(j) /\ j.key = k /\ stats' = Accounted(j)
                          /\ completed_count' = [completed_count EXCEPT ![j.pool] = @ + 1]
                          /\ UNCHANGED <<rejected, raised>>
                \/ \E j : /\ Booked(j) /\ stats' = Submitted(k) /\ raised' = TRUE
                          /\ UNCHANGED <<completed_count, rejected>>
                \/ /\ stats' = Submitted(k)
                   /\ \E r \in Rejection : r.id = arrived /\ rejected' = rejected \cup {r}
                   /\ UNCHANGED <<placed, decision_count, completed_count, raised>>
                \/ /\ stats' = Submitted(k) /\ raised' = TRUE
                   /\ UNCHANGED <<placed, decision_count, completed_count, rejected>>
<1>1. PICK k \in Keys, t \in 0 .. MaxTime :
        \/ \E prompt \in Prompts, service \in ServiceTimes : Admit(k, prompt, t, service)
        \/ \E prompt \in Prompts, service \in ServiceTimes : AdmitRaises(k, prompt, t, service)
        \/ \E prompt \in Prompts : Reject(k, prompt, t)
        \/ RouteRaises(k, t)
  BY DEF Next, Iteration
<1>2. t \in Nat /\ now' = t /\ ~raised /\ arrived' = arrived + 1
  BY <1>1, ControlPlaneAssumption DEF Admit, AdmitRaises, Reject, RouteRaises, Arrive
<1>3. ASSUME NEW prompt \in Prompts, NEW service \in ServiceTimes, Admit(k, prompt, t, service)
      PROVE  \E j : /\ Booked(j) /\ j.key = k /\ stats' = Accounted(j)
                    /\ completed_count' = [completed_count EXCEPT ![j.pool] = @ + 1]
                    /\ UNCHANGED <<rejected, raised>>
  <2>1. PICK scoring \in Scorings(k, prompt, t), p \in Pools :
          LET cand == Candidates(k, prompt, t, scoring)[p]
              j    == NewPlacement(k, p, t, service, cand)
          IN  /\ Book(j) /\ stats' = Accounted(j)
              /\ completed_count' = [completed_count EXCEPT ![p] = @ + 1]
    BY <1>3 DEF Admit, Choosable
  <2> DEFINE cand == Candidates(k, prompt, t, scoring)[p]
             j    == NewPlacement(k, p, t, service, cand)
  <2>2. cand.mem \in Nat
    BY <1>2, CandidateType
  <2> HIDE DEF cand
  <2>3. Booked(j)
    BY <1>2, <2>1, <2>2, NewPlacementBooked DEF cand
  <2>4. j.pool = p /\ j.key = k
    BY DEF NewPlacement
  <2> HIDE DEF j
  <2>5. stats' = Accounted(j) /\ completed_count' = [completed_count EXCEPT ![p] = @ + 1]
    BY <2>1 DEF cand, j
  <2>6. UNCHANGED <<rejected, raised>>
    BY <1>3 DEF Admit
  <2> QED  BY <2>3, <2>4, <2>5, <2>6
<1>4. ASSUME NEW prompt \in Prompts, NEW service \in ServiceTimes,
             AdmitRaises(k, prompt, t, service)
      PROVE  \E j : /\ Booked(j) /\ stats' = Submitted(k) /\ raised' = TRUE
                    /\ UNCHANGED <<completed_count, rejected>>
  <2>1. PICK scoring \in Scorings(k, prompt, t), p \in Pools :
          Book(NewPlacement(k, p, t, service, Candidates(k, prompt, t, scoring)[p]))
    BY <1>4 DEF AdmitRaises, Choosable
  <2> DEFINE cand == Candidates(k, prompt, t, scoring)[p]
  <2>2. cand.mem \in Nat
    BY <1>2, CandidateType
  <2> HIDE DEF cand
  <2>3. Booked(NewPlacement(k, p, t, service, cand))
    BY <1>2, <2>1, <2>2, NewPlacementBooked DEF cand
  <2>4. stats' = Submitted(k) /\ raised' = TRUE /\ UNCHANGED <<completed_count, rejected>>
    BY <1>4 DEF AdmitRaises
  <2> QED  BY <2>3, <2>4
<1>5. ASSUME NEW prompt \in Prompts, Reject(k, prompt, t)
      PROVE  /\ stats' = Submitted(k)
             /\ \E r \in Rejection : r.id = arrived /\ rejected' = rejected \cup {r}
             /\ UNCHANGED <<placed, decision_count, completed_count, raised>>
  <2>1. PICK reason :
          rejected' = rejected \cup {[id |-> arrived, key |-> k, prompt |-> prompt,
                                      arrival |-> t, reason |-> reason]}
    BY <1>5 DEF Reject
  <2> DEFINE r == [id |-> arrived, key |-> k, prompt |-> prompt, arrival |-> t,
                   reason |-> reason]
  <2>2. rejected' \subseteq Rejection
    BY <1>2, <1>5, OtherPreservesType DEF TypeOK
  <2>3. r \in Rejection /\ r.id = arrived /\ rejected' = rejected \cup {r}
    BY <2>1, <2>2
  <2> HIDE DEF r
  <2> QED  BY <1>5, <2>3 DEF Reject
<1>6. RouteRaises(k, t) =>
        /\ stats' = Submitted(k) /\ raised' = TRUE
        /\ UNCHANGED <<placed, decision_count, completed_count, rejected>>
  BY DEF RouteRaises
<1> QED  BY <1>1, <1>2, <1>3, <1>4, <1>5, <1>6

LatencyOf == [j \in Placement |-> j.finish - j.arrival]

\* The latency of a finite set of placements is the sum of theirs.
LEMMA TotalLatencyIsSum ==
    ASSUME NEW S \in SUBSET Placement, IsFiniteSet(S)
    PROVE  TotalLatency(S) = SumOf(LatencyOf, S)
<1> DEFINE F(g) == [s \in SUBSET S |->
                      IF s = {} THEN 0
                      ELSE (AnyOf(s).finish - AnyOf(s).arrival) + g[s \ {AnyOf(s)}]]
           G == CHOOSE g : g = F(g)
<1>1. TotalLatency(S) = G[S]
  BY DEF TotalLatency, MapThenSumSet, MapThenFoldSet, AnyOf
<1>2. \A j \in S : LatencyOf[j] = j.finish - j.arrival
  BY DEF LatencyOf
<1>3. \A g : IsSum(g, LatencyOf, S) <=> g = F(g)
  <2>1. \A s \in SUBSET S : s # {} => AnyOf(s) \in S
    BY DEF AnyOf
  <2> QED  BY <1>2, <2>1 DEF IsSum
<1>4. G = F(G)
  <2>1. PICK g : IsSum(g, LatencyOf, S)
    BY SumExists
  <2>2. g = F(g)
    BY <1>3, <2>1
  <2> HIDE DEF F
  <2> QED  BY <2>2
<1>5. IsSum(G, LatencyOf, S)
  BY <1>3, <1>4
<1>6. \A g : IsSum(g, LatencyOf, S) => SumOf(LatencyOf, S) = g[S]
  BY SumIsOwn
<1> HIDE DEF G
<1> QED  BY <1>1, <1>5, <1>6

\* The submissions of each tenant, as weights.
SubmittedOf(st) == [t \in Tenants |-> st[t].submitted]

\* The submissions of finitely many tenants are the sum of theirs.
LEMMA TotalSubmittedIsSum ==
    ASSUME IsFiniteSet(Tenants)
    PROVE  TotalSubmitted = SumOf(SubmittedOf(stats), Tenants)
<1> DEFINE w == SubmittedOf(stats)
           F(g) == [s \in SUBSET Tenants |->
                      IF s = {} THEN 0 ELSE stats[AnyOf(s)].submitted + g[s \ {AnyOf(s)}]]
           G == CHOOSE g : g = F(g)
<1>1. TotalSubmitted = G[Tenants]
  BY DEF TotalSubmitted, MapThenSumSet, MapThenFoldSet, AnyOf
<1>2. \A t \in Tenants : w[t] = stats[t].submitted
  BY DEF SubmittedOf
<1> HIDE DEF w
<1>3. \A g : IsSum(g, w, Tenants) <=> g = F(g)
  <2>1. \A s \in SUBSET Tenants : s # {} => AnyOf(s) \in Tenants
    BY DEF AnyOf
  <2> QED  BY <1>2, <2>1 DEF IsSum
<1>4. G = F(G)
  <2>1. PICK g : IsSum(g, w, Tenants)
    BY SumExists
  <2>2. g = F(g)
    BY <1>3, <2>1
  <2> HIDE DEF F
  <2> QED  BY <2>2
<1>5. IsSum(G, w, Tenants)
  BY <1>3, <1>4
<1>6. \A g : IsSum(g, w, Tenants) => SumOf(w, Tenants) = g[Tenants]
  BY SumIsOwn
<1> HIDE DEF G
<1> QED  BY <1>1, <1>5, <1>6 DEF w

\* note_submission adds one to the submissions.
LEMMA SubmissionAddsOne ==
    ASSUME IsFiniteSet(Tenants), NEW st, NEW after, NEW a \in Tenants,
           \A t \in Tenants : st[t].submitted \in Nat,
           after[a].submitted = st[a].submitted + 1,
           \A t \in Tenants : t # a => after[t].submitted = st[t].submitted
    PROVE  SumOf(SubmittedOf(after), Tenants) = SumOf(SubmittedOf(st), Tenants) + 1
<1> DEFINE w == SubmittedOf(st)
           v == SubmittedOf(after)
           rest == Tenants \ {a}
<1>1. /\ \A t \in Tenants : w[t] \in Nat /\ v[t] \in Nat
      /\ v[a] = w[a] + 1 /\ \A t \in rest : v[t] = w[t]
  BY DEF SubmittedOf
<1> HIDE DEF w, v
<1>2. /\ SumOf(w, Tenants) = w[a] + SumOf(w, rest)
      /\ SumOf(v, Tenants) = v[a] + SumOf(v, rest)
  BY <1>1, SumRemove
<1>3. IsFiniteSet(rest) /\ \A t \in rest : w[t] \in Nat
  BY <1>1, FS_RemoveElement
<1> HIDE DEF rest
<1>4. SumOf(v, rest) = SumOf(w, rest) /\ SumOf(w, rest) \in Nat
  BY <1>1, <1>3, SumSame, SumType
<1> QED  BY <1>1, <1>2, <1>4 DEF w, v

\* The placements of tenant t among D, and those that miss the latency bound.
WorkOf(D, t) == {j \in D : TenantOf[j.key] = t}
Missed(D, t) == {j \in WorkOf(D, t) : j.finish - j.arrival > MaxLatency}

\* The statistics s of tenant t agree with the completed placements D.
TenantBooks(s, D, t) ==
    /\ s.completed = Cardinality(WorkOf(D, t))
    /\ s.sla_misses = Cardinality(Missed(D, t))
    /\ s.total_latency = SumOf(LatencyOf, WorkOf(D, t))

\* Statistics whose other fields are equal agree equally.
LEMMA TenantBooksSame ==
    ASSUME NEW s, NEW r, NEW D, NEW t, TenantBooks(s, D, t), r.completed = s.completed,
           r.sla_misses = s.sla_misses, r.total_latency = s.total_latency
    PROVE  TenantBooks(r, D, t)
BY DEF TenantBooks

\* execute() enters the result of a completed placement in its tenant's books.
LEMMA TenantBooksAdd ==
    ASSUME NEW D \in SUBSET Placement, IsFiniteSet(D), \A i \in D : i.arrival <= i.finish,
           NEW j \in Placement, j \notin D, j.arrival <= j.finish, NEW t, NEW s, NEW r,
           TenantBooks(s, D, t), s \in TenantStats,
           IF t = TenantOf[j.key]
           THEN r = WithResult(s, j)
           ELSE /\ r.completed = s.completed /\ r.sla_misses = s.sla_misses
                /\ r.total_latency = s.total_latency
    PROVE  TenantBooks(r, D \cup {j}, t)
<1>1. /\ IsFiniteSet(WorkOf(D, t)) /\ IsFiniteSet(Missed(D, t))
      /\ j \notin WorkOf(D, t) /\ j \notin Missed(D, t)
  BY FS_Subset DEF WorkOf, Missed
<1>2. CASE t # TenantOf[j.key]
  <2>1. WorkOf(D \cup {j}, t) = WorkOf(D, t) /\ Missed(D \cup {j}, t) = Missed(D, t)
    BY <1>2 DEF WorkOf, Missed
  <2> QED  BY <1>2, <2>1 DEF TenantBooks
<1>3. CASE t = TenantOf[j.key]
  <2> DEFINE latency == j.finish - j.arrival
             miss    == IF latency > MaxLatency THEN 1 ELSE 0
  <2>1. latency \in Nat /\ LatencyOf[j] = latency
    BY DEF Placement, LatencyOf
  <2>2. WorkOf(D \cup {j}, t) = WorkOf(D, t) \cup {j}
    BY <1>3 DEF WorkOf
  <2>3. Missed(D \cup {j}, t) = IF latency > MaxLatency THEN Missed(D, t) \cup {j}
                                ELSE Missed(D, t)
    BY <2>2 DEF Missed
  <2>4. /\ r.completed = s.completed + 1 /\ r.total_latency = s.total_latency + latency
        /\ r.sla_misses = s.sla_misses + miss
    BY <1>3 DEF WithResult, TenantStats
  <2> HIDE DEF latency
  <2>5. Cardinality(WorkOf(D, t) \cup {j}) = Cardinality(WorkOf(D, t)) + 1
    BY <1>1, FS_AddElement
  <2>6. Cardinality(Missed(D \cup {j}, t)) = Cardinality(Missed(D, t)) + miss
    <3>1. Cardinality(Missed(D, t) \cup {j}) = Cardinality(Missed(D, t)) + 1
      BY <1>1, FS_AddElement
    <3>2. Cardinality(Missed(D, t)) \in Nat
      BY <1>1, FS_CardinalityType
    <3> QED  BY <2>3, <3>1, <3>2
  <2>7. SumOf(LatencyOf, WorkOf(D, t) \cup {j}) = SumOf(LatencyOf, WorkOf(D, t)) + latency
    <3>1. \A i \in WorkOf(D, t) : LatencyOf[i] \in Nat
      BY DEF WorkOf, LatencyOf, Placement
    <3> QED  BY <1>1, <2>1, <3>1, SumAdd
  <2> QED  BY <2>2, <2>4, <2>5, <2>6, <2>7 DEF TenantBooks
<1> QED  BY <1>2, <1>3

\* What note_submission and execute() do to the statistics of each tenant.
LEMMA StatsEffect ==
    ASSUME TypeOK, NEW k \in Keys, NEW t \in Tenants
    PROVE  /\ Submitted(k)[t] \in TenantStats
           /\ Submitted(k)[t].completed = stats[t].completed
           /\ Submitted(k)[t].sla_misses = stats[t].sla_misses
           /\ Submitted(k)[t].total_latency = stats[t].total_latency
           /\ Submitted(k)[t].submitted =
                IF t = TenantOf[k] THEN stats[t].submitted + 1 ELSE stats[t].submitted
           /\ \A j : j.key = k =>
                /\ Accounted(j)[t] = IF t = TenantOf[k] THEN WithResult(Submitted(k)[t], j)
                                     ELSE Submitted(k)[t]
                /\ Accounted(j)[t].submitted = Submitted(k)[t].submitted
<1>1. TenantOf[k] \in Tenants /\ stats \in [Tenants -> TenantStats]
  BY ControlPlaneAssumption DEF TypeOK
<1>2. Submitted(k) \in [Tenants -> TenantStats]
  BY StatsType
<1>3. /\ Submitted(k)[t].completed = stats[t].completed
      /\ Submitted(k)[t].sla_misses = stats[t].sla_misses
      /\ Submitted(k)[t].total_latency = stats[t].total_latency
      /\ Submitted(k)[t].submitted =
           IF t = TenantOf[k] THEN stats[t].submitted + 1 ELSE stats[t].submitted
  BY <1>1 DEF Submitted, TenantStats
<1>4. ASSUME NEW j, j.key = k
      PROVE  /\ Accounted(j)[t] = IF t = TenantOf[k] THEN WithResult(Submitted(k)[t], j)
                                  ELSE Submitted(k)[t]
             /\ Accounted(j)[t].submitted = Submitted(k)[t].submitted
  <2>1. Accounted(j)[t] = IF t = TenantOf[k] THEN WithResult(Submitted(k)[t], j)
                          ELSE Submitted(k)[t]
    BY <1>1, <1>2, <1>4 DEF Accounted
  <2>2. \A s \in TenantStats : WithResult(s, j).submitted = s.submitted
    BY DEF WithResult, TenantStats
  <2> QED  BY <1>2, <2>1, <2>2
<1> QED  BY <1>2, <1>3, <1>4

\* The placements in P that have a result, in a run of n requests that has
\* raised an exception or not.
DoneIn(P, cut, n) == {j \in P : ~(cut /\ j.id = n - 1)}

At(P, p) == {j \in P : j.pool = p}

\* The strengthening of AccountingBalanced: the same books over functions of
\* weights, with finite sets, natural latencies and identifiers in order.
Books ==
    /\ IsFiniteSet(placed) /\ \A i \in placed : i.arrival <= i.finish
    /\ IsFiniteSet(rejected) /\ \A r \in rejected : r.id < arrived
    /\ \A t \in Tenants : TenantBooks(stats[t], DoneIn(placed, raised, arrived), t)
    /\ \A p \in Pools :
         /\ decision_count[p] = Cardinality(At(placed, p))
         /\ completed_count[p] = Cardinality(At(DoneIn(placed, raised, arrived), p))
    /\ SumOf(SubmittedOf(stats), Tenants) = arrived
    /\ arrived = Cardinality(DoneIn(placed, raised, arrived)) + Cardinality(rejected)
                    + (IF raised THEN 1 ELSE 0)

\* The books say what AccountingBalanced does.
LEMMA BooksBalance ==
    ASSUME TypeOK, Books, IsFiniteSet(Tenants)
    PROVE  AccountingBalanced
<1> DEFINE D == DoneIn(placed, raised, arrived)
<1>1. D = placed \ Interrupted
  BY DEF DoneIn, Interrupted
<1>2. \A t : CompletedBy(t) = WorkOf(D, t)
  BY <1>1 DEF CompletedBy, WorkOf
<1>3. \A t : {j \in CompletedBy(t) : j.finish - j.arrival > MaxLatency} = Missed(D, t)
  BY <1>2 DEF Missed
<1>4. \A t : WorkOf(D, t) \in SUBSET Placement /\ IsFiniteSet(WorkOf(D, t))
  <2>1. \A t : WorkOf(D, t) \in SUBSET placed
    BY DEF WorkOf, DoneIn
  <2> QED  BY <2>1, FS_Subset DEF Books, TypeOK
<1>5. \A p : PlacedAt(p) = At(placed, p) /\ PlacedAt(p) \ Interrupted = At(D, p)
  BY <1>1 DEF PlacedAt, At
<1>6. \A t \in Tenants :
        /\ stats[t].completed = Cardinality(CompletedBy(t))
        /\ stats[t].sla_misses =
             Cardinality({j \in CompletedBy(t) : j.finish - j.arrival > MaxLatency})
        /\ stats[t].total_latency = TotalLatency(CompletedBy(t))
  <2> SUFFICES ASSUME NEW t \in Tenants
               PROVE  /\ stats[t].completed = Cardinality(CompletedBy(t))
                      /\ stats[t].sla_misses =
                           Cardinality({j \in CompletedBy(t) : j.finish - j.arrival > MaxLatency})
                      /\ stats[t].total_latency = TotalLatency(CompletedBy(t))
    OBVIOUS
  <2>1. TenantBooks(stats[t], D, t)
    BY DEF Books
  <2> HIDE DEF D
  <2>2. TotalLatency(WorkOf(D, t)) = SumOf(LatencyOf, WorkOf(D, t))
    BY <1>4, TotalLatencyIsSum
  <2> QED  BY <1>2, <1>3, <2>1, <2>2 DEF TenantBooks
<1>7. \A p \in Pools : /\ decision_count[p] = Cardinality(PlacedAt(p))
                       /\ completed_count[p] = Cardinality(PlacedAt(p) \ Interrupted)
  BY <1>5 DEF Books
<1>8. TotalSubmitted = arrived
  BY TotalSubmittedIsSum DEF Books
<1>9. arrived = Cardinality(placed \ Interrupted) + Cardinality(rejected)
                    + (IF raised THEN 1 ELSE 0)
  BY <1>1 DEF Books
<1> QED  BY <1>6, <1>7, <1>8, <1>9 DEF AccountingBalanced

\* The work of a pool after one more placement.
LEMMA AtAdd ==
    ASSUME NEW P, IsFiniteSet(P), NEW j, j \notin P, NEW p
    PROVE  Cardinality(At(P \cup {j}, p)) =
              IF p = j.pool THEN Cardinality(At(P, p)) + 1 ELSE Cardinality(At(P, p))
<1>1. IsFiniteSet(At(P, p)) /\ j \notin At(P, p)
  BY FS_Subset DEF At
<1>2. At(P \cup {j}, p) = IF p = j.pool THEN At(P, p) \cup {j} ELSE At(P, p)
  BY DEF At
<1>3. Cardinality(At(P, p) \cup {j}) = Cardinality(At(P, p)) + 1
  BY <1>1, FS_AddElement
<1> QED  BY <1>2, <1>3

\* Every request is accounted for exactly once, whatever the order of arrival
\* and in runs that an exception ends: no request is lost between the books of
\* tenants and pools and the lists of placements and rejections.
THEOREM AccountsBalance ==
    ASSUME IsFiniteSet(Tenants)
    PROVE  Spec => []AccountingBalanced
<1>1. Init => Books
  <2> SUFFICES ASSUME Init PROVE Books
    OBVIOUS
  <2>1. /\ placed = {} /\ rejected = {} /\ raised = FALSE /\ arrived = 0
        /\ \A p \in Pools : decision_count[p] = 0 /\ completed_count[p] = 0
        /\ \A t \in Tenants : /\ stats[t].submitted = 0 /\ stats[t].completed = 0
                              /\ stats[t].sla_misses = 0 /\ stats[t].total_latency = 0
    BY DEF Init
  <2>2. DoneIn({}, FALSE, 0) = {} /\ \A x : WorkOf({}, x) = {} /\ Missed({}, x) = {}
        /\ At({}, x) = {}
    BY DEF DoneIn, WorkOf, Missed, At
  <2>3. IsFiniteSet({}) /\ Cardinality({}) = 0 /\ SumOf(LatencyOf, {}) = 0
    BY FS_EmptySet, SumEmpty
  <2>4. \A t \in Tenants : TenantBooks(stats[t], {}, t)
    BY <2>1, <2>2, <2>3 DEF TenantBooks
  <2>5. SumOf(SubmittedOf(stats), Tenants) = 0
    <3>1. \A t \in Tenants : SubmittedOf(stats)[t] = 0
      BY <2>1 DEF SubmittedOf
    <3> QED  BY <3>1, SumZero
  <2>6. DoneIn(placed, raised, arrived) = {}
    BY <2>1, <2>2
  <2> QED  BY <2>1, <2>2, <2>3, <2>4, <2>5, <2>6 DEF Books
<1>2. TypeOK /\ IdsUsed /\ Books /\ [Next]_vars => Books'
  <2> SUFFICES ASSUME TypeOK, IdsUsed, Books, [Next]_vars
               PROVE  Books'
    OBVIOUS
  <2>1. CASE UNCHANGED vars
    BY <2>1 DEF vars, Books
  <2>2. CASE Next
    <3>1. ~raised /\ arrived' = arrived + 1 /\ arrived \in Nat
      BY <2>2, StepAccounts DEF TypeOK
    <3>2. DoneIn(placed, raised, arrived) = placed
      BY <3>1 DEF DoneIn
    <3>3. /\ IsFiniteSet(placed) /\ placed \in SUBSET Placement
          /\ \A i \in placed : i.arrival <= i.finish
          /\ IsFiniteSet(rejected) /\ \A r \in rejected : r.id \in Nat /\ r.id < arrived
          /\ \A t \in Tenants : TenantBooks(stats[t], placed, t)
          /\ \A p \in Pools : /\ decision_count[p] = Cardinality(At(placed, p))
                              /\ completed_count[p] = Cardinality(At(placed, p))
          /\ SumOf(SubmittedOf(stats), Tenants) = arrived
          /\ arrived = Cardinality(placed) + Cardinality(rejected)
      <4>1. \A r \in rejected : r.id \in Nat
        BY DEF TypeOK, Rejection
      <4>2. Cardinality(placed) \in Nat /\ Cardinality(rejected) \in Nat
        BY FS_CardinalityType DEF Books
      <4>3. arrived = Cardinality(placed) + Cardinality(rejected)
        BY <3>1, <3>2, <4>2 DEF Books
      <4> QED  BY <3>2, <4>1, <4>3 DEF Books, TypeOK
    <3>4. \A i \in placed : i.id \in Nat /\ i.id < arrived
      BY DEF IdsUsed, TypeOK, Placement
    <3>5. Cardinality(placed) \in Nat /\ Cardinality(rejected) \in Nat
      BY <3>3, FS_CardinalityType
    <3>6. ASSUME NEW j, Booked(j)
          PROVE  /\ j \in Placement /\ j \notin placed /\ placed' = placed \cup {j}
                 /\ j.id = arrived /\ j.pool \in Pools /\ j.arrival <= j.finish
                 /\ IsFiniteSet(placed') /\ \A i \in placed' : i.arrival <= i.finish
                 /\ \A p \in Pools : decision_count'[p] = Cardinality(At(placed', p))
      <4>1. /\ j \in Placement /\ j.id = arrived /\ j.pool \in Pools /\ j.arrival \in Nat
            /\ j.start \in Nat /\ j.finish \in Nat /\ j.start < j.finish
            /\ placed' = placed \cup {j}
            /\ decision_count' = [decision_count EXCEPT ![j.pool] = @ + 1]
        BY <3>6 DEF Booked, Book, Placement
      <4>2. j.arrival <= j.start
        BY <3>6, BookedStart
      <4>3. j \notin placed
        BY <3>1, <3>4, <4>1
      <4>4. \A p \in Pools : decision_count'[p] =
                IF p = j.pool THEN decision_count[p] + 1 ELSE decision_count[p]
        BY <4>1 DEF TypeOK
      <4>5. \A p \in Pools : decision_count'[p] = Cardinality(At(placed', p))
        BY <3>3, <4>1, <4>3, <4>4, AtAdd
      <4>6. j.arrival <= j.finish
        BY <4>1, <4>2
      <4>7. IsFiniteSet(placed')
        BY <3>3, <4>1, FS_AddElement
      <4> QED  BY <3>3, <4>1, <4>3, <4>5, <4>6, <4>7
    <3>7. ASSUME NEW k \in Keys, \A t \in Tenants : stats'[t].submitted = Submitted(k)[t].submitted
          PROVE  SumOf(SubmittedOf(stats'), Tenants) = arrived'
      <4>1. TenantOf[k] \in Tenants
        BY ControlPlaneAssumption
      <4>2. \A t \in Tenants : /\ stats[t].submitted \in Nat
                               /\ stats'[t].submitted = IF t = TenantOf[k]
                                     THEN stats[t].submitted + 1 ELSE stats[t].submitted
        BY <3>7, StatsEffect DEF TypeOK, TenantStats
      <4>3. SumOf(SubmittedOf(stats'), Tenants) = SumOf(SubmittedOf(stats), Tenants) + 1
        BY <4>1, <4>2, SubmissionAddsOne
      <4> QED  BY <3>1, <3>3, <4>3
    <3>8. ASSUME NEW k \in Keys, stats' = Submitted(k)
          PROVE  /\ \A t \in Tenants : TenantBooks(stats'[t], placed, t)
                 /\ SumOf(SubmittedOf(stats'), Tenants) = arrived'
      BY <3>3, <3>7, <3>8, StatsEffect, TenantBooksSame
    <3>9. \A r \in rejected : r.id < arrived'
      BY <3>1, <3>3
    <3>10. ASSUME NEW k \in Keys, NEW j, Booked(j), j.key = k, stats' = Accounted(j),
                  completed_count' = [completed_count EXCEPT ![j.pool] = @ + 1],
                  UNCHANGED <<rejected, raised>>
           PROVE  Books'
      <4>1. DoneIn(placed', raised', arrived') = placed'
        BY <3>1, <3>10 DEF DoneIn
      <4>2. \A t \in Tenants : TenantBooks(stats'[t], placed', t)
        <5> SUFFICES ASSUME NEW t \in Tenants PROVE TenantBooks(stats'[t], placed', t)
          OBVIOUS
        <5>1. TenantBooks(Submitted(k)[t], placed, t) /\ Submitted(k)[t] \in TenantStats
          BY <3>3, StatsEffect, TenantBooksSame
        <5>2. stats'[t] = IF t = TenantOf[j.key] THEN WithResult(Submitted(k)[t], j)
                          ELSE Submitted(k)[t]
          BY <3>10, StatsEffect
        <5>3. /\ j \in Placement /\ j \notin placed /\ j.arrival <= j.finish
              /\ placed' = placed \cup {j}
          BY <3>6, <3>10
        <5>4. TenantBooks(stats'[t], placed \cup {j}, t)
          BY <3>3, <5>1, <5>2, <5>3, TenantBooksAdd
        <5> QED  BY <5>3, <5>4
      <4>3. \A t \in Tenants : stats'[t].submitted = Submitted(k)[t].submitted
        BY <3>10, StatsEffect
      <4>4. \A p \in Pools : completed_count'[p] = Cardinality(At(placed', p))
        <5>1. \A p \in Pools : completed_count'[p] =
                IF p = j.pool THEN completed_count[p] + 1 ELSE completed_count[p]
          BY <3>10 DEF TypeOK
        <5> QED  BY <3>3, <3>6, <3>10, <5>1, AtAdd
      <4>5. arrived' = Cardinality(placed') + Cardinality(rejected')
        <5>1. Cardinality(placed') = Cardinality(placed) + 1
          BY <3>3, <3>6, <3>10, FS_AddElement
        <5> QED  BY <3>1, <3>3, <3>5, <3>10, <5>1
      <4>6. Cardinality(placed') \in Nat /\ Cardinality(rejected') \in Nat
        BY <3>3, <3>6, <3>10, FS_CardinalityType
      <4>7. arrived' = Cardinality(DoneIn(placed', raised', arrived')) + Cardinality(rejected')
                         + (IF raised' THEN 1 ELSE 0)
        BY <3>1, <3>10, <4>1, <4>5, <4>6
      <4> QED  BY <3>3, <3>6, <3>7, <3>9, <3>10, <4>1, <4>2, <4>3, <4>4, <4>7 DEF Books
    <3>11. ASSUME NEW k \in Keys, NEW j, Booked(j), stats' = Submitted(k), raised' = TRUE,
                  UNCHANGED <<completed_count, rejected>>
           PROVE  Books'
      <4>1. DoneIn(placed', raised', arrived') = placed
        BY <3>1, <3>4, <3>6, <3>11 DEF DoneIn
      <4>2. arrived' = Cardinality(placed) + Cardinality(rejected') + 1
        BY <3>1, <3>3, <3>5, <3>11
      <4> QED  BY <3>3, <3>6, <3>8, <3>9, <3>11, <4>1, <4>2 DEF Books
    <3>12. ASSUME NEW k \in Keys, stats' = Submitted(k), NEW r \in Rejection, r.id = arrived,
                  rejected' = rejected \cup {r},
                  UNCHANGED <<placed, decision_count, completed_count, raised>>
           PROVE  Books'
      <4>1. DoneIn(placed', raised', arrived') = placed
        BY <3>1, <3>12 DEF DoneIn
      <4>2. r \notin rejected
        BY <3>1, <3>3, <3>12
      <4>3. IsFiniteSet(rejected') /\ Cardinality(rejected') = Cardinality(rejected) + 1
        BY <3>3, <3>12, <4>2, FS_AddElement
      <4>4. arrived' = Cardinality(placed) + Cardinality(rejected') + (IF raised' THEN 1 ELSE 0)
        BY <3>1, <3>3, <3>5, <3>12, <4>3
      <4>5. \A x \in rejected' : x.id < arrived'
        BY <3>1, <3>9, <3>12
      <4> QED  BY <3>3, <3>8, <3>12, <4>1, <4>3, <4>4, <4>5 DEF Books
    <3>13. ASSUME NEW k \in Keys, stats' = Submitted(k), raised' = TRUE,
                  UNCHANGED <<placed, decision_count, completed_count, rejected>>
           PROVE  Books'
      <4>1. DoneIn(placed', raised', arrived') = placed
        BY <3>1, <3>4, <3>13 DEF DoneIn
      <4>2. arrived' = Cardinality(placed) + Cardinality(rejected') + 1
        BY <3>1, <3>3, <3>5, <3>13
      <4> QED  BY <3>3, <3>8, <3>9, <3>13, <4>1, <4>2 DEF Books
    <3> QED  BY <2>2, <3>10, <3>11, <3>12, <3>13, StepAccounts
  <2> QED  BY <2>1, <2>2
<1>3. TypeOK /\ Books => AccountingBalanced
  BY BooksBalance
<1> QED  BY <1>1, <1>2, <1>3, TypeCorrect, IdsAlwaysUsed, PTL DEF Spec
-----------------------------------------------------------------------------
(* ControlPlaneInTime: the bookings, seen at a clock, implement PoolQueues. *)

\* A request that arrives at the clock is an iteration of the engine.
LEMMA ArrivalIsNext ==
    ASSUME Arrival
    PROVE  Next /\ now' = clock /\ clock' = clock /\ clock \in Nat
<1>1. PICK k \in Keys : Iteration(k, clock)
  BY DEF Arrival
<1>2. clock \in 0 .. MaxTime /\ now' = clock
  BY <1>1 DEF Iteration, Admit, AdmitRaises, Reject, RouteRaises, Arrive
<1> QED  BY <1>1, <1>2, ControlPlaneAssumption DEF Arrival, Next

\* Beside the clock the control plane does what it does without: what is
\* proved of Spec holds of TimedSpec.
THEOREM TimedImplementsSpec == TimedSpec => Spec
<1>1. TimedInit => Init
  BY DEF TimedInit
<1>2. [TimedNext]_timedVars => [Next]_vars
  BY ArrivalIsNext DEF TimedNext, Tick, timedVars
<1> QED  BY <1>1, <1>2, PTL DEF TimedSpec, Spec

\* The inductive invariant of the refinement: requests arrive no later than
\* the clock; a placement has started by the clock or no slot of its pool is
\* free before it; from the clock until it is booked to, a slot is busy.
InStep == clock \in Nat /\ now <= clock

StartedByClock ==
    \A j \in placed : \/ j.start <= clock
                      \/ \A s \in SlotIds(j.pool) : j.start <= slots[j.pool][s]

BusyFromClock ==
    \A p \in Pools : \A s \in SlotIds(p), t \in Nat :
        clock <= t /\ t < slots[p][s] =>
            \E i \in placed : i.pool = p /\ i.slot = s /\ i.start <= t /\ t < i.finish

\* Requests of one pool start in the order of their identifiers, which are
\* different, and take a service time that is offered.
InOrder == \A i, j \in placed : /\ i.id = j.id => i = j
                                /\ i.pool = j.pool /\ i.id < j.id => i.start <= j.start

Offered == \A j \in placed : j.finish - j.start \in ServiceTimes

LEMMA TimedInvariant ==
    TimedSpec => [](InStep /\ StartedByClock /\ BusyFromClock /\ InOrder /\ Offered)
<1> DEFINE Inv == InStep /\ StartedByClock /\ BusyFromClock /\ InOrder /\ Offered
<1>1. TimedInit => Inv
  BY DEF TimedInit, Init, InStep, StartedByClock, BusyFromClock, InOrder, Offered
<1>2. TypeOK /\ IdsUsed /\ Inv /\ [TimedNext]_timedVars => Inv'
  <2> SUFFICES ASSUME TypeOK, IdsUsed, Inv, [TimedNext]_timedVars
               PROVE  Inv'
    OBVIOUS
  <2>1. /\ clock \in Nat /\ now \in Nat /\ arrived \in Nat
        /\ \A i \in placed : /\ i.pool \in Pools /\ i.id \in Nat /\ i.id < arrived
                             /\ i.start \in Nat /\ i.finish \in Nat
        /\ \A p \in Pools : \A s \in SlotIds(p) : slots[p][s] \in Nat
    BY DEF TypeOK, IdsUsed, InStep, Placement
  <2>2. ASSUME UNCHANGED <<slots, placed>>, clock' \in Nat, clock <= clock', now' <= clock'
        PROVE  Inv'
    <3>1. InStep'
      BY <2>2 DEF InStep
    <3>2. StartedByClock'
      BY <2>1, <2>2 DEF StartedByClock, SlotIds
    <3>3. BusyFromClock'
      BY <2>1, <2>2 DEF BusyFromClock, SlotIds
    <3>4. InOrder' /\ Offered'
      BY <2>2 DEF InOrder, Offered
    <3> QED  BY <3>1, <3>2, <3>3, <3>4
  <2>3. ASSUME NEW j, Booked(j), now' = clock, clock' = clock
        PROVE  Inv'
    <3>1. /\ j.id = arrived /\ j.pool \in Pools /\ j.start \in Nat /\ j.finish \in Nat
          /\ j.start < j.finish /\ j.finish - j.start \in ServiceTimes
      BY <2>3 DEF Booked, Placement
    <3>2. placed' = placed \cup {j}
      BY <2>3, BookEffect
    <3>3. InStep' /\ Offered'
      BY <2>1, <2>3, <3>1, <3>2 DEF InStep, Offered
    <3>4. ASSUME NEW i \in placed, i.pool = j.pool
          PROVE  i.start <= j.start
      <4>1. CASE i.start <= clock
        BY <2>1, <2>3, <3>1, <3>4, <4>1, BookedStart
      <4>2. CASE \A s \in SlotIds(i.pool) : i.start <= slots[i.pool][s]
        <5>1. /\ j.slot \in SlotIds(j.pool) /\ slots[j.pool][j.slot] <= j.start
              /\ slots[j.pool][j.slot] \in Nat
          BY <2>3, <3>1, BookEffect
        <5> QED  BY <2>1, <3>1, <3>4, <4>2, <5>1
      <4> QED  BY <3>4, <4>1, <4>2 DEF StartedByClock
    <3>5. InOrder'
      <4> SUFFICES ASSUME NEW i \in placed', NEW l \in placed'
                   PROVE  /\ i.id = l.id => i = l
                          /\ i.pool = l.pool /\ i.id < l.id => i.start <= l.start
        BY DEF InOrder
      <4>1. CASE i \in placed /\ l \in placed
        BY <4>1 DEF InOrder
      <4>2. CASE i \in placed /\ l = j
        BY <2>1, <3>1, <3>4, <4>2
      <4>3. CASE i = j /\ l \in placed
        BY <2>1, <3>1, <4>3
      <4>4. CASE i = j /\ l = j
        BY <3>1, <4>4
      <4> QED  BY <3>2, <4>1, <4>2, <4>3, <4>4
    <3>6. ASSUME NEW i \in placed'
          PROVE  \/ i.start <= clock'
                 \/ \A s \in SlotIds(i.pool) : i.start <= slots'[i.pool][s]
      <4>1. i.pool \in Pools /\ i.start \in Nat
        BY <2>1, <3>1, <3>2, <3>6
      <4>2. \A s \in SlotIds(i.pool) : /\ slots[i.pool][s] \in Nat
                                       /\ slots'[i.pool][s] \in Nat
                                       /\ slots[i.pool][s] <= slots'[i.pool][s]
        BY <2>3, <4>1, BookEffect
      <4>3. i.start <= clock \/ \A s \in SlotIds(i.pool) : i.start <= slots[i.pool][s]
        <5>1. CASE i = j
          BY <2>1, <2>3, <5>1, BookedStart
        <5>2. CASE i \in placed
          BY <5>2 DEF StartedByClock
        <5> QED  BY <3>2, <3>6, <5>1, <5>2
      <4>4. CASE i.start <= clock
        BY <2>3, <4>4
      <4>5. CASE \A s \in SlotIds(i.pool) : i.start <= slots[i.pool][s]
        BY <4>1, <4>2, <4>5
      <4> QED  BY <4>3, <4>4, <4>5
    <3>7. StartedByClock'
      BY <3>6 DEF StartedByClock, SlotIds
    <3>8. ASSUME NEW p \in Pools, NEW s \in SlotIds(p), NEW t \in Nat,
                 clock' <= t, t < slots'[p][s]
          PROVE  \E i \in placed' : i.pool = p /\ i.slot = s /\ i.start <= t /\ t < i.finish
      <4>1. CASE t < slots[p][s]
        BY <2>3, <3>2, <3>8, <4>1 DEF BusyFromClock
      <4>2. CASE ~(t < slots[p][s])
        <5>1. p = j.pool /\ s = j.slot /\ slots'[p][s] = j.finish
          BY <2>3, <3>8, <4>2, BookEffect
        <5>2. j.start <= t
          <6>1. slots[p][s] <= t
            BY <2>1, <3>8, <4>2
          <6>2. CASE j.start = now'
            BY <2>3, <3>8, <6>2
          <6>3. CASE \A u \in SlotIds(j.pool) : j.start <= slots[j.pool][u]
            BY <2>1, <3>1, <3>8, <5>1, <6>1, <6>3
          <6> QED  BY <2>3, <6>2, <6>3, BookedStart
        <5> QED  BY <3>2, <3>8, <5>1, <5>2
      <4> QED  BY <4>1, <4>2
    <3>9. BusyFromClock'
      BY <3>8 DEF BusyFromClock, SlotIds
    <3> QED  BY <3>3, <3>5, <3>7, <3>9
  <2>4. CASE Tick
    BY <2>1, <2>2, <2>4 DEF Tick, vars, InStep
  <2>5. CASE Arrival
    <3>1. Next /\ now' = clock /\ clock' = clock
      BY <2>5, ArrivalIsNext
    <3>2. UNCHANGED <<slots, placed>> \/ \E j : Booked(j)
      BY <3>1, StepShape
    <3> QED  BY <2>1, <2>2, <2>3, <3>1, <3>2
  <2>6. CASE UNCHANGED timedVars
    BY <2>1, <2>2, <2>6 DEF timedVars, vars, InStep
  <2> QED  BY <2>4, <2>5, <2>6 DEF TimedNext
<1> QED  BY <1>1, <1>2, TimedImplementsSpec, TypeCorrect, IdsAlwaysUsed, PTL DEF TimedSpec

-----------------------------------------------------------------------------
(* The bookings as a queue. *)

\* The queue that the bookings P of pool p are at time c.
WaitingIn(P, c, p) ==
    {[id |-> j.id, service |-> j.finish - j.start] :
        j \in {j \in P : j.pool = p /\ c < j.start}}

RunningIn(P, c, p) ==
    {[id |-> j.id, server |-> j.slot, left |-> j.finish - c] :
        j \in {j \in P : j.pool = p /\ j.start <= c /\ c < j.finish}}

LEMMA QueueAt ==
    ASSUME NEW p
    PROVE  WaitingAt(p) = WaitingIn(placed, clock, p) /\ RunningAt(p) = RunningIn(placed, clock, p)
           /\ WaitingAt(p)' = WaitingIn(placed', clock', p)
           /\ RunningAt(p)' = RunningIn(placed', clock', p)
BY DEF WaitingAt, RunningAt, PlacedAt, WaitingIn, RunningIn

\* What is known of the bookings in every state.
Bookings ==
    /\ TypeOK /\ IdsUsed /\ arrived <= MaxRequests
    /\ SlotsCoverPlacements /\ SlotExclusive
    /\ InStep /\ StartedByClock /\ BusyFromClock /\ InOrder /\ Offered

\* The numbers of a placement.
LEMMA BookingTypes ==
    ASSUME Bookings, NEW j \in placed
    PROVE  /\ j.id \in 0 .. MaxRequests /\ j.id \in Nat /\ j.id < arrived /\ j.pool \in Pools
           /\ j.slot \in SlotIds(j.pool)
           /\ j.start \in Nat /\ j.finish \in Nat /\ j.start < j.finish
           /\ j.finish <= slots[j.pool][j.slot] /\ slots[j.pool][j.slot] \in Nat
           /\ j.finish - j.start \in ServiceTimes
<1>1. /\ j.id \in Nat /\ j.pool \in Pools /\ j.start \in Nat /\ j.finish \in Nat
      /\ arrived \in Nat /\ MaxRequests \in Nat
  BY ControlPlaneAssumption DEF Bookings, TypeOK, Placement
<1>2. j.id < arrived /\ arrived <= MaxRequests
  BY DEF Bookings, IdsUsed
<1>3. /\ j.slot \in SlotIds(j.pool) /\ j.start < j.finish
      /\ j.finish <= slots[j.pool][j.slot] /\ j.finish - j.start \in ServiceTimes
  BY DEF Bookings, SlotsCoverPlacements, Offered
<1>4. slots[j.pool][j.slot] \in Nat
  BY <1>1, <1>3 DEF Bookings, TypeOK
<1> QED  BY <1>1, <1>2, <1>3, <1>4

\* A slot booked beyond t, at the clock or later, runs a request at t.
LEMMA BookedIsBusy ==
    ASSUME Bookings, NEW p \in Pools, NEW s \in SlotIds(p), NEW t \in Nat, clock <= t,
           t < slots[p][s]
    PROVE  \E r \in RunningIn(placed, t, p) : r.server = s
<1>1. PICK i \in placed : i.pool = p /\ i.slot = s /\ i.start <= t /\ t < i.finish
  BY DEF Bookings, BusyFromClock
<1>2. [id |-> i.id, server |-> i.slot, left |-> i.finish - t] \in RunningIn(placed, t, p)
  BY <1>1 DEF RunningIn
<1> QED  BY <1>1, <1>2

\* One tick at pool p: requests whose time has come start on the slot they
\* are booked on, which the request before them has just left.
LEMMA TickRefines ==
    ASSUME Bookings, Tick, NEW p \in Pools
    PROVE  /\ WaitingIn(placed, clock', p) \subseteq [id : 0 .. MaxRequests, service : ServiceTimes]
           /\ RunningIn(placed, clock', p) \subseteq
                [id : 0 .. MaxRequests, server : SlotIds(p), left : Nat]
           /\ Queues!TickAt(p)
<1> DEFINE W  == WaitingIn(placed, clock, p)
           W2 == WaitingIn(placed, clock', p)
           R  == RunningIn(placed, clock, p)
           R2 == RunningIn(placed, clock', p)
           taken == W \ W2
<1>1. clock \in Nat /\ clock' = clock + 1 /\ placed' = placed
  BY DEF Bookings, InStep, Tick, vars
<1>2. W2 \subseteq [id : 0 .. MaxRequests, service : ServiceTimes]
  BY BookingTypes DEF WaitingIn
<1>3. R2 \subseteq [id : 0 .. MaxRequests, server : SlotIds(p), left : Nat]
  BY <1>1, BookingTypes DEF RunningIn
<1>4. W2 \subseteq W
  BY <1>1, BookingTypes DEF WaitingIn
<1> DEFINE Placed(w) == CHOOSE j \in placed : j.id = w.id
<1>5. ASSUME NEW j \in placed, NEW w, w.id = j.id
      PROVE  Placed(w) = j
  BY <1>5 DEF Bookings, InOrder
<1>6. ASSUME NEW w \in taken
      PROVE  /\ Placed(w) \in placed /\ Placed(w).pool = p /\ Placed(w).start = clock'
             /\ w = [id |-> Placed(w).id, service |-> Placed(w).finish - Placed(w).start]
  <2>1. PICK j \in placed : /\ j.pool = p /\ clock < j.start
                            /\ w = [id |-> j.id, service |-> j.finish - j.start]
    BY <1>6 DEF WaitingIn
  <2>2. Placed(w) = j
    BY <1>5, <2>1
  <2>3. ~(clock' < j.start)
    BY <1>6, <2>1 DEF WaitingIn
  <2>4. j.start = clock'
    BY <1>1, <2>1, <2>3, BookingTypes
  <2> HIDE DEF Placed
  <2> QED  BY <2>1, <2>2, <2>4
<1>7. ASSUME NEW j \in placed, j.pool = p, j.start = clock'
      PROVE  LET w == [id |-> j.id, service |-> j.finish - j.start]
             IN  w \in taken /\ Placed(w) = j
  <2> DEFINE w == [id |-> j.id, service |-> j.finish - j.start]
  <2>1. w.id = j.id /\ clock < j.start /\ ~(clock' < j.start)
    BY <1>1, <1>7
  <2>2. w \in W
    BY <1>7, <2>1 DEF WaitingIn
  <2>3. w \notin W2
    <3> SUFFICES ASSUME w \in W2 PROVE FALSE
      OBVIOUS
    <3>1. PICK i \in placed : clock' < i.start /\ w = [id |-> i.id, service |-> i.finish - i.start]
      BY DEF WaitingIn
    <3>2. i = j
      BY <2>1, <3>1 DEF Bookings, InOrder
    <3> QED  BY <2>1, <3>1, <3>2
  <2>4. Placed(w) = j
    BY <1>5, <2>1
  <2> QED  BY <2>2, <2>3, <2>4
<1>8. ASSUME NEW w \in taken, NEW v \in W2
      PROVE  w.id < v.id
  <2>1. PICK i \in placed : /\ i.pool = p /\ i.start = clock' /\ w.id = i.id
    BY <1>6, <1>8
  <2>2. PICK j \in placed : /\ j.pool = p /\ clock' < j.start /\ v.id = j.id
    BY <1>8 DEF WaitingIn
  <2>3. ~(j.id < i.id)
    BY <1>1, <2>1, <2>2, BookingTypes DEF Bookings, InOrder
  <2>4. i.id # j.id
    BY <1>1, <2>1, <2>2, BookingTypes DEF Bookings, InOrder
  <2> QED  BY <2>1, <2>2, <2>3, <2>4, BookingTypes
<1> DEFINE server == [w \in taken |-> Placed(w).slot]
           Begun(w) == [id |-> w.id, server |-> server[w], left |-> w.service]
           Next1(r) == [id |-> r.id, server |-> r.server, left |-> r.left - 1]
<1>9. server \in [taken -> SlotIds(p)]
  <2>1. \A w \in taken : Placed(w).slot \in SlotIds(p)
    BY <1>6, BookingTypes
  <2> QED  BY <2>1
<1>10. R2 = {Next1(r) : r \in {r \in R : r.left > 1}} \cup {Begun(w) : w \in taken}
  <2> DEFINE Rec(j) == [id |-> j.id, server |-> j.slot, left |-> j.finish - clock']
             Old(j) == [id |-> j.id, server |-> j.slot, left |-> j.finish - clock]
  <2>1. ASSUME NEW x \in R2
        PROVE  x \in {Next1(r) : r \in {r \in R : r.left > 1}} \cup {Begun(w) : w \in taken}
    <3>1. PICK j \in placed : j.pool = p /\ j.start <= clock' /\ clock' < j.finish /\ x = Rec(j)
      BY <2>1 DEF RunningIn
    <3>2. j.start \in Nat /\ j.finish \in Nat
      BY BookingTypes
    <3>3. CASE j.start = clock'
      <4> DEFINE w == [id |-> j.id, service |-> j.finish - j.start]
      <4>1. w \in taken /\ Placed(w) = j /\ w.id = j.id /\ w.service = j.finish - clock'
        BY <1>7, <3>1, <3>3
      <4> HIDE DEF w, Placed, taken
      <4>2. server[w] = j.slot
        BY <4>1
      <4>3. Begun(w) = x
        BY <3>1, <4>1, <4>2
      <4> QED  BY <4>1, <4>3
    <3>4. CASE j.start # clock'
      <4>1. j.start <= clock /\ clock < j.finish
        BY <1>1, <3>1, <3>2, <3>4
      <4>2. Old(j) \in R
        BY <3>1, <4>1 DEF RunningIn
      <4>3. Old(j).left > 1 /\ Next1(Old(j)) = x
        BY <1>1, <3>1, <3>2
      <4> HIDE DEF R, Old
      <4> QED  BY <4>2, <4>3
    <3> QED  BY <3>3, <3>4
  <2>2. ASSUME NEW r \in R, r.left > 1
        PROVE  Next1(r) \in R2
    <3>1. PICK j \in placed : j.pool = p /\ j.start <= clock /\ clock < j.finish /\ r = Old(j)
      BY <2>2 DEF RunningIn
    <3>2. j.start \in Nat /\ j.finish \in Nat
      BY BookingTypes
    <3>3. j.start <= clock' /\ clock' < j.finish /\ Next1(r) = Rec(j)
      BY <1>1, <2>2, <3>1, <3>2
    <3> QED  BY <3>1, <3>3 DEF RunningIn
  <2>3. ASSUME NEW w \in taken
        PROVE  Begun(w) \in R2
    <3> DEFINE j == Placed(w)
    <3>1. /\ j \in placed /\ j.pool = p /\ j.start = clock'
          /\ w = [id |-> j.id, service |-> j.finish - j.start] /\ server[w] = j.slot
      BY <1>6, <2>3
    <3> HIDE DEF j, server
    <3>2. j.start <= clock' /\ clock' < j.finish
      BY <1>1, <3>1, BookingTypes
    <3>3. Begun(w) = Rec(j)
      BY <3>1
    <3> QED  BY <3>1, <3>2, <3>3 DEF RunningIn
  <2> HIDE DEF R, R2, taken, Begun
  <2> QED  BY <2>1, <2>2, <2>3
<1>11. ASSUME NEW q \in R2, NEW r \in R2, q.server = r.server
       PROVE  q = r
  <2>1. PICK i \in placed : /\ i.pool = p /\ i.start <= clock' /\ clock' < i.finish
                            /\ q = [id |-> i.id, server |-> i.slot, left |-> i.finish - clock']
    BY <1>11 DEF RunningIn
  <2>2. PICK j \in placed : /\ j.pool = p /\ j.start <= clock' /\ clock' < j.finish
                            /\ r = [id |-> j.id, server |-> j.slot, left |-> j.finish - clock']
    BY <1>11 DEF RunningIn
  <2>3. i.slot = j.slot
    BY <1>11, <2>1, <2>2
  <2>4. ~(i.finish <= j.start) /\ ~(j.finish <= i.start)
    BY <1>1, <2>1, <2>2, BookingTypes
  <2>5. i = j
    BY <2>1, <2>2, <2>3, <2>4 DEF Bookings, SlotExclusive
  <2> QED  BY <2>1, <2>2, <2>5
<1>12. ASSUME W2 # {}, NEW s \in SlotIds(p)
       PROVE  \E r \in R2 : r.server = s
  <2>1. PICK j \in placed : j.pool = p /\ clock' < j.start
    BY <1>12 DEF WaitingIn
  <2>2. slots[p][s] \in Nat /\ j.start \in Nat
    BY <1>12, BookingTypes DEF Bookings, TypeOK
  <2>3. ~(j.start <= clock)
    BY <1>1, <2>1, <2>2
  <2>4. j.start <= slots[p][s]
    BY <1>12, <2>1, <2>3 DEF Bookings, StartedByClock
  <2>5. clock' \in Nat /\ clock <= clock' /\ clock' < slots[p][s]
    BY <1>1, <2>1, <2>2, <2>4
  <2> QED  BY <1>12, <2>5, BookedIsBusy
<1>13. /\ WaitingAt(p) = W /\ RunningAt(p) = R /\ WaitingAt(p)' = W2 /\ RunningAt(p)' = R2
  BY <1>1, QueueAt
<1>14. Queues!Continued(p) = {Next1(r) : r \in {r \in R : r.left > 1}}
  <2>1. \A r \in R : [r EXCEPT !.left = r.left - 1] = Next1(r)
    BY DEF RunningIn
  <2>2. [q \in Pools |-> RunningAt(q)][p] = R
    BY <1>13
  <2> HIDE DEF R, Next1
  <2>3. Queues!Continued(p) = {[r EXCEPT !.left = r.left - 1] : r \in {r \in R : r.left > 1}}
    BY <2>2 DEF Queues!Continued
  <2> QED  BY <2>1, <2>3
<1> HIDE DEF W, W2, R, R2
<1>15. Queues!TickAt(p)
  <2>1. \A w \in taken : Queues!Run(w, server[w]) = Begun(w)
    BY DEF Queues!Run
  <2>2. R2 = Queues!Continued(p) \cup {Queues!Run(w, server[w]) : w \in taken}
    <3> HIDE DEF Begun, Next1, server, taken
    <3> QED  BY <1>10, <1>14, <2>1
  <2> HIDE DEF server, Placed
  <2> QED  BY <1>4, <1>8, <1>9, <1>11, <1>12, <1>13, <2>2 DEF Queues!TickAt, Queues!Busy
<1> QED  BY <1>2, <1>3, <1>15 DEF W2, R2

\* A tick of the clock is a tick of every queue.
LEMMA TickIsQueueTick ==
    ASSUME Bookings, Tick
    PROVE  Queues!Tick
<1> DEFINE waiting == [p \in Pools |-> WaitingAt(p)]
           running == [p \in Pools |-> RunningAt(p)]
<1>1. ASSUME NEW p \in Pools
      PROVE  WaitingAt(p)' \in SUBSET Queues!Waiting /\ RunningAt(p)' \subseteq Queues!Running(p)
  <2>1. placed' = placed
    BY DEF Tick, vars
  <2>2. /\ WaitingAt(p)' \subseteq [id : 0 .. MaxRequests, service : ServiceTimes]
        /\ RunningAt(p)' \subseteq [id : 0 .. MaxRequests, server : SlotIds(p), left : Nat]
    BY <1>1, <2>1, QueueAt, TickRefines
  <2>3. [q \in Pools |-> SlotIds(q)][p] = SlotIds(p)
    BY <1>1
  <2> QED  BY <2>2, <2>3 DEF Queues!Waiting, Queues!Running
<1>2. waiting' \in [Pools -> SUBSET Queues!Waiting]
  BY <1>1
<1>3. \A p \in Pools : running'[p] \subseteq Queues!Running(p)
  BY <1>1
<1>4. \A p \in Pools : Queues!TickAt(p)
  BY TickRefines
<1> QED  BY <1>2, <1>3, <1>4 DEF Queues!Tick

\* What one booking j at the clock adds: a running request if it starts now,
\* a waiting one otherwise.
LEMMA BookingAdds ==
    ASSUME Bookings, NEW j, Booked(j), now' = clock, clock' = clock, NEW p
    PROVE  /\ WaitingAt(p)' = WaitingAt(p) \cup
                (IF p = j.pool /\ j.start # clock
                 THEN {[id |-> j.id, service |-> j.finish - j.start]} ELSE {})
           /\ RunningAt(p)' = RunningAt(p) \cup
                (IF p = j.pool /\ j.start = clock
                 THEN {[id |-> j.id, server |-> j.slot, left |-> j.finish - j.start]} ELSE {})
<1>1. /\ TypeOK /\ clock \in Nat
      /\ j.start \in Nat /\ j.finish \in Nat /\ j.start < j.finish
  BY DEF Bookings, InStep, Booked, Placement
<1>2. placed' = placed \cup {j} /\ clock <= j.start
  BY <1>1, BookEffect, BookedStart
<1> DEFINE Wait(i) == [id |-> i.id, service |-> i.finish - i.start]
           Run(i) == [id |-> i.id, server |-> i.slot, left |-> i.finish - clock]
<1>3. /\ \A x : x \in WaitingAt(p) <=>
                  \E i \in placed : i.pool = p /\ clock < i.start /\ x = Wait(i)
      /\ \A x : x \in WaitingAt(p)' <=>
                  \E i \in placed \cup {j} : i.pool = p /\ clock < i.start /\ x = Wait(i)
  BY <1>2, QueueAt DEF WaitingIn
<1>4. /\ \A x : x \in RunningAt(p) <=>
                  \E i \in placed : i.pool = p /\ i.start <= clock /\ clock < i.finish /\ x = Run(i)
      /\ \A x : x \in RunningAt(p)' <=>
                  \E i \in placed \cup {j} :
                     i.pool = p /\ i.start <= clock /\ clock < i.finish /\ x = Run(i)
  BY <1>2, QueueAt DEF RunningIn
<1>5. /\ clock < j.start <=> j.start # clock
      /\ (j.start <= clock /\ clock < j.finish) <=> j.start = clock
  BY <1>1, <1>2
<1>6. \A x : x \in WaitingAt(p)' <=>
               x \in WaitingAt(p) \/ (j.pool = p /\ j.start # clock /\ x = Wait(j))
  <2> HIDE DEF Wait
  <2> QED  BY <1>3, <1>5
<1>7. \A x : x \in RunningAt(p)' <=>
               x \in RunningAt(p) \/ (j.pool = p /\ j.start = clock /\ x = Run(j))
  <2> HIDE DEF Run
  <2> QED  BY <1>4, <1>5
<1>8. j.start = clock => Run(j) = [id |-> j.id, server |-> j.slot, left |-> j.finish - j.start]
  OBVIOUS
<1>9. WaitingAt(p)' = WaitingAt(p) \cup
         (IF p = j.pool /\ j.start # clock THEN {Wait(j)} ELSE {})
  <2> HIDE DEF Wait
  <2> QED  BY <1>6
<1>10. RunningAt(p)' = RunningAt(p) \cup
          (IF p = j.pool /\ j.start = clock THEN {Run(j)} ELSE {})
  <2> HIDE DEF Run
  <2> QED  BY <1>7
<1> QED  BY <1>8, <1>9, <1>10

\* A request booked at the clock is submitted to the queue of its pool: it
\* runs at once on its slot, which is free, or waits, and every slot is busy.
LEMMA BookingIsSubmit ==
    ASSUME Bookings, arrived < MaxRequests, NEW j, Booked(j), now' = clock, clock' = clock
    PROVE  Queues!Submit(j.pool)
<1> DEFINE p == j.pool
           w == [id |-> j.id, service |-> j.finish - j.start]
           r == [id |-> j.id, server |-> j.slot, left |-> j.finish - j.start]
           waiting == [q \in Pools |-> WaitingAt(q)]
           running == [q \in Pools |-> RunningAt(q)]
<1>1. /\ TypeOK /\ clock \in Nat /\ p \in Pools /\ j.id = arrived
      /\ j.start \in Nat /\ j.finish \in Nat /\ j.finish - j.start \in ServiceTimes
  BY DEF Bookings, InStep, Booked, Placement
<1>2. j.slot \in SlotIds(p) /\ slots[p][j.slot] <= j.start /\ slots[p][j.slot] \in Nat
  BY <1>1, BookEffect
<1>3. w \in Queues!Waiting
  <2>1. j.id \in 0 .. MaxRequests
    BY <1>1, ControlPlaneAssumption DEF TypeOK
  <2> QED  BY <1>1, <2>1 DEF Queues!Waiting
<1>4. \A v \in waiting[p] : v.id < w.id
  <2> SUFFICES ASSUME NEW v \in WaitingAt(p)
               PROVE  v.id < j.id
    BY <1>1
  <2>1. PICK i \in placed : v = [id |-> i.id, service |-> i.finish - i.start]
    BY QueueAt DEF WaitingIn
  <2> QED  BY <1>1, <2>1, BookingTypes
<1>5. CASE j.start = clock
  <2>1. \A q \in Pools : WaitingAt(q)' = WaitingAt(q)
    BY <1>5, BookingAdds
  <2>2. \A q \in Pools : RunningAt(q)' = IF q = p THEN RunningAt(q) \cup {r} ELSE RunningAt(q)
    BY <1>5, BookingAdds
  <2>3. \A x \in RunningAt(p) : x.server # j.slot
    <3> SUFFICES ASSUME NEW x \in RunningAt(p), x.server = j.slot
                 PROVE  FALSE
      OBVIOUS
    <3>1. PICK i \in placed : /\ i.pool = p /\ clock < i.finish
                              /\ x = [id |-> i.id, server |-> i.slot, left |-> i.finish - clock]
      BY QueueAt DEF RunningIn
    <3>2. i.finish <= slots[p][j.slot] /\ i.finish \in Nat
      BY <3>1, BookingTypes
    <3> QED  BY <1>1, <1>2, <1>5, <3>1, <3>2
  <2> HIDE DEF p, r
  <2>4. waiting' = waiting
    BY <2>1
  <2>5. running' = [running EXCEPT ![p] = @ \cup {r}]
    BY <1>1, <2>2
  <2>6. Queues!Run(w, j.slot) = r
    BY DEF Queues!Run, r
  <2>7. ~Queues!Busy(p, j.slot)
    BY <1>1, <2>3 DEF Queues!Busy
  <2>8. j.slot \in [q \in Pools |-> SlotIds(q)][p]
    BY <1>1, <1>2
  <2>9. Queues!Start(p, w)
    <3> HIDE DEF w
    <3> QED  BY <2>4, <2>5, <2>6, <2>7, <2>8 DEF Queues!Start
  <2> HIDE DEF w
  <2>10. Queues!Submit(p)
    BY <1>3, <1>4, <2>9 DEF Queues!Submit
  <2> QED  BY <2>10 DEF p
<1>6. CASE j.start # clock
  <2>1. \A q \in Pools : RunningAt(q)' = RunningAt(q)
    BY <1>6, BookingAdds
  <2>2. \A q \in Pools : WaitingAt(q)' = IF q = p THEN WaitingAt(q) \cup {w} ELSE WaitingAt(q)
    BY <1>6, BookingAdds
  <2>3. ASSUME NEW s \in SlotIds(p)
        PROVE  \E x \in RunningAt(p) : x.server = s
    <3>1. clock < j.start /\ j.start <= slots[p][s] /\ slots[p][s] \in Nat
      BY <1>1, <1>6, <2>3, BookedStart, BookEffect
    <3>2. clock <= clock /\ clock < slots[p][s]
      BY <1>1, <3>1
    <3> QED  BY <1>1, <2>3, <3>2, BookedIsBusy, QueueAt
  <2> HIDE DEF p, w
  <2>4. running' = running
    BY <2>1
  <2>5. waiting' = [waiting EXCEPT ![p] = @ \cup {w}]
    BY <1>1, <2>2
  <2>6. \A s \in [q \in Pools |-> SlotIds(q)][p] : Queues!Busy(p, s)
    BY <1>1, <2>3 DEF Queues!Busy
  <2>7. Queues!Wait(p, w)
    BY <2>4, <2>5, <2>6 DEF Queues!Wait
  <2>8. Queues!Submit(p)
    BY <1>3, <1>4, <2>7 DEF Queues!Submit
  <2> QED  BY <2>8 DEF p
<1> QED  BY <1>5, <1>6

\* At every instant a pool runs and keeps waiting exactly the requests that a
\* first-come-first-served queue with one server per slot would: the bookings
\* that place_request makes ahead of time implement PoolQueues.
THEOREM BookingsAreQueues == TimedSpec => ImplementsQueues
<1>1. TimedInit => Queues!Init
  <2> SUFFICES ASSUME TimedInit
               PROVE  Queues!Init
    OBVIOUS
  <2>1. \A p \in Pools : WaitingAt(p) = {} /\ RunningAt(p) = {}
    BY QueueAt DEF TimedInit, Init, WaitingIn, RunningIn
  <2> QED  BY <2>1 DEF Queues!Init
<1>2. Bookings /\ [TimedNext]_timedVars => [Queues!Next]_Queues!vars
  <2> SUFFICES ASSUME Bookings, [TimedNext]_timedVars
               PROVE  [Queues!Next]_Queues!vars
    OBVIOUS
  <2>1. CASE UNCHANGED <<placed, clock>>
    <3>1. \A p \in Pools : WaitingAt(p)' = WaitingAt(p) /\ RunningAt(p)' = RunningAt(p)
      BY <2>1, QueueAt
    <3> QED  BY <3>1 DEF Queues!vars
  <2>2. CASE Tick
    BY <2>2, TickIsQueueTick DEF Queues!Next
  <2>3. CASE Arrival
    <3>1. Next /\ now' = clock /\ clock' = clock
      BY <2>3, ArrivalIsNext
    <3>2. arrived < MaxRequests
      BY <3>1 DEF Next, Iteration, Admit, AdmitRaises, Reject, RouteRaises, Arrive
    <3>3. ASSUME NEW j, Booked(j)
          PROVE  Queues!Next
      <4>1. j.pool \in Pools
        BY <3>3 DEF Booked, Placement
      <4> QED  BY <3>1, <3>2, <3>3, <4>1, BookingIsSubmit DEF Queues!Next
    <3>4. UNCHANGED placed \/ \E j : Booked(j)
      BY <3>1, StepShape DEF Bookings
    <3> QED  BY <2>1, <3>1, <3>3, <3>4
  <2> QED  BY <2>1, <2>2, <2>3 DEF TimedNext, timedVars, vars
<1>3. TypeOK /\ IdsUsed /\ (arrived <= MaxRequests /\ IsFiniteSet(placed) /\ Cardinality(placed) <= arrived)
      /\ (SlotsCoverPlacements /\ SlotExclusive)
      /\ (InStep /\ StartedByClock /\ BusyFromClock /\ InOrder /\ Offered) => Bookings
  BY DEF Bookings
<1> QED  BY <1>1, <1>2, <1>3, TimedImplementsSpec, TypeCorrect, IdsAlwaysUsed, PlacedAreFew,
            BookingsAlwaysDisjoint, TimedInvariant, PTL DEF TimedSpec, ImplementsQueues, Queues!Spec
=============================================================================
