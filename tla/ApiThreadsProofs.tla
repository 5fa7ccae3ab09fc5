-------------------------- MODULE ApiThreadsProofs --------------------------
(***************************************************************************)
(* Theorems about the threads of the API, for any number of handlers,      *)
(* keys, tenants and pools, and whatever simulations mirror.               *)
(***************************************************************************)
EXTENDS ApiThreads, FiniteSetTheorems, TLAPS

(* Where a handler may be, and what a step changes. *)

\* Where a handler of /v1/route is.
Loading == {"evict", "sum", "submit", "create"}
Scoring == {"score", "score_evict", "fetch", "hydrate", "read"}
Routing == Loading \cup Scoring \cup {"penalty"}

\* Where a handler of /v1/cache is.
Caching == {"evict_all", "sum_all"}

Labels == Ended \cup Routing \cup Caching \cup {"new"}

\* The functions of the state, as functions only: what the frame of a step
\* needs.
Shaped ==
    /\ entries \in [Keys -> SUBSET Entry] /\ redis \in [Keys -> Buckets \cup {{}}]
    /\ stats \in [Tenants -> Nat] /\ noted \in [Tenants -> Nat]
    /\ pc \in [Handlers -> Labels]
    /\ req \in [Handlers -> [key : Keys \cup {"none"}, now : Times \cup {0}]]
    /\ pool \in [Handlers -> Pools] /\ hits \in [Handlers -> SUBSET Pools]
    /\ todo \in [Handlers -> SUBSET [key : Keys, bucket : SUBSET Entry]]
    /\ iter \in [Handlers -> Nat]
    /\ fetched \in [Handlers -> Buckets \cup {{}}]
    /\ raced \subseteq Handlers /\ collided \subseteq Tenants
    /\ versions \in [Keys -> SUBSET (Buckets \cup {{}})] /\ writes \in Nat

LEMMA TypeIsShaped == TypeOK <=> Shaped
BY DEF TypeOK, Shaped, Labels, Routing, Loading, Scoring, Caching, Evicting, Ended

\* What a handler is at tells what it was asked: a key, or the whole cache.
Asked ==
    \A h \in Handlers : /\ pc[h] \in Routing => req[h].key \in Keys
                        /\ pc[h] \in Caching => req[h].key = "none"
                        /\ pc[h] = "new" => req[h] = NoRequest

LEMMA BucketTypes ==
    /\ \A b \in Buckets \cup {{}} : b \in SUBSET Entry
    /\ \A e \in Entry : e.last_touched \in Nat
    /\ \A t \in Times \cup {0} : t \in Nat
<1>1. \A b \in Buckets : b \subseteq [pool : Pools, last_touched : Nat]
  BY ApiAssumption
<1>2. Times \subseteq Nat
  BY ApiAssumption
<1> QED  BY <1>1, <1>2 DEF Entry

LEMMA ItemsType ==
    ASSUME Shaped
    PROVE  Items \in SUBSET [key : Keys, bucket : SUBSET Entry]
BY DEF Items, Shaped

LEMMA SizeType ==
    ASSUME NEW dict, IsFiniteSet(DOMAIN dict), NEW absent
    PROVE  Size(dict, absent) \in Nat
BY FS_Subset, FS_CardinalityType DEF Size

\* A handler that starts.
LEMMA StartTypes ==
    ASSUME Shaped, Asked, NEW h \in Handlers, NEW to, NEW r, Start(h, to, r),
           \/ to = "evict" /\ r \in [key : Keys, now : Times]
           \/ to = "evict_all" /\ r = NoRequest
    PROVE  Shaped' /\ Asked'
<1>1. r \in [key : Keys \cup {"none"}, now : Times \cup {0}] /\ to \in Labels
  BY DEF NoRequest, Labels, Routing, Loading, Caching
<1>2. /\ pc' = [pc EXCEPT ![h] = to] /\ req' = [req EXCEPT ![h] = r]
      /\ todo' = [todo EXCEPT ![h] = Items]
      /\ UNCHANGED <<shared, pool, iter, fetched, hits, noted, collided, versions, writes>>
  BY DEF Start, Goto
<1>3. raced' \subseteq Handlers
  BY DEF Start, Shaped
<1>4. /\ pc' \in [Handlers -> Labels]
      /\ req' \in [Handlers -> [key : Keys \cup {"none"}, now : Times \cup {0}]]
      /\ todo' \in [Handlers -> SUBSET [key : Keys, bucket : SUBSET Entry]]
  BY <1>1, <1>2, ItemsType DEF Shaped
<1>5. Shaped'
  BY <1>2, <1>3, <1>4 DEF Shaped, shared
<1>6. \A g \in Handlers : /\ pc'[g] = IF g = h THEN to ELSE pc[g]
                          /\ req'[g] = IF g = h THEN r ELSE req[g]
  BY <1>2 DEF Shaped
<1>7. /\ to \in Routing => r.key \in Keys
      /\ to \in Caching => r.key = "none"
      /\ to # "new"
  BY DEF NoRequest, Routing, Loading, Scoring, Caching
<1>8. Asked'
  BY <1>6, <1>7 DEF Asked
<1> QED  BY <1>5, <1>8

-----------------------------------------------------------------------------
(* One step of a handler. *)

\* What step h of a handler leaves alone.
StepFrame(h) ==
    /\ pc' = [pc EXCEPT ![h] = pc'[h]]
    /\ pool' = [pool EXCEPT ![h] = pool'[h]]
    /\ todo' = [todo EXCEPT ![h] = todo'[h]]
    /\ iter' = [iter EXCEPT ![h] = iter'[h]]
    /\ fetched' = [fetched EXCEPT ![h] = fetched'[h]]
    /\ hits' = [hits EXCEPT ![h] = hits'[h]]
    /\ UNCHANGED <<req, redis, raced, versions, writes>>

LEMMA StepFrames ==
    ASSUME Shaped, NEW h \in Handlers, Step(h)
    PROVE  StepFrame(h)
<1> USE DEF Step, Goto, local, shared, history, Iterate, EndOfIteration, Shaped
<1>1. pc' = [pc EXCEPT ![h] = pc'[h]]
  BY DEF EvictItem, EvictRaises, BeginSum, Sum, NextReserve, SumRaises, NoteSubmission,
         MissTenant, CreateTenant, BeginScore, LookUp, Fetch, FetchRaises, Hydrate, Read, Penalty,
         PenaltyRaises
<1>2. pool' = [pool EXCEPT ![h] = pool'[h]] /\ todo' = [todo EXCEPT ![h] = todo'[h]]
  BY DEF EvictItem, EvictRaises, BeginSum, Sum, NextReserve, SumRaises, NoteSubmission,
         MissTenant, CreateTenant, BeginScore, LookUp, Fetch, FetchRaises, Hydrate, Read, Penalty,
         PenaltyRaises
<1>3. iter' = [iter EXCEPT ![h] = iter'[h]] /\ fetched' = [fetched EXCEPT ![h] = fetched'[h]]
  BY DEF EvictItem, EvictRaises, BeginSum, Sum, NextReserve, SumRaises, NoteSubmission,
         MissTenant, CreateTenant, BeginScore, LookUp, Fetch, FetchRaises, Hydrate, Read, Penalty,
         PenaltyRaises
<1>4. hits' = [hits EXCEPT ![h] = hits'[h]]
  BY DEF EvictItem, EvictRaises, BeginSum, Sum, NextReserve, SumRaises, NoteSubmission,
         MissTenant, CreateTenant, BeginScore, LookUp, Fetch, FetchRaises, Hydrate, Read, Penalty,
         PenaltyRaises
<1>5. UNCHANGED <<req, redis, raced, versions, writes>>
  BY DEF EvictItem, EvictRaises, BeginSum, Sum, NextReserve, SumRaises, NoteSubmission,
         MissTenant, CreateTenant, BeginScore, LookUp, Fetch, FetchRaises, Hydrate, Read, Penalty,
         PenaltyRaises
<1> QED  BY <1>1, <1>2, <1>3, <1>4, <1>5 DEF StepFrame

\* How a step of a handler changes the directory and the tenant records.
Writes(h) ==
    \/ UNCHANGED <<entries, stats, noted, collided>>
    \/ EvictItem(h) /\ UNCHANGED <<stats, noted, collided>>
    \/ Hydrate(h) /\ UNCHANGED <<stats, noted, collided>>
    \/ (NoteSubmission(h) \/ CreateTenant(h)) /\ UNCHANGED entries

LEMMA StepWrites ==
    ASSUME NEW h \in Handlers, Step(h)
    PROVE  Writes(h)
BY DEF Step, Writes, shared, history, EvictItem, EvictRaises, BeginSum, Sum, SumRaises,
       NoteSubmission, MissTenant, CreateTenant, BeginScore, LookUp, Fetch, FetchRaises, Hydrate,
       Read, Penalty, PenaltyRaises

\* Where a step takes a handler.
LEMMA StepLabels ==
    ASSUME Shaped, NEW h \in Handlers, Step(h)
    PROVE  /\ pc[h] \notin Ended \cup {"new"} /\ pc'[h] \in Labels \ {"new"}
           /\ pc'[h] \in Routing => pc[h] \in Routing
           /\ pc'[h] \in Caching => pc[h] \in Caching
BY DEF Step, Shaped, Goto, Labels, Routing, Loading, Scoring, Caching, Ended, Evicting, local,
       EvictItem, EvictRaises, BeginSum, Sum, NextReserve, SumRaises, NoteSubmission,
       MissTenant, CreateTenant, BeginScore, LookUp, Fetch, FetchRaises, Hydrate, Read, Penalty,
       PenaltyRaises

\* The tenant of a handler that notes a submission.
LEMMA TenantType ==
    ASSUME Shaped, Asked, NEW h \in Handlers, pc[h] \in Routing
    PROVE  req[h].key \in Keys /\ TenantIn(h) \in Tenants
BY ApiAssumption DEF Asked, TenantIn

LEMMA FiniteDicts ==
    ASSUME Shaped
    PROVE  Size(entries, {}) \in Nat /\ Size(stats, 0) \in Nat
<1>1. DOMAIN entries = Keys /\ DOMAIN stats = Tenants
  BY DEF Shaped
<1> QED  BY <1>1, ApiAssumption, SizeType

LEMMA StepTypes ==
    ASSUME Shaped, Asked, NEW h \in Handlers, Step(h)
    PROVE  Shaped' /\ Asked'
<1>1. StepFrame(h) /\ Writes(h)
  BY StepFrames, StepWrites
<1>2. pc[h] \in Labels /\ req[h].now \in Times \cup {0} /\ Pools \subseteq Nat /\ PoolCount \in Pools
  BY ApiAssumption DEF Shaped, Pools
<1>3. ASSUME NEW b \in SUBSET Entry, NEW now PROVE Survivors(b, now) \in SUBSET Entry
  BY DEF Survivors
<1>4. entries' \in [Keys -> SUBSET Entry]
  <2>1. CASE UNCHANGED entries
    BY <2>1 DEF Shaped
  <2>2. CASE EvictItem(h)
    <3>1. PICK i \in todo[h] :
              entries' = [entries EXCEPT ![i.key] = Survivors(i.bucket, req[h].now)]
      BY <2>2 DEF EvictItem
    <3>2. i.key \in Keys /\ i.bucket \in SUBSET Entry
      BY DEF Shaped
    <3> QED  BY <1>3, <3>1, <3>2 DEF Shaped
  <2>3. CASE Hydrate(h)
    <3>1. entries' = [entries EXCEPT ![req[h].key] = Hydrated(@, fetched[h])]
      BY <2>3 DEF Hydrate
    <3>2. fetched[h] \in SUBSET Entry
      BY BucketTypes DEF Shaped
    <3>3. \A b \in SUBSET Entry : Hydrated(b, fetched[h]) \in SUBSET Entry
      BY <3>2 DEF Hydrated
    <3> QED  BY <3>1, <3>3 DEF Shaped
  <2> QED  BY <1>1, <2>1, <2>2, <2>3 DEF Writes
<1>5. /\ stats' \in [Tenants -> Nat] /\ noted' \in [Tenants -> Nat] /\ collided' \subseteq Tenants
  <2>1. CASE UNCHANGED <<stats, noted, collided>>
    BY <2>1 DEF Shaped
  <2>2. CASE NoteSubmission(h) \/ CreateTenant(h)
    <3>1. TenantIn(h) \in Tenants
      BY <2>2, TenantType DEF NoteSubmission, CreateTenant, Goto, Routing, Loading
    <3>2. noted' = [noted EXCEPT ![TenantIn(h)] = @ + 1] /\ collided' \subseteq Tenants
      BY <2>2, <3>1 DEF NoteSubmission, CreateTenant, Note, Collide, Shaped
    <3>3. \E n \in Nat : stats' = [stats EXCEPT ![TenantIn(h)] = n]
      <4>1. CASE NoteSubmission(h)
        <5>1. stats' = [stats EXCEPT ![TenantIn(h)] = stats[TenantIn(h)] + 1]
          BY <4>1 DEF NoteSubmission
        <5>2. stats[TenantIn(h)] + 1 \in Nat
          BY <3>1 DEF Shaped
        <5> QED  BY <5>1, <5>2
      <4>2. CASE CreateTenant(h)
        BY <4>2 DEF CreateTenant, NewRecord
      <4> QED  BY <2>2, <4>1, <4>2
    <3> QED  BY <3>1, <3>2, <3>3 DEF Shaped
  <2> QED  BY <1>1, <2>1, <2>2 DEF Writes
<1>6. pool'[h] \in Pools
  <2>1. pool[h] \in Pools /\ 1 \in Pools /\ (pool[h] # PoolCount => pool[h] + 1 \in Pools)
    <3>1. pool[h] \in Pools
      BY DEF Shaped
    <3> QED  BY <3>1, ApiAssumption DEF Pools
  <2> QED  BY <2>1 DEF Step, Shaped, local, LastPool,
         EvictItem, EvictRaises, BeginSum, Sum, NextReserve, SumRaises, NoteSubmission,
         MissTenant, CreateTenant, BeginScore, LookUp, Fetch, FetchRaises, Hydrate, Read, Penalty,
         PenaltyRaises
<1>7. todo'[h] \in SUBSET [key : Keys, bucket : SUBSET Entry]
  <2> DEFINE T == SUBSET [key : Keys, bucket : SUBSET Entry]
  <2>1. todo[h] \in T /\ Items \in T
    BY ItemsType DEF Shaped
  <2>2. todo'[h] = todo[h] \/ todo'[h] = Items \/ \E i : todo'[h] = todo[h] \ {i}
    <3>1. CASE EvictItem(h)
      <4>1. PICK i \in todo[h] : todo' = [todo EXCEPT ![h] = todo[h] \ {i}]
        BY <3>1 DEF EvictItem
      <4>2. todo'[h] = todo[h] \ {i}
        BY <4>1 DEF Shaped
      <4> QED  BY <4>2
    <3>2. CASE Sum(h)
      BY <3>2 DEF Sum, NextReserve, Shaped
    <3>3. CASE BeginScore(h)
      BY <3>3 DEF BeginScore, Shaped
    <3>4. CASE NoteSubmission(h) \/ MissTenant(h) \/ CreateTenant(h)
      BY <3>4 DEF NoteSubmission, MissTenant, CreateTenant, local
    <3>5. CASE EvictRaises(h) \/ BeginSum(h) \/ SumRaises(h) \/ PenaltyRaises(h)
      BY <3>5 DEF EvictRaises, BeginSum, SumRaises, PenaltyRaises, local
    <3>6. CASE LookUp(h) \/ Fetch(h) \/ FetchRaises(h) \/ Hydrate(h)
      BY <3>6 DEF LookUp, Fetch, FetchRaises, Hydrate, local
    <3>7. CASE Read(h) \/ Penalty(h)
      BY <3>7 DEF Read, Penalty
    <3> QED  BY <3>1, <3>2, <3>3, <3>4, <3>5, <3>6, <3>7 DEF Step
  <2> QED  BY <2>1, <2>2
<1>8. iter'[h] \in Nat
  BY FiniteDicts DEF Step, Shaped, local, Iterate, EndOfIteration,
         EvictItem, EvictRaises, BeginSum, Sum, SumRaises, NoteSubmission,
         MissTenant, CreateTenant, BeginScore, LookUp, Fetch, FetchRaises, Hydrate, Read, Penalty,
         PenaltyRaises
<1>9. fetched'[h] \in Buckets \cup {{}}
  <2>1. CASE Fetch(h)
    <3>1. req[h].key \in Keys
      BY <2>1, TenantType DEF Fetch, Goto, Routing, Scoring
    <3> QED  BY <2>1, <3>1 DEF Fetch, Shaped
  <2>2. CASE ~Fetch(h)
    <3>1. fetched'[h] = fetched[h] \/ fetched'[h] = {}
      BY <2>2 DEF Step, Shaped, local,
         EvictItem, EvictRaises, BeginSum, Sum, SumRaises, NoteSubmission,
         MissTenant, CreateTenant, BeginScore, LookUp, FetchRaises, Hydrate, Read, Penalty,
         PenaltyRaises
    <3> QED  BY <3>1 DEF Shaped
  <2> QED  BY <2>1, <2>2
<1>10. hits'[h] \in SUBSET Pools
  <2>1. hits'[h] = hits[h] \/ hits'[h] = hits[h] \cup {pool[h]}
    BY DEF Step, Shaped, local,
         EvictItem, EvictRaises, BeginSum, Sum, SumRaises, NoteSubmission,
         MissTenant, CreateTenant, BeginScore, LookUp, Fetch, FetchRaises, Hydrate, Read, Penalty,
         PenaltyRaises
  <2> QED  BY <2>1 DEF Shaped
<1>11. pc'[h] \in Labels
  BY StepLabels
<1>12. /\ pc' \in [Handlers -> Labels] /\ pool' \in [Handlers -> Pools]
       /\ todo' \in [Handlers -> SUBSET [key : Keys, bucket : SUBSET Entry]]
       /\ iter' \in [Handlers -> Nat] /\ fetched' \in [Handlers -> Buckets \cup {{}}]
       /\ hits' \in [Handlers -> SUBSET Pools]
  <2>1. pc' = [pc EXCEPT ![h] = pc'[h]] /\ pool' = [pool EXCEPT ![h] = pool'[h]]
    BY <1>1 DEF StepFrame
  <2>2. todo' = [todo EXCEPT ![h] = todo'[h]] /\ iter' = [iter EXCEPT ![h] = iter'[h]]
    BY <1>1 DEF StepFrame
  <2>3. fetched' = [fetched EXCEPT ![h] = fetched'[h]] /\ hits' = [hits EXCEPT ![h] = hits'[h]]
    BY <1>1 DEF StepFrame
  <2> QED  BY <1>6, <1>7, <1>8, <1>9, <1>10, <1>11, <2>1, <2>2, <2>3 DEF Shaped
<1>13. Shaped'
  BY <1>1, <1>4, <1>5, <1>12 DEF Shaped, StepFrame
<1>14. Asked'
  <2>1. \A g \in Handlers : g # h => pc'[g] = pc[g]
    BY <1>1 DEF StepFrame, Shaped
  <2>2. req' = req
    BY <1>1 DEF StepFrame
  <2> QED  BY <2>1, <2>2, StepLabels DEF Asked
<1> QED  BY <1>13, <1>14

LEMMA SimulationTypes ==
    ASSUME Shaped, Asked, NEW k \in Keys, NEW b \in Buckets, SimulationWrites(k, b)
    PROVE  Shaped' /\ Asked'
<1>1. /\ redis' = [redis EXCEPT ![k] = b] /\ versions' = [versions EXCEPT ![k] = @ \cup {b}]
      /\ writes' = writes + 1
      /\ UNCHANGED <<entries, stats, pc, req, pool, todo, iter, fetched, hits, raced, noted, collided>>
  BY DEF SimulationWrites, local
<1>2. /\ redis' \in [Keys -> Buckets \cup {{}}] /\ writes' \in Nat
      /\ versions' \in [Keys -> SUBSET (Buckets \cup {{}})]
  BY <1>1 DEF Shaped
<1>3. Shaped'
  BY <1>1, <1>2 DEF Shaped
<1> QED  BY <1>1, <1>3 DEF Asked

\* The kinds of steps there are.
LEMMA NextKinds ==
    ASSUME Next
    PROVE  \/ \E h \in Handlers :
                 \/ \E r \in [key : Keys, now : Times] : Start(h, "evict", r)
                 \/ Start(h, "evict_all", NoRequest)
                 \/ Step(h)
           \/ \E k \in Keys, b \in Buckets : SimulationWrites(k, b)
<1>1. \A h \in Handlers, k \in Keys, now \in Times :
          Route(h, k, now) => \E r \in [key : Keys, now : Times] : Start(h, "evict", r)
  <2> SUFFICES ASSUME NEW h \in Handlers, NEW k \in Keys, NEW now \in Times, Route(h, k, now)
               PROVE  \E r \in [key : Keys, now : Times] : Start(h, "evict", r)
    OBVIOUS
  <2>1. Start(h, "evict", [key |-> k, now |-> now])
    BY DEF Route
  <2> QED  BY <2>1
<1> QED  BY <1>1 DEF Next, Cache

\* The directory, the tenant records and what the handlers remember stay well
\* typed; a handler asks for a key exactly where it came by /v1/route.
LEMMA AlwaysShaped == Spec => [](Shaped /\ Asked)
<1>1. Init => Shaped /\ Asked
  <2> SUFFICES ASSUME Init PROVE Shaped /\ Asked
    OBVIOUS
  <2>1. 1 \in Pools /\ NoRequest \in [key : Keys \cup {"none"}, now : Times \cup {0}]
    BY ApiAssumption DEF Pools, NoRequest
  <2>2. redis \in [Keys -> Buckets \cup {{}}] /\ versions = [k \in Keys |-> {redis[k]}]
    BY DEF Init
  <2>3. versions \in [Keys -> SUBSET (Buckets \cup {{}})]
    BY <2>2
  <2>4. Shaped
    BY <2>1, <2>3 DEF Init, Shaped, Labels
  <2>5. Asked
    BY DEF Init, Asked, Routing, Loading, Scoring, Caching
  <2> QED  BY <2>4, <2>5
<1>2. Shaped /\ Asked /\ [Next]_vars => (Shaped /\ Asked)'
  <2> SUFFICES ASSUME Shaped, Asked, [Next]_vars PROVE Shaped' /\ Asked'
    OBVIOUS
  <2>1. CASE UNCHANGED vars
    BY <2>1 DEF vars, shared, local, history, Shaped, Asked
  <2>2. CASE Next
    BY <2>2, NextKinds, StartTypes, StepTypes, SimulationTypes
  <2> QED  BY <2>1, <2>2
<1> QED  BY <1>1, <1>2, PTL DEF Spec

\* Every state of the API is well typed, for any number of threads.
THEOREM TypeCorrect == Spec => []TypeOK
<1>1. Shaped /\ Asked => TypeOK
  BY TypeIsShaped
<1> QED  BY <1>1, AlwaysShaped, PTL

-----------------------------------------------------------------------------
(* Submissions. *)

\* The strengthening of SubmissionsCounted: as long as no other handler has
\* noted a submission of its tenant, a record about to be created is the first.
CreatedIsFirst ==
    \A h \in Handlers : pc[h] = "create" /\ TenantIn(h) \notin collided => stats[TenantIn(h)] = 0

\* The submissions of every tenant are counted exactly, however many handlers
\* overlap and fail, unless one created the tenant's record while another
\* noted a submission of it.
THEOREM SubmissionsAreCounted == Spec => []SubmissionsCounted
<1> DEFINE Inv == CreatedIsFirst /\ SubmissionsCounted
<1>1. Init => Inv
  BY DEF Init, CreatedIsFirst, SubmissionsCounted
<1>2. Shaped /\ Asked /\ Inv /\ [Next]_vars => Inv'
  <2> SUFFICES ASSUME Shaped, Asked, Inv, [Next]_vars PROVE Inv'
    OBVIOUS
  <2>1. ASSUME UNCHANGED <<stats, noted, collided>>,
               \A g \in Handlers : pc'[g] = "create" =>
                   /\ req'[g] = req[g]
                   /\ pc[g] = "create" \/ stats[TenantIn(g)] = 0
        PROVE  Inv'
    BY <2>1 DEF CreatedIsFirst, SubmissionsCounted, TenantIn
  <2>2. CASE UNCHANGED vars
    BY <2>1, <2>2 DEF vars, shared, local, history
  <2>3. ASSUME NEW k, NEW b, SimulationWrites(k, b)
        PROVE  Inv'
    BY <2>1, <2>3 DEF SimulationWrites, local
  <2>4. ASSUME NEW h \in Handlers, NEW to \in {"evict", "evict_all"}, NEW r, Start(h, to, r)
        PROVE  Inv'
    BY <2>1, <2>4 DEF Start, Goto, shared, Shaped
  <2>5. ASSUME NEW h \in Handlers, Step(h)
        PROVE  Inv'
    <3>1. StepFrame(h) /\ Writes(h)
      BY <2>5, StepFrames, StepWrites
    <3>2. /\ req' = req
          /\ \A g \in Handlers : TenantIn(g)' = TenantIn(g)
          /\ \A g \in Handlers : g # h => pc'[g] = pc[g]
      BY <3>1 DEF StepFrame, Shaped, TenantIn
    <3>3. CASE UNCHANGED <<stats, noted, collided>>
      <4>1. pc'[h] = "create" => pc[h] = "create" \/ stats[TenantIn(h)] = 0
        BY <2>5 DEF Step, Shaped, Goto, local, Ended, Evicting,
            EvictItem, EvictRaises, BeginSum, Sum, NextReserve, SumRaises, NoteSubmission,
            MissTenant, CreateTenant, BeginScore, LookUp, Fetch, FetchRaises, Hydrate, Read,
            Penalty, PenaltyRaises
      <4> QED  BY <2>1, <3>2, <3>3, <4>1
    <3>4. CASE NoteSubmission(h) \/ CreateTenant(h)
      <4> DEFINE t == TenantIn(h)
      <4>1. pc[h] \in Routing /\ pc'[h] = "score"
        BY <3>4 DEF NoteSubmission, CreateTenant, Goto, Routing, Loading, Shaped
      <4>2. t \in Tenants
        BY <4>1, TenantType
      <4>3. /\ noted' = [noted EXCEPT ![t] = @ + 1]
            /\ collided' = collided \cup (IF Creating(h) THEN {t} ELSE {})
        BY <3>4 DEF NoteSubmission, CreateTenant, Note, Collide
      <4>4. /\ \A u \in Tenants : u # t => stats'[u] = stats[u] /\ noted'[u] = noted[u]
            /\ noted'[t] = noted[t] + 1
        BY <3>4, <4>2, <4>3 DEF NoteSubmission, CreateTenant, Shaped
      <4>5. t \notin collided' => stats'[t] = stats[t] + 1
        <5>1. CASE NoteSubmission(h)
          BY <4>2, <5>1 DEF NoteSubmission, Shaped
        <5>2. CASE CreateTenant(h)
          <6>1. stats'[t] = 1 /\ pc[h] = "create"
            BY <4>2, <5>2 DEF CreateTenant, Goto, NewRecord, Shaped
          <6> QED  BY <4>3, <6>1 DEF CreatedIsFirst
        <5> QED  BY <3>4, <5>1, <5>2
      <4>6. SubmissionsCounted'
        BY <4>3, <4>4, <4>5 DEF SubmissionsCounted
      <4>7. ASSUME NEW g \in Handlers, pc'[g] = "create", TenantIn(g) \notin collided'
            PROVE  stats'[TenantIn(g)] = 0
        <5>1. g # h /\ pc[g] = "create"
          BY <3>2, <4>1, <4>7
        <5>2. TenantIn(g) # t
          BY <4>3, <4>7, <5>1 DEF Creating
        <5>3. TenantIn(g) \in Tenants
          BY <5>1, TenantType DEF Routing, Loading
        <5> QED  BY <4>3, <4>4, <4>7, <5>1, <5>2, <5>3 DEF CreatedIsFirst
      <4>8. CreatedIsFirst'
        BY <3>2, <4>7 DEF CreatedIsFirst
      <4> QED  BY <4>6, <4>8
    <3> QED  BY <3>1, <3>3, <3>4 DEF Writes
  <2> QED  BY <2>2, <2>3, <2>4, <2>5, NextKinds
<1> QED  BY <1>1, <1>2, AlwaysShaped, PTL DEF Spec

-----------------------------------------------------------------------------
(* Failures. *)

\* The strengthening of LoneHandlersSucceed: handlers that are active together
\* have raced; the items that a handler alone has listed are in the directory,
\* one for each key, and the dictionary it iterates over keeps its size.
TogetherRaced ==
    \A g, h \in Handlers : g # h /\ Active(g) /\ Active(h) => g \in raced /\ h \in raced

AloneIn(h) ==
    /\ \A i, j \in todo[h] : i.key = j.key => i = j
    /\ pc[h] \in Evicting => \A i \in todo[h] : entries[i.key] # {}
    /\ pc[h] \in {"sum", "sum_all"} => iter[h] = Size(entries, {})
    /\ pc[h] = "penalty" => iter[h] = Size(stats, 0)

AloneUndisturbed == \A h \in Handlers \ raced : AloneIn(h)

LEMMA ItemsAreThere ==
    /\ \A i, j \in Items : i.key = j.key => i = j
    /\ \A i \in Items : entries[i.key] # {}
BY DEF Items

\* The step of a handler that is alone keeps its lists and sizes right, and
\* does not fail.
LEMMA AloneStep ==
    ASSUME Shaped, NEW h \in Handlers, AloneIn(h), Step(h)
    PROVE  AloneIn(h)' /\ pc'[h] # "raised"
<1> USE DEF Shaped, Goto
<1>1. CASE EvictItem(h)
  <2>1. PICK i \in todo[h] :
            /\ entries' = [entries EXCEPT ![i.key] = Survivors(i.bucket, req[h].now)]
            /\ todo' = [todo EXCEPT ![h] = @ \ {i}]
    BY <1>1 DEF EvictItem
  <2>2. pc' = pc /\ pc[h] \in Evicting /\ todo'[h] = todo[h] \ {i}
    BY <1>1, <2>1 DEF EvictItem
  <2>3. \A j \in todo'[h] : j.key \in Keys /\ j.key # i.key /\ entries'[j.key] = entries[j.key]
    BY <2>1, <2>2 DEF AloneIn
  <2> QED  BY <2>2, <2>3 DEF AloneIn, Evicting
<1>2. CASE EvictRaises(h) \/ SumRaises(h) \/ PenaltyRaises(h)
  BY <1>2 DEF EvictRaises, SumRaises, PenaltyRaises, AloneIn
<1>3. CASE BeginSum(h)
  BY <1>3 DEF BeginSum, Iterate, shared, AloneIn, Evicting
<1>4. CASE Sum(h)
  BY <1>4, ItemsAreThere DEF Sum, NextReserve, shared, AloneIn, Evicting
<1>5. CASE NoteSubmission(h) \/ MissTenant(h) \/ CreateTenant(h)
  BY <1>5 DEF NoteSubmission, MissTenant, CreateTenant, local, AloneIn, Evicting
<1>6. CASE BeginScore(h)
  BY <1>6, ItemsAreThere DEF BeginScore, shared, AloneIn, Evicting
<1>7. CASE LookUp(h) \/ Fetch(h) \/ FetchRaises(h) \/ Hydrate(h)
  BY <1>7 DEF LookUp, Fetch, FetchRaises, Hydrate, shared, local, AloneIn, Evicting
<1>8. CASE Read(h)
  BY <1>8 DEF Read, Iterate, shared, AloneIn, Evicting
<1>9. CASE Penalty(h)
  BY <1>9 DEF Penalty, shared, AloneIn, Evicting
<1> QED  BY <1>1, <1>2, <1>3, <1>4, <1>5, <1>6, <1>7, <1>8, <1>9 DEF Step

\* With any number of threads, a handler that fails in a loop of its own has
\* overlapped another.
THEOREM LoneHandlersNeverFail == Spec => []LoneHandlersSucceed
<1> DEFINE Inv == TogetherRaced /\ AloneUndisturbed /\ LoneHandlersSucceed
<1>1. Init => Inv
  BY DEF Init, TogetherRaced, AloneUndisturbed, AloneIn, LoneHandlersSucceed, Active, Ended, Evicting
<1>2. Shaped /\ Asked /\ Inv /\ [Next]_vars => Inv'
  <2> SUFFICES ASSUME Shaped, Asked, Inv, [Next]_vars PROVE Inv'
    OBVIOUS
  <2>1. ASSUME UNCHANGED <<entries, stats, pc, todo, iter, raced>>
        PROVE  Inv'
    BY <2>1 DEF TogetherRaced, AloneUndisturbed, AloneIn, LoneHandlersSucceed, Active
  <2>2. ASSUME NEW h \in Handlers, NEW to \in {"evict", "evict_all"}, NEW r, Start(h, to, r)
        PROVE  Inv'
    <3> DEFINE others == {g \in Handlers : Active(g)}
    <3>1. /\ pc[h] = "new" /\ UNCHANGED <<entries, stats, iter>>
          /\ raced' = raced \cup others \cup (IF others = {} THEN {} ELSE {h})
      BY <2>2 DEF Start, Goto, shared
    <3>2. /\ \A g \in Handlers : pc'[g] = IF g = h THEN to ELSE pc[g]
          /\ \A g \in Handlers : todo'[g] = IF g = h THEN Items ELSE todo[g]
      BY <2>2 DEF Start, Goto, Shaped
    <3>3. TogetherRaced'
      <4> SUFFICES ASSUME NEW g \in Handlers, NEW f \in Handlers, g # f, Active(g)', Active(f)'
                   PROVE  g \in raced' /\ f \in raced'
        BY DEF TogetherRaced
      <4>1. CASE g # h /\ f # h
        BY <3>1, <3>2, <4>1 DEF Active
      <4>2. CASE g = h
        BY <3>1, <3>2, <4>2 DEF Active
      <4>3. CASE f = h
        BY <3>1, <3>2, <4>3 DEF Active
      <4> QED  BY <4>1, <4>2, <4>3
    <3>4. AloneUndisturbed'
      <4> SUFFICES ASSUME NEW g \in Handlers, g \notin raced'
                   PROVE  AloneIn(g)'
        BY DEF AloneUndisturbed
      <4>1. AloneIn(g)
        BY <3>1 DEF AloneUndisturbed
      <4>2. CASE g = h
        BY <3>1, <3>2, <4>2, ItemsAreThere DEF AloneIn, Evicting
      <4>3. CASE g # h
        BY <3>1, <3>2, <4>1, <4>3 DEF AloneIn
      <4> QED  BY <4>2, <4>3
    <3>5. LoneHandlersSucceed'
      BY <3>1, <3>2 DEF LoneHandlersSucceed
    <3> QED  BY <3>3, <3>4, <3>5
  <2>3. ASSUME NEW h \in Handlers, Step(h)
        PROVE  Inv'
    <3>1. StepFrame(h) /\ Active(h)
      BY <2>3, StepFrames, StepLabels DEF Active
    <3>2. /\ raced' = raced
          /\ \A g \in Handlers : g # h =>
               pc'[g] = pc[g] /\ todo'[g] = todo[g] /\ iter'[g] = iter[g]
      BY <3>1 DEF StepFrame, Shaped
    <3>3. TogetherRaced'
      BY <3>1, <3>2 DEF TogetherRaced, Active
    <3>4. AloneUndisturbed'
      <4> SUFFICES ASSUME NEW g \in Handlers, g \notin raced
                   PROVE  AloneIn(g)'
        BY <3>2 DEF AloneUndisturbed
      <4>1. AloneIn(g)
        BY DEF AloneUndisturbed
      <4>2. CASE g = h
        BY <2>3, <4>1, <4>2, AloneStep
      <4>3. CASE g # h
        <5>1. ~Active(g)
          BY <3>1, <4>3 DEF TogetherRaced
        <5>2. pc'[g] \in Ended \cup {"new"}
          BY <3>2, <4>3, <5>1 DEF Active
        <5> QED  BY <3>2, <4>1, <4>3, <5>2 DEF AloneIn, Ended, Evicting
      <4> QED  BY <4>2, <4>3
    <3>5. LoneHandlersSucceed'
      BY <2>3, <3>2, AloneStep DEF LoneHandlersSucceed, AloneUndisturbed
    <3> QED  BY <3>3, <3>4, <3>5
  <2>4. CASE UNCHANGED vars \/ \E k \in Keys, b \in Buckets : SimulationWrites(k, b)
    BY <2>1, <2>4 DEF vars, shared, local, history, SimulationWrites
  <2> QED  BY <2>2, <2>3, <2>4, NextKinds
<1> QED  BY <1>1, <1>2, AlwaysShaped, PTL DEF Spec

-----------------------------------------------------------------------------
(* What the directory holds of a key. *)

\* How a step changes the buckets of the directory, of the lists and of the
\* answers of Redis: it moves a bucket on, or leaves survivors of it.
LEMMA BucketMoves ==
    ASSUME Shaped, Asked, NEW h \in Handlers, Step(h)
    PROVE  /\ \A k \in Keys :
                 \/ entries'[k] = entries[k]
                 \/ \E i \in todo[h] : /\ i.key = k
                                       /\ entries'[k] = Survivors(i.bucket, req[h].now)
                 \/ req[h].key = k /\ fetched[h] # {} /\ entries'[k] = fetched[h]
           /\ \A g \in Handlers : \A i \in todo'[g] :
                 i \in todo[g] \/ (i.key \in Keys /\ i.bucket = entries[i.key] /\ i.bucket # {})
           /\ \A g \in Handlers : \/ fetched'[g] = fetched[g] \/ fetched'[g] = {}
                                  \/ req[g].key \in Keys /\ fetched'[g] = redis[req[g].key]
<1>1. StepFrame(h) /\ Writes(h)
  BY StepFrames, StepWrites
<1>2. ASSUME NEW k \in Keys
      PROVE  \/ entries'[k] = entries[k]
             \/ \E i \in todo[h] : /\ i.key = k
                                   /\ entries'[k] = Survivors(i.bucket, req[h].now)
             \/ req[h].key = k /\ fetched[h] # {} /\ entries'[k] = fetched[h]
  <2>1. CASE UNCHANGED entries
    BY <2>1
  <2>2. CASE EvictItem(h)
    <3>1. PICK i \in todo[h] :
              entries' = [entries EXCEPT ![i.key] = Survivors(i.bucket, req[h].now)]
      BY <2>2 DEF EvictItem
    <3>2. entries'[k] = IF i.key = k THEN Survivors(i.bucket, req[h].now) ELSE entries[k]
      BY <1>2, <3>1 DEF Shaped
    <3> QED  BY <3>2
  <2>3. CASE Hydrate(h)
    <3>1. entries' = [entries EXCEPT ![req[h].key] = Hydrated(@, fetched[h])]
      BY <2>3 DEF Hydrate
    <3>2. entries'[k] = IF req[h].key = k THEN Hydrated(entries[k], fetched[h]) ELSE entries[k]
      BY <1>2, <3>1 DEF Shaped
    <3> QED  BY <3>2 DEF Hydrated
  <2> QED  BY <1>1, <2>1, <2>2, <2>3 DEF Writes
<1>3. ASSUME NEW g \in Handlers, NEW i \in todo'[g]
      PROVE  i \in todo[g] \/ (i.key \in Keys /\ i.bucket = entries[i.key] /\ i.bucket # {})
  <2>1. CASE g # h
    BY <1>1, <1>3, <2>1 DEF StepFrame, Shaped
  <2>2. todo'[h] \subseteq todo[h] \/ todo'[h] = Items
    BY DEF Step, Shaped, local,
         EvictItem, EvictRaises, BeginSum, Sum, NextReserve, SumRaises, NoteSubmission,
         MissTenant, CreateTenant, BeginScore, LookUp, Fetch, FetchRaises, Hydrate, Read, Penalty,
         PenaltyRaises
  <2>3. \A x \in Items : x.key \in Keys /\ x.bucket = entries[x.key] /\ x.bucket # {}
    BY DEF Items
  <2> QED  BY <1>3, <2>1, <2>2, <2>3
<1>4. ASSUME NEW g \in Handlers
      PROVE  \/ fetched'[g] = fetched[g] \/ fetched'[g] = {}
             \/ req[g].key \in Keys /\ fetched'[g] = redis[req[g].key]
  <2>1. CASE g # h
    BY <1>1, <2>1 DEF StepFrame, Shaped
  <2>2. CASE Fetch(h)
    <3>1. req[h].key \in Keys
      BY <2>2, TenantType DEF Fetch, Goto, Routing, Scoring
    <3> QED  BY <2>1, <2>2, <3>1 DEF Fetch, Shaped
  <2>3. CASE ~Fetch(h)
    <3>1. fetched'[h] = fetched[h] \/ fetched'[h] = {}
      BY <2>3 DEF Step, Shaped, local,
         EvictItem, EvictRaises, BeginSum, Sum, SumRaises, NoteSubmission,
         MissTenant, CreateTenant, BeginScore, LookUp, FetchRaises, Hydrate, Read, Penalty,
         PenaltyRaises
    <3> QED  BY <2>1, <3>1
  <2> QED  BY <2>2, <2>3
<1> QED  BY <1>2, <1>3, <1>4

\* A bucket that is a part of what Redis has held for the key.
PartOf(b, vs) == b = {} \/ \E v \in vs : b \subseteq v

LEMMA StillPart ==
    ASSUME NEW b, NEW vs, PartOf(b, vs)
    PROVE  /\ \A c : PartOf(b, vs \cup {c})
           /\ \A now : PartOf(Survivors(b, now), vs)
BY DEF PartOf, Survivors

\* The strengthening of NeverMixed: also what the handlers have listed and
\* read are parts of versions of their keys.
PartsOnly ==
    /\ \A k \in Keys : redis[k] \in versions[k] /\ PartOf(entries[k], versions[k])
    /\ \A h \in Handlers : \A i \in todo[h] : PartOf(i.bucket, versions[i.key])
    /\ \A h \in Handlers : fetched[h] # {} => req[h].key \in Keys
                                              /\ PartOf(fetched[h], versions[req[h].key])

LEMMA NewHasFetchedNothing == Spec => [](\A h \in Handlers : pc[h] = "new" => fetched[h] = {})
<1> DEFINE Inv == \A h \in Handlers : pc[h] = "new" => fetched[h] = {}
<1>1. Init => Inv
  BY DEF Init
<1>2. Shaped /\ Asked /\ Inv /\ [Next]_vars => Inv'
  <2> SUFFICES ASSUME Shaped, Asked, Inv, [Next]_vars PROVE Inv'
    OBVIOUS
  <2>1. ASSUME NEW h \in Handlers, Step(h)
        PROVE  Inv'
    <3>1. StepFrame(h) /\ pc'[h] # "new"
      BY <2>1, StepFrames, StepLabels
    <3>2. \A g \in Handlers : g # h => pc'[g] = pc[g] /\ fetched'[g] = fetched[g]
      BY <3>1 DEF StepFrame, Shaped
    <3> QED  BY <3>1, <3>2
  <2>2. ASSUME NEW h \in Handlers, NEW to \in {"evict", "evict_all"}, NEW r, Start(h, to, r)
        PROVE  Inv'
    BY <2>2 DEF Start, Goto, Shaped
  <2>3. CASE UNCHANGED vars \/ \E k \in Keys, b \in Buckets : SimulationWrites(k, b)
    BY <2>3 DEF vars, local, SimulationWrites
  <2> QED  BY <2>1, <2>2, <2>3, NextKinds
<1> QED  BY <1>1, <1>2, AlwaysShaped, PTL DEF Spec

\* However the handlers interleave hydration, eviction and lookup, the bucket
\* of a key in memory is a part of one version that Redis held.
THEOREM VersionsAreNeverMixed == Spec => []NeverMixed
<1> DEFINE Quiet == \A h \in Handlers : pc[h] = "new" => fetched[h] = {}
<1>1. Init => PartsOnly
  BY DEF Init, PartsOnly, PartOf
<1>2. Shaped /\ Asked /\ Quiet /\ PartsOnly /\ [Next]_vars => PartsOnly'
  <2> SUFFICES ASSUME Shaped, Asked, Quiet, PartsOnly, [Next]_vars PROVE PartsOnly'
    OBVIOUS
  <2>1. ASSUME NEW h \in Handlers, Step(h)
        PROVE  PartsOnly'
    <3>1. UNCHANGED <<req, redis, versions>>
      BY <2>1, StepFrames DEF StepFrame
    <3>4. \A k \in Keys : PartOf(entries'[k], versions[k])
      BY <2>1, StillPart, BucketMoves DEF PartsOnly
    <3>5. \A g \in Handlers : \A i \in todo'[g] : PartOf(i.bucket, versions[i.key])
      BY <2>1, BucketMoves DEF PartsOnly
    <3>6. ASSUME NEW g \in Handlers, fetched'[g] # {}
          PROVE  req[g].key \in Keys /\ PartOf(fetched'[g], versions[req[g].key])
      <4>1. CASE fetched'[g] = fetched[g]
        BY <3>6, <4>1 DEF PartsOnly
      <4>2. CASE req[g].key \in Keys /\ fetched'[g] = redis[req[g].key]
        BY <4>2 DEF PartsOnly, PartOf
      <4> QED  BY <2>1, <3>6, <4>1, <4>2, BucketMoves
    <3> QED  BY <3>1, <3>4, <3>5, <3>6 DEF PartsOnly
  <2>2. ASSUME NEW h \in Handlers, NEW to \in {"evict", "evict_all"}, NEW r, Start(h, to, r)
        PROVE  PartsOnly'
    <3>1. /\ pc[h] = "new" /\ UNCHANGED <<entries, redis, fetched, versions>>
          /\ \A g \in Handlers : g # h => req'[g] = req[g] /\ todo'[g] = todo[g]
          /\ todo'[h] = Items
      BY <2>2 DEF Start, Goto, shared, Shaped
    <3>2. \A i \in Items : i.key \in Keys /\ i.bucket = entries[i.key]
      BY DEF Items
    <3>3. \A g \in Handlers : \A i \in todo'[g] : PartOf(i.bucket, versions[i.key])
      BY <3>1, <3>2 DEF PartsOnly
    <3>4. \A g \in Handlers : fetched'[g] # {} =>
              req'[g].key \in Keys /\ PartOf(fetched'[g], versions'[req'[g].key])
      BY <3>1 DEF PartsOnly
    <3> QED  BY <3>1, <3>3, <3>4 DEF PartsOnly, PartOf
  <2>3. ASSUME NEW k \in Keys, NEW b \in Buckets, SimulationWrites(k, b)
        PROVE  PartsOnly'
    <3>1. /\ \A j \in Keys : redis'[j] = IF j = k THEN b ELSE redis[j]
          /\ \A j \in Keys : versions'[j] = IF j = k THEN versions[j] \cup {b} ELSE versions[j]
          /\ UNCHANGED <<entries, todo, fetched, req>>
      BY <2>3 DEF SimulationWrites, local, Shaped
    <3>2. \A g \in Handlers : \A i \in todo[g] : i.key \in Keys
      BY DEF Shaped
    <3>3. ASSUME NEW j \in Keys, NEW c, PartOf(c, versions[j])
          PROVE  PartOf(c, versions'[j])
      <4>1. versions'[j] = versions[j] \/ versions'[j] = versions[j] \cup {b}
        BY <3>1
      <4>2. PartOf(c, versions[j] \cup {b})
        BY <3>3, StillPart
      <4> QED  BY <3>3, <4>1, <4>2
    <3>4. \A j \in Keys : redis'[j] \in versions'[j] /\ PartOf(entries'[j], versions'[j])
      BY <3>1, <3>3 DEF PartsOnly
    <3>5. \A g \in Handlers : \A i \in todo'[g] : PartOf(i.bucket, versions'[i.key])
      BY <3>1, <3>2, <3>3 DEF PartsOnly
    <3>6. \A g \in Handlers : fetched'[g] # {} =>
              req'[g].key \in Keys /\ PartOf(fetched'[g], versions'[req'[g].key])
      BY <3>1, <3>3 DEF PartsOnly
    <3> QED  BY <3>4, <3>5, <3>6 DEF PartsOnly
  <2>4. CASE UNCHANGED vars
    BY <2>4 DEF vars, shared, local, history, PartsOnly, PartOf
  <2> QED  BY <2>1, <2>2, <2>3, <2>4, NextKinds
<1>3. PartsOnly => NeverMixed
  BY DEF PartsOnly, PartOf, NeverMixed
<1> QED  BY <1>1, <1>2, <1>3, AlwaysShaped, NewHasFetchedNothing, PTL DEF Spec

-----------------------------------------------------------------------------
(* Hits. *)

\* No handler so far finds entry e expired.
FreshToAll(e) == \A g \in Handlers : req[g].now - e.last_touched <= Ttl

\* While Redis does not change, an entry of its bucket that no handler finds
\* expired is in every copy there is of the bucket: in memory, listed or read.
Kept(k, e) ==
    /\ entries[k] # {} => e \in entries[k]
    /\ \A g \in Handlers : \A i \in todo[g] : i.key = k => e \in i.bucket
    /\ \A g \in Handlers : req[g].key = k =>
          /\ fetched[g] # {} => e \in fetched[g]
          /\ pc[g] = "hydrate" => fetched[g] # {}
          /\ pc[g] = "read" => entries[k] # {}

FreshKept == writes = 0 => \A k \in Keys : \A e \in redis[k] : FreshToAll(e) => Kept(k, e)

LEMMA StepKeeps ==
    ASSUME Shaped, Asked, NEW h \in Handlers, Step(h), NEW k \in Keys, NEW e \in redis[k],
           FreshToAll(e), Kept(k, e)
    PROVE  Kept(k, e)'
<1>1. StepFrame(h)
  BY StepFrames
<1>2. UNCHANGED <<req, redis>>
  BY <1>1 DEF StepFrame
<1>3. \A b, now : e \in b /\ now - e.last_touched <= Ttl => e \in Survivors(b, now)
  BY DEF Survivors
<1>4. /\ entries'[k] # {} => e \in entries'[k]
      /\ entries[k] # {} => entries'[k] # {}
  BY <1>3, BucketMoves DEF Kept, FreshToAll
<1>5. \A g \in Handlers : \A i \in todo'[g] : i.key = k => e \in i.bucket
  BY BucketMoves DEF Kept
<1>6. ASSUME NEW g \in Handlers, req[g].key = k
      PROVE  /\ fetched'[g] # {} => e \in fetched'[g]
             /\ pc'[g] = "hydrate" => fetched'[g] # {}
             /\ pc'[g] = "read" => entries'[k] # {}
  <2>1. fetched'[g] # {} => e \in fetched'[g]
    BY <1>6, BucketMoves DEF Kept
  <2>2. CASE g # h
    <3>1. pc'[g] = pc[g] /\ fetched'[g] = fetched[g]
      BY <1>1, <2>2 DEF StepFrame, Shaped
    <3> QED  BY <1>4, <1>6, <2>1, <3>1 DEF Kept
  <2>3. CASE g = h
    <3>1. CASE pc'[h] = "hydrate"
      <4>1. Fetch(h)
        BY <3>1 DEF Step, Shaped, Goto, local, Ended, Evicting,
            EvictItem, EvictRaises, BeginSum, Sum, NextReserve, SumRaises, NoteSubmission,
            MissTenant, CreateTenant, BeginScore, LookUp, FetchRaises, Hydrate, Read,
            Penalty, PenaltyRaises
      <4>2. fetched'[h] = redis[k]
        BY <1>6, <2>3, <4>1 DEF Fetch, Shaped
      <4> QED  BY <2>1, <2>3, <3>1, <4>2
    <3>2. CASE pc'[h] = "read"
      <4>1. LookUp(h) \/ Hydrate(h)
        BY <3>2 DEF Step, Shaped, Goto, local, Ended, Evicting,
            EvictItem, EvictRaises, BeginSum, Sum, NextReserve, SumRaises, NoteSubmission,
            MissTenant, CreateTenant, BeginScore, Fetch, FetchRaises, Read,
            Penalty, PenaltyRaises
      <4>2. CASE LookUp(h)
        BY <1>6, <2>1, <2>3, <3>2, <4>2 DEF LookUp, Goto, shared, Shaped
      <4>3. CASE Hydrate(h)
        <5>1. fetched[h] # {} /\ entries'[k] = Hydrated(entries[k], fetched[h])
          BY <1>6, <2>3, <4>3 DEF Hydrate, Goto, Shaped, Kept
        <5> QED  BY <2>1, <2>3, <3>2, <5>1 DEF Hydrated
      <4> QED  BY <4>1, <4>2, <4>3
    <3> QED  BY <2>1, <2>3, <3>1, <3>2
  <2> QED  BY <2>2, <2>3
<1> QED  BY <1>2, <1>4, <1>5, <1>6 DEF Kept

LEMMA FreshIsKept == Spec => []FreshKept
<1> DEFINE Quiet == \A h \in Handlers : pc[h] = "new" => fetched[h] = {}
<1>1. Init => FreshKept
  BY DEF Init, FreshKept, Kept
<1>2. Shaped /\ Asked /\ Quiet /\ FreshKept /\ [Next]_vars => FreshKept'
  <2> SUFFICES ASSUME Shaped, Asked, Quiet, FreshKept, [Next]_vars PROVE FreshKept'
    OBVIOUS
  <2>1. ASSUME NEW h \in Handlers, Step(h)
        PROVE  FreshKept'
    <3>1. UNCHANGED <<req, redis, writes>>
      BY <2>1, StepFrames DEF StepFrame
    <3> SUFFICES ASSUME writes = 0, NEW k \in Keys, NEW e \in redis[k], FreshToAll(e)
                 PROVE  Kept(k, e)'
      BY <3>1 DEF FreshKept, FreshToAll
    <3> QED  BY <2>1, StepKeeps DEF FreshKept
  <2>2. ASSUME NEW h \in Handlers, NEW to \in {"evict", "evict_all"}, NEW r, Start(h, to, r)
        PROVE  FreshKept'
    <3>1. /\ pc[h] = "new" /\ UNCHANGED <<entries, redis, fetched, writes>>
          /\ \A g \in Handlers : g # h =>
                req'[g] = req[g] /\ todo'[g] = todo[g] /\ pc'[g] = pc[g]
          /\ todo'[h] = Items /\ pc'[h] = to
      BY <2>2 DEF Start, Goto, shared, Shaped
    <3> SUFFICES ASSUME writes = 0, NEW k \in Keys, NEW e \in redis[k], FreshToAll(e)'
                 PROVE  Kept(k, e)'
      BY <3>1 DEF FreshKept
    <3>2. FreshToAll(e)
      <4>1. e.last_touched \in Nat /\ Ttl \in Nat
        BY BucketTypes, ApiAssumption DEF Shaped
      <4>2. req[h].now = 0
        BY <3>1 DEF Asked, NoRequest
      <4>3. 0 - e.last_touched <= Ttl
        BY <4>1
      <4> QED  BY <3>1, <4>2, <4>3 DEF FreshToAll
    <3>3. Kept(k, e)
      BY <3>2 DEF FreshKept
    <3>4. \A i \in Items : i.key = k => e \in i.bucket
      BY <3>3 DEF Items, Kept
    <3> QED  BY <3>1, <3>3, <3>4 DEF Kept
  <2>3. ASSUME NEW k, NEW b, SimulationWrites(k, b)
        PROVE  FreshKept'
    BY <2>3 DEF SimulationWrites, FreshKept, Shaped
  <2>4. CASE UNCHANGED vars
    BY <2>4 DEF vars, shared, local, history, FreshKept, FreshToAll, Kept
  <2> QED  BY <2>1, <2>2, <2>3, <2>4, NextKinds
<1> QED  BY <1>1, <1>2, AlwaysShaped, NewHasFetchedNothing, PTL DEF Spec

\* Handler h is the latest so far and Redis has a fresh entry of its key.
Serves(h) ==
    /\ writes = 0 /\ req[h].key \in Keys
    /\ \A g \in Handlers : req[g].now <= req[h].now
    /\ \E e \in redis[req[h].key] : req[h].now - e.last_touched \in 0 .. Ttl

\* It has scored a hit for the pools it has been at.
HitsSoFar(h) ==
    /\ pc[h] \in {"submit", "create"} => pool[h] = 1
    /\ Serves(h) => /\ pc[h] \in Scoring => \A p \in Pools : p < pool[h] => p \in hits[h]
                    /\ pc[h] = "penalty" => \A p \in Pools : p <= pool[h] => p \in hits[h]
                    /\ pc[h] = "done" => hits[h] = Pools

\* How a step moves a handler on through the pools.
LEMMA StepScores ==
    ASSUME Shaped, NEW h \in Handlers, Step(h)
    PROVE  /\ pc'[h] = "submit" => pool'[h] = 1
           /\ pc'[h] = "create" => pc[h] = "submit" /\ pool'[h] = pool[h]
           /\ pc'[h] \in Scoring =>
                \/ pc[h] \in {"submit", "create"} /\ pool'[h] = pool[h] /\ hits'[h] = hits[h]
                \/ pc[h] \in Scoring /\ pool'[h] = pool[h] /\ hits'[h] = hits[h]
                \/ pc[h] = "penalty" /\ pool'[h] = pool[h] + 1 /\ hits'[h] = hits[h]
           /\ pc'[h] = "penalty" =>
                /\ pc[h] = "read" /\ pool'[h] = pool[h]
                /\ hits'[h] = IF Ready(entries[req[h].key], req[h].now) = {}
                              THEN hits[h] ELSE hits[h] \cup {pool[h]}
           /\ pc'[h] = "done" =>
                \/ pc[h] = "penalty" /\ pool[h] = PoolCount /\ hits'[h] = hits[h]
                \/ pc[h] = "sum_all"
<1> USE DEF Shaped, Goto, Scoring
<1>1. CASE EvictItem(h)
  BY <1>1 DEF EvictItem, Evicting
<1>2. CASE EvictRaises(h) \/ SumRaises(h) \/ PenaltyRaises(h)
  BY <1>2 DEF EvictRaises, SumRaises, PenaltyRaises
<1>3. CASE BeginSum(h)
  BY <1>3 DEF BeginSum
<1>4. CASE Sum(h)
  BY <1>4 DEF Sum, NextReserve
<1>5. CASE NoteSubmission(h) \/ MissTenant(h) \/ CreateTenant(h)
  BY <1>5 DEF NoteSubmission, MissTenant, CreateTenant, local
<1>6. CASE BeginScore(h)
  BY <1>6 DEF BeginScore
<1>7. CASE LookUp(h) \/ Fetch(h) \/ FetchRaises(h) \/ Hydrate(h)
  BY <1>7 DEF LookUp, Fetch, FetchRaises, Hydrate, local
<1>8. CASE Read(h)
  BY <1>8 DEF Read
<1>9. CASE Penalty(h)
  BY <1>9 DEF Penalty, LastPool
<1> QED  BY <1>1, <1>2, <1>3, <1>4, <1>5, <1>6, <1>7, <1>8, <1>9 DEF Step

\* While Redis does not change, a handler whose arrival time is the latest so
\* far scores a hit for every pool if the mirror of its key has a completed,
\* unexpired entry, whatever the other handlers evict and write back meanwhile.
THEOREM MirroredEntriesHit == Spec => []MirroredIsHit
<1> DEFINE Inv == \A h \in Handlers : HitsSoFar(h)
<1>1. Init => Inv
  BY DEF Init, HitsSoFar, Scoring
<1>2. Shaped /\ Asked /\ FreshKept /\ Inv /\ [Next]_vars => Inv'
  <2> SUFFICES ASSUME Shaped, Asked, FreshKept, Inv, [Next]_vars, NEW h \in Handlers
               PROVE  HitsSoFar(h)'
    OBVIOUS
  <2>1. ASSUME UNCHANGED <<writes, redis, req>>
        PROVE  Serves(h)' <=> Serves(h)
    BY <2>1 DEF Serves
  <2>2. ASSUME NEW g \in Handlers, NEW to \in {"evict", "evict_all"}, NEW r, Start(g, to, r)
        PROVE  HitsSoFar(h)'
    <3>1. /\ pc[g] = "new" /\ UNCHANGED <<redis, writes, pool, hits>>
          /\ pc'[g] = to
          /\ \A f \in Handlers : f # g => req'[f] = req[f] /\ pc'[f] = pc[f]
      BY <2>2 DEF Start, Goto, shared, Shaped
    <3>2. CASE h = g
      BY <3>1, <3>2 DEF HitsSoFar, Scoring
    <3>3. CASE h # g
      <4>1. req[g].now <= req[h].now
        <5>1. req[h].now \in Nat
          BY BucketTypes DEF Shaped
        <5>2. req[g].now = 0
          BY <3>1 DEF Asked, NoRequest
        <5> QED  BY <5>1, <5>2
      <4>2. Serves(h)' => Serves(h)
        BY <3>1, <3>3, <4>1 DEF Serves
      <4> QED  BY <3>1, <3>3, <4>2 DEF HitsSoFar
    <3> QED  BY <3>2, <3>3
  <2>3. ASSUME NEW k, NEW b, SimulationWrites(k, b)
        PROVE  HitsSoFar(h)'
    <3>1. writes' # 0 /\ UNCHANGED <<pc, pool>>
      BY <2>3 DEF SimulationWrites, local, Shaped
    <3> QED  BY <3>1 DEF HitsSoFar, Serves
  <2>4. ASSUME NEW g \in Handlers, Step(g), g # h
        PROVE  HitsSoFar(h)'
    <3>1. StepFrame(g)
      BY <2>4, StepFrames
    <3>2. pc'[h] = pc[h] /\ pool'[h] = pool[h] /\ hits'[h] = hits[h]
      BY <2>4, <3>1 DEF StepFrame, Shaped
    <3> QED  BY <2>1, <3>1, <3>2 DEF StepFrame, HitsSoFar
  <2>5. ASSUME Step(h)
        PROVE  HitsSoFar(h)'
    <3>1. Serves(h)' <=> Serves(h)
      BY <2>1, <2>5, StepFrames DEF StepFrame
    <3>2. pc'[h] \in {"submit", "create"} => pool'[h] = 1
      BY <2>5, StepScores DEF HitsSoFar
    <3> SUFFICES ASSUME Serves(h)
                 PROVE  /\ pc'[h] \in Scoring => \A p \in Pools : p < pool'[h] => p \in hits'[h]
                        /\ pc'[h] = "penalty" => \A p \in Pools : p <= pool'[h] => p \in hits'[h]
                        /\ pc'[h] = "done" => hits'[h] = Pools
      BY <3>1, <3>2 DEF HitsSoFar
    <3>3. \A p \in Pools : p \in Nat /\ 1 <= p /\ p <= PoolCount
      BY ApiAssumption DEF Pools
    <3>4. pool[h] \in Pools /\ hits[h] \subseteq Pools
      BY DEF Shaped
    <3>5. CASE pc'[h] \in Scoring
      <4>1. ASSUME NEW p \in Pools, p < pool'[h]
            PROVE  p \in hits'[h]
        <5>1. CASE pc[h] \in {"submit", "create"} /\ pool'[h] = pool[h] /\ hits'[h] = hits[h]
          BY <3>3, <4>1, <5>1 DEF HitsSoFar
        <5>2. CASE pc[h] \in Scoring /\ pool'[h] = pool[h] /\ hits'[h] = hits[h]
          BY <4>1, <5>2 DEF HitsSoFar
        <5>3. CASE pc[h] = "penalty" /\ pool'[h] = pool[h] + 1 /\ hits'[h] = hits[h]
          BY <3>3, <3>4, <4>1, <5>3 DEF HitsSoFar
        <5> QED  BY <2>5, <3>5, <5>1, <5>2, <5>3, StepScores
      <4> QED  BY <3>5, <4>1 DEF Scoring
    <3>6. CASE pc'[h] = "penalty"
      <4>1. /\ pc[h] = "read" /\ pool'[h] = pool[h]
            /\ hits'[h] = IF Ready(entries[req[h].key], req[h].now) = {}
                          THEN hits[h] ELSE hits[h] \cup {pool[h]}
        BY <2>5, <3>6, StepScores
      <4>2. PICK e \in redis[req[h].key] : req[h].now - e.last_touched \in 0 .. Ttl
        BY DEF Serves
      <4>3. e.last_touched \in Nat /\ Ttl \in Nat /\ req[h].key \in Keys
        <5>1. req[h].key \in Keys
          BY DEF Serves
        <5>2. redis[req[h].key] \in Buckets \cup {{}}
          BY <5>1 DEF Shaped
        <5>3. e \in Entry
          BY <4>2, <5>2, BucketTypes
        <5>4. e.last_touched \in Nat
          BY <5>3, BucketTypes
        <5>5. Ttl \in Nat
          BY ApiAssumption
        <5> QED  BY <5>1, <5>4, <5>5
      <4>4. \A g \in Handlers : req[g].now \in Nat
        BY BucketTypes DEF Shaped
      <4>5. e.last_touched <= req[h].now /\ FreshToAll(e)
        <5>1. req[h].now - e.last_touched >= 0 /\ req[h].now - e.last_touched <= Ttl
          BY <4>2, <4>3, <4>4
        <5>2. \A g \in Handlers : req[g].now <= req[h].now
          BY DEF Serves
        <5>3. ASSUME NEW g \in Handlers PROVE req[g].now - e.last_touched <= Ttl
          <6>1. req[g].now <= req[h].now /\ req[g].now \in Nat /\ req[h].now \in Nat
            BY <4>4, <5>2
          <6> QED  BY <4>3, <5>1, <6>1
        <5>4. e.last_touched <= req[h].now
          BY <4>3, <4>4, <5>1
        <5> QED  BY <5>3, <5>4 DEF FreshToAll
      <4>6. e \in entries[req[h].key]
        BY <4>1, <4>3, <4>5 DEF FreshKept, Kept, Serves
      <4>7. hits'[h] = hits[h] \cup {pool[h]}
        BY <4>1, <4>5, <4>6 DEF Ready
      <4>8. \A p \in Pools : p < pool[h] => p \in hits[h]
        BY <4>1 DEF HitsSoFar, Scoring
      <4>9. \A p \in Pools : p <= pool'[h] => p \in hits'[h]
        BY <3>3, <3>4, <4>1, <4>7, <4>8
      <4> QED  BY <3>6, <4>9 DEF Scoring
    <3>7. CASE pc'[h] = "done"
      <4>1. pc[h] # "sum_all"
        BY ApiAssumption DEF Asked, Caching, Serves
      <4>2. pc[h] = "penalty" /\ pool[h] = PoolCount /\ hits'[h] = hits[h]
        BY <2>5, <3>7, <4>1, StepScores
      <4>3. \A p \in Pools : p \in hits[h]
        BY <3>3, <4>2 DEF HitsSoFar
      <4> QED  BY <3>4, <3>7, <4>2, <4>3 DEF Scoring
    <3> QED  BY <3>5, <3>6, <3>7
  <2>6. CASE UNCHANGED vars
    BY <2>1, <2>6 DEF vars, shared, local, history, HitsSoFar
  <2> QED  BY <2>2, <2>3, <2>4, <2>5, <2>6, NextKinds
<1>3. Inv => MirroredIsHit
  BY DEF HitsSoFar, Serves, MirroredIsHit
<1> QED  BY <1>1, <1>2, <1>3, AlwaysShaped, FreshIsKept, PTL DEF Spec
=============================================================================
