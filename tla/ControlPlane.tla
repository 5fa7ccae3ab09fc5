---------------------------- MODULE ControlPlane ----------------------------
(***************************************************************************)
(* NimbusMeshControlPlane with its LocalClusterScheduler, its pools and    *)
(* its KVCacheDirectory, driven by the loop of SimulationEngine.run: for   *)
(* every request refresh, note_submission, then execute, which routes the  *)
(* request and either places it on a slot of the chosen pool or rejects    *)
(* it.  One iteration is one step: the loop is sequential.  An exception   *)
(* (the gRPC deadline, a Redis error, the TypeError of the trim) is caught *)
(* nowhere and ends the run in the middle of the iteration.                *)
(*                                                                         *)
(* Abstractions.  The latency a backend estimates is any of ServiceTimes;  *)
(* the routing policy may choose any candidate the contract of             *)
(* _available_candidates leaves it, whatever its costs (RoutingChoosers).  *)
(* active_memory_gb and cache_reserved_gb are recomputed by refresh()      *)
(* before every use, so they are operators (ActiveMemory, ReservedGb) and  *)
(* not variables.  What the engine writes after execute changes nothing    *)
(* here (ResultSinks).                                                     *)
(***************************************************************************)
EXTENDS CacheEntries

CONSTANTS
    Tenants, TenantOf,  \* tenant_id of each key
    Supports,           \* Supports[p]: the keys whose model pool p serves
    Slots,              \* parallel_slots
    QueueLimit,         \* queue_limit
    MemoryGb,           \* memory_gb
    FailureWindows,     \* failure_windows of each cluster
    ServiceTimes,       \* prefill plus decode time
    Prompts, GenTokens, \* token counts offered
    MaxLatency,         \* max_latency_ms
    RemoteChooser,      \* a gRPC scheduler is consulted
    Ordered,            \* arrival times never decrease (FALSE: a raw trace)
    MaxTime,            \* bound on arrival times
    MaxRequests         \* length of the workload

ASSUME ControlPlaneAssumption ==
    /\ TenantOf \in [Keys -> Tenants]
    /\ Supports \in [Pools -> SUBSET Keys]
    /\ Slots \in [Pools -> Nat \ {0}]
    /\ QueueLimit \in [Pools -> Nat]
    /\ MemoryGb \in [Pools -> Nat]
    /\ FailureWindows \in [{ClusterOf[p] : p \in Pools} -> SUBSET (Nat \X Nat)]
    /\ ServiceTimes \subseteq Nat \ {0}
    /\ Prompts \subseteq Nat \ {0} /\ GenTokens \in Nat \ {0}
    /\ MaxLatency \in Nat
    /\ RemoteChooser \in BOOLEAN /\ Ordered \in BOOLEAN
    /\ MaxTime \in Nat /\ MaxRequests \in Nat

VARIABLES
    now,             \* arrival time of the latest request
    arrived,         \* requests taken from the workload so far
    slots,           \* slot_available_at of each pool
    inflight,        \* inflight_memory of each pool
    entries, redis,  \* the cache directory and its mirror
    enabled,         \* the mirror is in use: fixed when the store is constructed
    stats,           \* tenant_stats
    decision_count,  \* per pool
    completed_count, \* per pool
    placed,          \* history: the placements made
    rejected,        \* history: the requests rejected
    raised           \* an exception has ended the run

vars == <<now, arrived, slots, inflight, entries, redis, enabled,
          stats, decision_count, completed_count, placed, rejected, raised>>

SlotIds(p) == 1 .. Slots[p]

Placement == [id : Nat, key : Keys, pool : Pools, slot : Nat, arrival : Nat,
              start : Nat, finish : Nat, mem : Nat]

Rejection == [id : Nat, key : Keys, prompt : Prompts, arrival : Nat,
              reason : {"cluster-unavailable", "unsupported-model", "queue-limit",
                        "memory-pressure"}]

TenantStats == [submitted : Nat, completed : Nat, sla_misses : Nat,
                total_latency : Nat]

Init ==
    /\ now = 0 /\ arrived = 0
    /\ slots = [p \in Pools |-> [s \in SlotIds(p) |-> 0]]
    /\ inflight = [p \in Pools |-> {}]
    /\ entries = EmptyDirectory /\ redis = EmptyDirectory
    /\ enabled \in BOOLEAN
    /\ stats = [t \in Tenants |-> [submitted |-> 0, completed |-> 0,
                                   sla_misses |-> 0, total_latency |-> 0]]
    /\ decision_count = [p \in Pools |-> 0]
    /\ completed_count = [p \in Pools |-> 0]
    /\ placed = {} /\ rejected = {}
    /\ raised = FALSE

-----------------------------------------------------------------------------
(* refresh() and the state of a pool at time t. *)

\* Mutant: work is released when it starts.
StillWaiting(p, t) == {j \in inflight[p] : j.start > t}

\* PoolRuntime.refresh: the work still in flight at t.
StillInflight(p, t) == {j \in inflight[p] : j.finish > t}

TotalMemory(jobs) == MapThenSumSet(LAMBDA j : j.mem, jobs)

ActiveMemory(p, t) == TotalMemory(StillInflight(p, t))

\* Mutant: the reserved cache is not subtracted.
HeadroomSansCache(p, t) == Max({0, MemoryGb[p] - ActiveMemory(p, t)})

\* memory_headroom_gb, from what refresh() computed.
MemoryHeadroom(p, t) ==
    Max({0, MemoryGb[p] - ActiveMemory(p, t) - ReservedGb(EvictStale(entries, t), p)})

\* Mutant: a slot that becomes free at t still counts.
BookedUntil(p, t) == Cardinality({s \in SlotIds(p) : slots[p][s] >= t})

\* inflight_count: the slots booked beyond t.
InflightCount(p, t) == Cardinality({s \in SlotIds(p) : slots[p][s] > t})

Unavailable(p, t) == \E w \in FailureWindows[ClusterOf[p]] : w[1] <= t /\ t <= w[2]

-----------------------------------------------------------------------------
(* build_candidates and the choice. *)

\* Mutant: the limit is exclusive.
LooseQueueCheck(p, k, t, mem) ==
    IF Unavailable(p, t) THEN "cluster-unavailable"
    ELSE IF k \notin Supports[p] THEN "unsupported-model"
    ELSE IF InflightCount(p, t) > QueueLimit[p] THEN "queue-limit"
    ELSE IF MemoryHeadroom(p, t) < mem THEN "memory-pressure" ELSE "none"

RejectionReason(p, k, t, mem) ==
    IF Unavailable(p, t) THEN "cluster-unavailable"
    ELSE IF k \notin Supports[p] THEN "unsupported-model"
    ELSE IF InflightCount(p, t) >= QueueLimit[p] THEN "queue-limit"
    ELSE IF MemoryHeadroom(p, t) < mem THEN "memory-pressure"
    ELSE "none"

\* The candidate of pool p for a request scored `score` there.
Candidate(p, k, prompt, t, score) ==
    LET mem == RequestMemory(k, prompt, GenTokens, score.saved)
    IN  [score |-> score, mem |-> mem, reason |-> RejectionReason(p, k, t, mem)]

\* The scores of the candidates, one per pool, in one call of build_candidates.
Scorings(k, prompt, t) ==
    LET Of(p) == Scores(ConsultedFor(entries, redis, k, p, t)[k],
                        prompt, p, t)
    IN  {f \in [Pools -> UNION {Of(p) : p \in Pools}] : \A p \in Pools : f[p] \in Of(p)}

Candidates(k, prompt, t, scoring) ==
    [p \in Pools |-> Candidate(p, k, prompt, t, scoring[p])]

\* The contract of every chooser: an available candidate if there is one.
Choosable(cands) ==
    LET usable == {p \in Pools : cands[p].reason = "none"}
    IN  IF usable # {} THEN usable ELSE Pools

-----------------------------------------------------------------------------
(* One iteration of the engine's loop. *)

\* Mutants: requests pile up on the first slot; slots are used in turn.
FirstSlot(p) == 1
NextSlot(p) == 1 + (decision_count[p] % Slots[p])

\* min() over the slot indices: the first of the earliest slots.
EarliestSlot(p) ==
    CHOOSE s \in SlotIds(p) : \A u \in SlotIds(p) :
        \/ slots[p][s] < slots[p][u]
        \/ slots[p][s] = slots[p][u] /\ s <= u

\* Mutant: the request starts at once, booked slot or not.
StartNow(p, t) == t

StartTs(p, t) == Max({t, slots[p][EarliestSlot(p)]})

\* The head of an iteration for a request of key k that arrives at t:
\* refresh and note_submission.
Arrive(k, t) ==
    /\ ~raised
    /\ arrived < MaxRequests
    /\ t \in 0 .. MaxTime
    /\ Ordered => now <= t
    /\ now' = t
    /\ arrived' = arrived + 1
    /\ UNCHANGED enabled

Submitted(k) == [stats EXCEPT ![TenantOf[k]].submitted = @ + 1]

Refreshed(t) == [p \in Pools |-> StillInflight(p, t)]

\* The directory after build_candidates has scored every pool at time t.
Routed(k, t) == ConsultedByAll(entries, redis, k, t)

\* The placement place_request() makes at pool p.
NewPlacement(k, p, t, service, cand) ==
    [id |-> arrived, key |-> k, pool |-> p, slot |-> EarliestSlot(p), arrival |-> t,
     start |-> StartTs(p, t), finish |-> StartTs(p, t) + service, mem |-> cand.mem]

\* The directories observe() may leave, before the trim.
ObservedDirs(k, p, prompt, t, finish, cand) ==
    {[Routed(k, t) EXCEPT ![k] = bucket] :
        bucket \in Capped(Touched(Routed(k, t)[k], p, prompt, cand.mem, finish,
                                  HitIncrement(cand.score)))}

\* _persist_to_redis, which writes the bucket of the key.
Mirrored(k, after) == IF enabled THEN [redis EXCEPT ![k] = after[k]] ELSE redis

\* The bookkeeping of place_request() before it calls observe().
Book(j) ==
    /\ slots' = [slots EXCEPT ![j.pool][j.slot] = j.finish]
    /\ inflight' = [Refreshed(j.arrival) EXCEPT ![j.pool] = @ \cup {j}]
    /\ decision_count' = [decision_count EXCEPT ![j.pool] = @ + 1]
    /\ placed' = placed \cup {j}

\* Mutant: a request that meets its latency bound exactly is a miss.
StrictResult(s, j) ==
    [s EXCEPT !.completed = @ + 1,
              !.total_latency = @ + (j.finish - j.arrival),
              !.sla_misses = @ + (IF j.finish - j.arrival >= MaxLatency THEN 1 ELSE 0)]

\* What execute() adds to the tenant's statistics after the placement.
WithResult(s, j) ==
    [s EXCEPT !.completed = @ + 1,
              !.total_latency = @ + (j.finish - j.arrival),
              !.sla_misses = @ + (IF j.finish - j.arrival > MaxLatency THEN 1 ELSE 0)]

Accounted(j) == [Submitted(j.key) EXCEPT ![TenantOf[j.key]] = WithResult(@, j)]

\* execute() with an available candidate: the request is placed.
Admit(k, prompt, t, service) ==
    /\ Arrive(k, t)
    /\ \E scoring \in Scorings(k, prompt, t) :
       LET cands == Candidates(k, prompt, t, scoring)
       IN  \E p \in Choosable(cands) :
           LET j == NewPlacement(k, p, t, service, cands[p])
           IN  /\ cands[p].reason = "none"
               /\ Book(j)
               /\ \E after \in ObservedDirs(k, p, prompt, t, j.finish, cands[p]) :
                    /\ redis' = Mirrored(k, after)
                    /\ ~TrimRaises(after)
                    /\ entries' \in Trimmed(after)
               /\ stats' = Accounted(j)
               /\ completed_count' = [completed_count EXCEPT ![p] = @ + 1]
    /\ UNCHANGED <<rejected, raised>>

\* observe() raises: the trim compares tied entries (the mirror is already
\* written), or the write to Redis fails, applied or not.  The booking stays.
AdmitRaises(k, prompt, t, service) ==
    /\ Arrive(k, t)
    /\ \E scoring \in Scorings(k, prompt, t) :
       LET cands == Candidates(k, prompt, t, scoring)
       IN  \E p \in Choosable(cands) :
           LET j == NewPlacement(k, p, t, service, cands[p])
           IN  /\ cands[p].reason = "none"
               /\ Book(j)
               /\ entries' \in ObservedDirs(k, p, prompt, t, j.finish, cands[p])
               /\ \/ TrimRaises(entries') /\ redis' = Mirrored(k, entries')
                  \/ enabled /\ redis' \in {redis, Mirrored(k, entries')}
    /\ stats' = Submitted(k)
    /\ raised' = TRUE
    /\ UNCHANGED <<completed_count, rejected>>

\* execute() with no available candidate: a result that is not admitted.
Reject(k, prompt, t) ==
    /\ Arrive(k, t)
    /\ \E scoring \in Scorings(k, prompt, t) :
       LET cands == Candidates(k, prompt, t, scoring)
       IN  \E p \in Choosable(cands) :
           /\ cands[p].reason # "none"
           /\ rejected' = rejected \cup {[id |-> arrived, key |-> k, prompt |-> prompt,
                                          arrival |-> t, reason |-> cands[p].reason]}
    /\ inflight' = Refreshed(t)
    /\ entries' = Routed(k, t)
    /\ stats' = Submitted(k)
    /\ UNCHANGED <<slots, redis, decision_count, completed_count, placed, raised>>

\* route() raises: the gRPC deadline expires, or Redis refuses a read.
RouteRaises(k, t) ==
    /\ Arrive(k, t)
    /\ \/ RemoteChooser /\ entries' = Routed(k, t)
       \/ enabled /\ entries' = EvictStale(entries, t) /\ entries'[k] = {}
    /\ inflight' = Refreshed(t)
    /\ stats' = Submitted(k)
    /\ raised' = TRUE
    /\ UNCHANGED <<slots, redis, decision_count, completed_count, placed, rejected>>

\* The iteration for a request of key k that arrives at t.
Iteration(k, t) ==
    \/ \E prompt \in Prompts :
          \/ \E service \in ServiceTimes : \/ Admit(k, prompt, t, service)
                                           \/ AdmitRaises(k, prompt, t, service)
          \/ Reject(k, prompt, t)
    \/ RouteRaises(k, t)

Next == \E k \in Keys, t \in 0 .. MaxTime : Iteration(k, t)

Spec == Init /\ [][Next]_vars

-----------------------------------------------------------------------------
(* Properties. *)

\* The runtime state of pools, tenants and cache is well typed: bookings have
\* natural start and completion times, cache entries belong to known pools,
\* and a rejected request names the check it failed.
TypeOK ==
    /\ now \in Nat /\ arrived \in Nat
    /\ slots = [p \in Pools |-> slots[p]]
    /\ \A p \in Pools : slots[p] \in [SlotIds(p) -> Nat]
    /\ inflight \in [Pools -> SUBSET Placement]
    /\ entries \in Directory /\ redis \in Directory /\ enabled \in BOOLEAN
    /\ stats \in [Tenants -> TenantStats]
    /\ decision_count \in [Pools -> Nat] /\ completed_count \in [Pools -> Nat]
    /\ placed \subseteq Placement /\ rejected \subseteq Rejection
    /\ raised \in BOOLEAN

PlacedAt(p) == {j \in placed : j.pool = p}

\* The requests pool p has accepted and not completed at time t: they hold
\* memory from their arrival on, also while they wait for their slot.
Outstanding(p, t) == {j \in PlacedAt(p) : j.arrival <= t /\ t < j.finish}

\* Two requests never run on the same slot of a pool at the same time: a slot
\* is booked from the end of its previous booking (place_request).
SlotExclusive ==
    \A i, j \in placed :
        i # j /\ i.pool = j.pool /\ i.slot = j.slot
            => i.finish <= j.start \/ j.finish <= i.start

\* A pool serves its requests in order of arrival: booking the earliest slot
\* at arrival never lets a later request start before an earlier one.
NoOvertaking ==
    \A i, j \in placed : i.pool = j.pool /\ i.id < j.id => i.start <= j.start

\* A request waits only while every slot of its pool is busy: at each instant
\* between its arrival and its start, each slot runs an earlier request.
WorkConserving ==
    \A j \in placed : \A s \in SlotIds(j.pool), t \in j.arrival .. j.start - 1 :
        \E i \in PlacedAt(j.pool) :
            i.id < j.id /\ i.slot = s /\ i.start <= t /\ t < i.finish

\* Whenever a request is accepted, it and the work of its pool that has not
\* completed fit in the pool's memory: the headroom that refresh() computes
\* from inflight_memory is never optimistic.
MemoryWithinPool ==
    \A j \in placed :
        TotalMemory(Outstanding(j.pool, j.arrival)) <= MemoryGb[j.pool]

\* Without Redis, which brings expired entries back, the cache entries of a
\* pool never reserve more than the pool's memory, although observe() grows
\* them without checking the headroom.
CacheWithinPool ==
    ~enabled => \A p \in Pools : ReservedGb(entries, p) <= MemoryGb[p]

\* What the unfinished work and the cache of pool p take together.
MemoryInUse(p) == TotalMemory(Outstanding(p, now)) + ReservedGb(entries, p)

\* The entry that observe() leaves after the check of the headroom may take a
\* pool beyond its memory, but the excess does not add up over requests, keys
\* and time: without Redis the cache alone fits, and work and cache together
\* exceed the memory by no more than the entry of one placement.
CacheOvercommitBounded ==
    /\ CacheWithinPool
    /\ ~enabled => \A p \in Pools :
         \/ MemoryInUse(p) <= MemoryGb[p]
         \/ \E j \in PlacedAt(p) : MemoryInUse(p) <= MemoryGb[p] + (11 * j.mem) \div 20

\* A pool never has more outstanding requests than its queue_limit.
OutstandingWithinLimit ==
    \A p \in Pools : Cardinality(Outstanding(p, now)) <= QueueLimit[p]

\* The placement in whose iteration the run ended, if any: it is booked, but
\* has no result.
Interrupted == {j \in placed : raised /\ j.id = arrived - 1}

CompletedBy(t) == {j \in placed \ Interrupted : TenantOf[j.key] = t}

TotalLatency(jobs) == MapThenSumSet(LAMBDA j : j.finish - j.arrival, jobs)

TotalSubmitted == MapThenSumSet(LAMBDA t : stats[t].submitted, Tenants)

\* Every request taken from the workload is accounted for exactly once, also
\* when an exception cut its iteration short: as completed, as rejected, or
\* as the one in whose iteration the run ended; and the counters of tenants,
\* of pools and the latencies agree with the placements made.
AccountingBalanced ==
    /\ \A t \in Tenants :
         /\ stats[t].completed = Cardinality(CompletedBy(t))
         /\ stats[t].sla_misses =
              Cardinality({j \in CompletedBy(t) : j.finish - j.arrival > MaxLatency})
         /\ stats[t].total_latency = TotalLatency(CompletedBy(t))
    /\ \A p \in Pools :
         /\ decision_count[p] = Cardinality(PlacedAt(p))
         /\ completed_count[p] = Cardinality(PlacedAt(p) \ Interrupted)
    /\ TotalSubmitted = arrived
    /\ arrived = Cardinality(placed \ Interrupted) + Cardinality(rejected)
                    + (IF raised THEN 1 ELSE 0)

\* A request is rejected only if, at each pool that is up and serves its
\* model, the unfinished work fills the queue limit, or that work, the live
\* cache and the request together exceed the memory: capacity that finished
\* requests and expired entries held has been given back by refresh().
NoSpuriousReject ==
    [][\A r \in rejected' \ rejected, p \in Pools :
         \/ Unavailable(p, r.arrival)
         \/ r.key \notin Supports[p]
         \/ Cardinality(Outstanding(p, now)') >= QueueLimit[p]
         \/ TotalMemory(Outstanding(p, now)') + ReservedGb(entries', p)
              + RequestMemory(r.key, r.prompt, GenTokens, 0) > MemoryGb[p]]_vars
=============================================================================
