----------------------------- MODULE ApiThreads -----------------------------
(***************************************************************************)
(* The HTTP API (control_plane/api.py): FastAPI runs its plain functions   *)
(* in a pool of threads, all on one control plane and without a lock.      *)
(* /v1/route does refresh, note_submission and route and places nothing,   *)
(* so its directory fills by hydration from Redis only; /v1/cache takes a  *)
(* snapshot at time zero.  A run started by /v1/simulate has a control     *)
(* plane of its own and is seen here only through Redis.                   *)
(*                                                                         *)
(* The interpreter may switch threads between the iterations of a loop,    *)
(* at a call of a Python function and during I/O; what lies between these  *)
(* is one step.  A dictionary that is iterated must keep its size, or the  *)
(* iteration raises.  A bucket is never changed in place here, only        *)
(* replaced, and no bucket is empty: {} stands for an absent key.          *)
(***************************************************************************)
EXTENDS Integers, FiniteSets

CONSTANTS
    Handlers,          \* requests to the API, each handled once
    Keys,
    Tenants, TenantOf, \* tenant_id of each key
    PoolCount,         \* number of pool, visited in the order of the configuration
    Buckets,           \* the buckets a simulation may mirror
    Ttl,
    Times,             \* arrival_ts of requests
    MaxWrites          \* bound on the writes of simulations

Pools == 1 .. PoolCount

ASSUME ApiAssumption ==
    /\ IsFiniteSet(Keys) /\ IsFiniteSet(Tenants) /\ TenantOf \in [Keys -> Tenants]
    /\ "none" \notin Keys
    /\ PoolCount \in Nat \ {0}
    /\ \A b \in Buckets : b # {} /\ b \subseteq [pool : Pools, last_touched : Nat]
    /\ \A b \in Buckets : \A e, f \in b : e.pool = f.pool => e = f
    /\ Ttl \in Nat /\ Times \subseteq Nat /\ MaxWrites \in Nat

VARIABLES
    entries,    \* the directory; {} for an absent key
    stats,      \* tenant_stats[t].submitted; 0 for an absent tenant
    redis,      \* the mirrored buckets; {} for none
    pc, req,    \* of each handler: where it is, and its request
    pool,       \* of each handler: the pool its current loop is at
    todo,       \* of each handler: items evict_stale has listed, to be treated
    iter,       \* of each handler: size of the dictionary it iterates over, or 0
    fetched,    \* of each handler: what it read from Redis
    hits,       \* of each handler: the pools it scored a hit for
    raced,      \* history: the handlers that have not been alone
    noted,      \* history: submissions noted per tenant
    collided,   \* history: tenants created while another handler noted them
    versions,   \* history: the buckets Redis has held for each key
    writes      \* number of writes of simulations

shared == <<entries, stats, redis>>
local == <<req, pool, todo, iter, fetched, hits>>
history == <<raced, noted, collided, versions, writes>>
vars == <<shared, pc, local, history>>

Entry == [pool : Pools, last_touched : Nat]
NoRequest == [key |-> "none", now |-> 0]
Ended == {"done", "raised", "redis_error"}
Active(h) == pc[h] \notin Ended \cup {"new"}

Init ==
    /\ entries = [k \in Keys |-> {}]
    /\ stats = [t \in Tenants |-> 0]
    /\ redis \in [Keys -> Buckets \cup {{}}]
    /\ pc = [h \in Handlers |-> "new"]
    /\ req = [h \in Handlers |-> NoRequest]
    /\ pool = [h \in Handlers |-> 1]
    /\ todo = [h \in Handlers |-> {}]
    /\ iter = [h \in Handlers |-> 0]
    /\ fetched = [h \in Handlers |-> {}]
    /\ hits = [h \in Handlers |-> {}]
    /\ raced = {} /\ collided = {} /\ writes = 0
    /\ noted = [t \in Tenants |-> 0]
    /\ versions = [k \in Keys |-> {redis[k]}]

-----------------------------------------------------------------------------

Goto(h, from, to) == pc[h] = from /\ pc' = [pc EXCEPT ![h] = to]

Size(dict, absent) == Cardinality({k \in DOMAIN dict : dict[k] # absent})

\* Mutant: entries are listed and evicted one by one.
ItemsPerEntry ==
    UNION {{[key |-> k, bucket |-> {e}] : e \in entries[k]} : k \in Keys}

\* list(self.entries.items())
Items == {[key |-> k, bucket |-> entries[k]] : k \in {k \in Keys : entries[k] # {}}}

\* An iteration remembers the size.  It raises at the next item if the size
\* has changed, so it may raise at any time when it differs, and ends at a time
\* when it does not.
Iterate(h, dict, absent) == iter' = [iter EXCEPT ![h] = Size(dict, absent)]

EndOfIteration(h, dict, absent) ==
    /\ iter[h] = Size(dict, absent)
    /\ iter' = [iter EXCEPT ![h] = 0]

\* A handler starts: refresh(), or snapshot(0), first lists the items.
\* From now on it is not alone if another handler is active.
Start(h, to, r) ==
    /\ Goto(h, "new", to)
    /\ req' = [req EXCEPT ![h] = r]
    /\ todo' = [todo EXCEPT ![h] = Items]
    /\ LET others == {g \in Handlers : Active(g)}
       IN  raced' = raced \cup others \cup (IF others = {} THEN {} ELSE {h})
    /\ UNCHANGED <<shared, pool, iter, fetched, hits, noted, collided, versions, writes>>

Route(h, k, now) == Start(h, "evict", [key |-> k, now |-> now])
Cache(h) == Start(h, "evict_all", NoRequest)

\* Mutant: an entry expires at exactly its TTL.
StrictSurvivors(bucket, now) == {e \in bucket : now - e.last_touched < Ttl}

Survivors(bucket, now) == {e \in bucket : now - e.last_touched <= Ttl}

Evicting == {"evict", "score_evict", "evict_all"}

\* One iteration of evict_stale: the bucket that was listed is filtered, and
\* its survivors are stored, whatever the key holds by now ...
EvictItem(h) ==
    /\ pc[h] \in Evicting
    /\ \E i \in todo[h] :
         /\ entries[i.key] # {} \/ Survivors(i.bucket, req[h].now) # {}
         /\ entries' = [entries EXCEPT ![i.key] = Survivors(i.bucket, req[h].now)]
         /\ todo' = [todo EXCEPT ![h] = @ \ {i}]
    /\ UNCHANGED <<stats, redis, pc, req, pool, iter, fetched, hits, history>>

\* ... or del finds that another thread has removed the key.
EvictRaises(h) ==
    /\ pc[h] \in Evicting
    /\ \E i \in todo[h] : entries[i.key] = {} /\ Survivors(i.bucket, req[h].now) = {}
    /\ Goto(h, pc[h], "raised")
    /\ UNCHANGED <<shared, local, history>>

\* After the eviction, reserved_gb() and snapshot() iterate over the directory.
BeginSum(h) ==
    /\ todo[h] = {}
    /\ Goto(h, "evict", "sum") \/ Goto(h, "evict_all", "sum_all")
    /\ Iterate(h, entries, {})
    /\ UNCHANGED <<shared, req, pool, todo, fetched, hits, history>>

\* The loop over the pools is at its end.
LastPool(h) == pool[h] = PoolCount

\* The end of an iteration of refresh(): on to the next pool, which lists the
\* items again, or to note_submission.
NextReserve(h) ==
    IF LastPool(h)
    THEN /\ Goto(h, "sum", "submit")
         /\ pool' = [pool EXCEPT ![h] = 1]
         /\ UNCHANGED todo
    ELSE /\ Goto(h, "sum", "evict")
         /\ pool' = [pool EXCEPT ![h] = @ + 1]
         /\ todo' = [todo EXCEPT ![h] = Items]

Sum(h) ==
    /\ EndOfIteration(h, entries, {})
    /\ \/ NextReserve(h)
       \/ Goto(h, "sum_all", "done") /\ UNCHANGED <<pool, todo>>
    /\ UNCHANGED <<shared, req, fetched, hits, history>>

\* RuntimeError: dictionary changed size during iteration.
SumRaises(h) ==
    /\ pc[h] \in {"sum", "sum_all"}
    /\ iter[h] # Size(entries, {})
    /\ Goto(h, pc[h], "raised")
    /\ UNCHANGED <<shared, local, history>>

-----------------------------------------------------------------------------
(* note_submission: tenant_stats is a defaultdict. *)

TenantIn(h) == TenantOf[req[h].key]

Note(t) == noted' = [noted EXCEPT ![t] = @ + 1]

\* Another handler is about to store a new record for the tenant.
Creating(h) == \E g \in Handlers \ {h} : pc[g] = "create" /\ TenantIn(g) = TenantIn(h)

Collide(h) ==
    collided' = collided \cup (IF Creating(h) THEN {TenantIn(h)} ELSE {})

\* The tenant is known and counted ...
NoteSubmission(h) ==
    /\ Goto(h, "submit", "score")
    /\ stats[TenantIn(h)] # 0
    /\ stats' = [stats EXCEPT ![TenantIn(h)] = @ + 1]
    /\ Note(TenantIn(h)) /\ Collide(h)
    /\ UNCHANGED <<entries, redis, local, raced, versions, writes>>

\* ... or __missing__ calls TenantStats().
MissTenant(h) ==
    /\ Goto(h, "submit", "create")
    /\ stats[TenantIn(h)] = 0
    /\ UNCHANGED <<shared, local, history>>

\* Mutant: the first submission of a tenant is counted twice.
DoubleRecord == 2

\* The record that __missing__ stores, counted once.
NewRecord == 1

\* The new record replaces the one another handler may have stored meanwhile.
CreateTenant(h) ==
    /\ Goto(h, "create", "score")
    /\ stats' = [stats EXCEPT ![TenantIn(h)] = NewRecord]
    /\ Note(TenantIn(h)) /\ Collide(h)
    /\ UNCHANGED <<entries, redis, local, raced, versions, writes>>

-----------------------------------------------------------------------------
(* route: build_candidates scores every pool. *)

BeginScore(h) ==
    /\ Goto(h, "score", "score_evict")
    /\ todo' = [todo EXCEPT ![h] = Items]
    /\ UNCHANGED <<shared, req, pool, iter, fetched, hits, history>>

\* An absent key sends the handler to Redis.
LookUp(h) ==
    /\ todo[h] = {}
    /\ Goto(h, "score_evict", IF entries[req[h].key] = {} THEN "fetch" ELSE "read")
    /\ UNCHANGED <<shared, local, history>>

Fetch(h) ==
    /\ Goto(h, "fetch", "hydrate")
    /\ fetched' = [fetched EXCEPT ![h] = redis[req[h].key]]
    /\ UNCHANGED <<shared, req, pool, todo, iter, hits, history>>

FetchRaises(h) ==
    /\ Goto(h, "fetch", "redis_error")
    /\ UNCHANGED <<shared, local, history>>

\* Mutant: what is read is added to what the key holds by now.
HydrateInto(bucket, read) == bucket \cup read

\* The key holds what was read, if anything was.
Hydrated(bucket, read) == IF read = {} THEN bucket ELSE read

Hydrate(h) ==
    /\ Goto(h, "hydrate", "read")
    /\ entries' = [entries EXCEPT ![req[h].key] = Hydrated(@, fetched[h])]
    /\ fetched' = [fetched EXCEPT ![h] = {}]
    /\ UNCHANGED <<stats, redis, req, pool, todo, iter, hits, history>>

Ready(bucket, now) == {e \in bucket : e.last_touched <= now}

\* The score of the pool, then _fairness_penalty iterates over tenant_stats.
Read(h) ==
    /\ Goto(h, "read", "penalty")
    /\ hits' = [hits EXCEPT ![h] =
                  IF Ready(entries[req[h].key], req[h].now) = {} THEN @ ELSE @ \cup {pool[h]}]
    /\ Iterate(h, stats, 0)
    /\ UNCHANGED <<shared, req, pool, todo, fetched, history>>

\* The end of an iteration of build_candidates: the next pool, or the choice
\* and the answer, which change nothing here.
Penalty(h) ==
    /\ EndOfIteration(h, stats, 0)
    /\ Goto(h, "penalty", IF LastPool(h) THEN "done" ELSE "score")
    /\ pool' = [pool EXCEPT ![h] = IF LastPool(h) THEN @ ELSE @ + 1]
    /\ UNCHANGED <<shared, req, todo, fetched, hits, history>>

PenaltyRaises(h) ==
    /\ pc[h] = "penalty"
    /\ iter[h] # Size(stats, 0)
    /\ Goto(h, "penalty", "raised")
    /\ UNCHANGED <<shared, local, history>>

-----------------------------------------------------------------------------

\* A simulation mirrors a bucket of its own directory.
SimulationWrites(k, bucket) ==
    /\ writes < MaxWrites
    /\ writes' = writes + 1
    /\ redis' = [redis EXCEPT ![k] = bucket]
    /\ versions' = [versions EXCEPT ![k] = @ \cup {bucket}]
    /\ UNCHANGED <<entries, stats, pc, local, raced, noted, collided>>

Step(h) ==
    \/ EvictItem(h) \/ EvictRaises(h) \/ BeginSum(h) \/ Sum(h) \/ SumRaises(h)
    \/ NoteSubmission(h) \/ MissTenant(h) \/ CreateTenant(h)
    \/ BeginScore(h) \/ LookUp(h) \/ Fetch(h) \/ FetchRaises(h) \/ Hydrate(h)
    \/ Read(h) \/ Penalty(h) \/ PenaltyRaises(h)

Next ==
    \/ \E h \in Handlers :
          \/ \E k \in Keys, now \in Times : Route(h, k, now)
          \/ Cache(h)
          \/ Step(h)
    \/ \E k \in Keys, bucket \in Buckets : SimulationWrites(k, bucket)

Spec == Init /\ [][Next]_vars

-----------------------------------------------------------------------------
(* Properties. *)

\* Directory, mirror and tenant records hold entries of known pools and
\* counts; a handler's lists and iterations are of the kind its place implies.
TypeOK ==
    /\ entries \in [Keys -> SUBSET Entry] /\ redis \in [Keys -> Buckets \cup {{}}]
    /\ stats \in [Tenants -> Nat] /\ noted \in [Tenants -> Nat]
    /\ pc \in [Handlers -> Ended \cup Evicting \cup {"new", "sum", "sum_all", "submit",
                 "create", "score", "fetch", "hydrate", "read", "penalty"}]
    /\ req \in [Handlers -> [key : Keys \cup {"none"}, now : Times \cup {0}]]
    /\ pool \in [Handlers -> Pools] /\ hits \in [Handlers -> SUBSET Pools]
    /\ todo \in [Handlers -> SUBSET [key : Keys, bucket : SUBSET Entry]]
    /\ iter \in [Handlers -> Nat]
    /\ fetched \in [Handlers -> Buckets \cup {{}}]
    /\ raced \subseteq Handlers /\ collided \subseteq Tenants
    /\ versions \in [Keys -> SUBSET (Buckets \cup {{}})] /\ writes \in Nat

\* A handler that no other overlaps never fails in its own loops: evict_stale
\* deletes each key once, and nothing changes the size of a dictionary that
\* the same handler iterates over.  Only handlers that overlap fail.
LoneHandlersSucceed == \A h \in Handlers : pc[h] = "raised" => h \in raced

\* Handlers that hydrate, evict and write back survivors of the same key in
\* any order leave in memory what Redis held at some time, or a part of it,
\* never a mixture of two versions, which could count a pool twice.
NeverMixed ==
    \A k \in Keys : entries[k] = {} \/ \E v \in versions[k] : entries[k] \subseteq v

\* Submissions are counted exactly, failed handlers included, except for a
\* tenant whose record one handler created while another noted a submission.
SubmissionsCounted == \A t \in Tenants \ collided : stats[t] = noted[t]

\* While Redis does not change, a handler whose arrival time is the latest so
\* far finds a completed, unexpired mirrored entry for every pool it scores,
\* although others evict and rewrite the key between its hydration and its
\* lookup.
MirroredIsHit ==
    \A h \in Handlers :
        LET k == req[h].key
            now == req[h].now
        IN  pc[h] = "done" /\ k \in Keys /\ writes = 0
              /\ (\A g \in Handlers : req[g].now <= now)
              /\ (\E e \in redis[k] : now - e.last_touched \in 0 .. Ttl)
            => hits[h] = Pools
=============================================================================
