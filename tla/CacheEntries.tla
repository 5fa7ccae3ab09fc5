---------------------------- MODULE CacheEntries ----------------------------
(***************************************************************************)
(* The data of cache_directory/directory.py as pure operators: the buckets *)
(* of cache entries a KVCacheDirectory keeps, how they are evicted,        *)
(* hydrated from Redis, scored, updated, capped and trimmed.  The modules  *)
(* KVCacheDirectory and ControlPlane build their actions from these.       *)
(*                                                                         *)
(* Abstractions.  Time is in ticks.  A bucket is a set: its list order     *)
(* decides only ties (between equal hit ratios, equal sort keys), so an    *)
(* operator with ties returns the set of possible outcomes.  A missing     *)
(* bucket of the defaultdict is an empty one.  Memory is counted in 1/20   *)
(* of one token's memory, which makes the factor 0.55 exact; ratios in     *)
(* 1/(1000 * Ttl), which makes the products of score() exact (its final    *)
(* rounding to four digits never turns a positive ratio into zero).        *)
(***************************************************************************)
EXTENDS Integers, FiniteSets, FiniteSetsExt

CONSTANTS
    Keys,        \* model:tenant:prefix_signature
    Pools,       \* accelerator pools (a pool id with its cluster id)
    FirstPool,   \* the pool build_candidates scores first
    ClusterOf,   \* the cluster of each pool
    ModelScale,  \* model_scale() of the model of each key
    Ttl,         \* ttl_s
    BucketCap,   \* entries kept per key, the literal 4 of observe()
    MaxEntries   \* max_entries

ASSUME CacheAssumption ==
    /\ FirstPool \in Pools
    /\ ModelScale \in [Keys -> Nat \ {0}]
    /\ Ttl \in Nat \ {0}
    /\ BucketCap \in Nat \ {0}
    /\ MaxEntries \in Nat \ {0}

Entry == [pool : Pools, size_tokens : Nat, size_gb : Nat,
          available_ts : Nat, last_touched : Nat, hit_count : Nat]

Directory == [Keys -> SUBSET Entry]

EmptyDirectory == [k \in Keys |-> {}]

\* Memory of a request, whose cached tokens need none of their own.
RequestMemory(k, prompt, gen, saved) ==
    20 * ModelScale[k] * Max({1, prompt + gen - saved})

-----------------------------------------------------------------------------
(* Reading: evict_stale, _hydrate_from_redis, score. *)

\* Mutant: an entry expires one tick late.
LateEvict(dir, now) ==
    [k \in Keys |-> {e \in dir[k] : now - e.last_touched <= Ttl + 1}]

EvictStale(dir, now) ==
    [k \in Keys |-> {e \in dir[k] : now - e.last_touched <= Ttl}]

\* Mutant: entries read back are taken to be available at once.
HydrateReady(dir, store, k) ==
    IF dir[k] = {}
    THEN [dir EXCEPT ![k] = {[e EXCEPT !.available_ts = 0] : e \in store[k]}]
    ELSE dir

\* Reads the mirrored bucket when memory has none; with Redis disabled the
\* store stays empty, and so does the bucket.
HydrateFromRedis(dir, store, k) ==
    IF dir[k] = {} THEN [dir EXCEPT ![k] = store[k]] ELSE dir

\* The directory one call of score() reads: evicted first, then hydrated.
Consulted(dir, store, k, now) ==
    HydrateFromRedis(EvictStale(dir, now), store, k)

\* build_candidates scores every pool in turn: the first call may hydrate
\* expired entries, which the second call evicts again (and hydrates again
\* only if nothing else is left); further calls change nothing.
ConsultedFor(dir, store, k, p, now) ==
    LET first == Consulted(dir, store, k, now)
    IN  IF p = FirstPool THEN first ELSE Consulted(first, store, k, now)

ConsultedByAll(dir, store, k, now) ==
    IF Pools = {FirstPool} THEN Consulted(dir, store, k, now)
    ELSE Consulted(Consulted(dir, store, k, now), store, k, now)

LocationBonus(e, p) ==
    IF e.pool = p THEN 100
    ELSE IF ClusterOf[e.pool] = ClusterOf[p] THEN 70 ELSE 35

HitRatio(e, p, now) ==
    LET freshness == Max({Ttl, 10 * (Ttl - (now - e.last_touched))})
    IN  Min({950 * Ttl, freshness * LocationBonus(e, p)})

SavedTokens(e, prompt, p, now) ==
    (Min({e.size_tokens, prompt}) * HitRatio(e, p, now)) \div (1000 * Ttl)

\* Mutant: entries of requests still running are usable.
AllReady(bucket, now) == bucket

Ready(bucket, now) == {e \in bucket : e.available_ts <= now}

\* What score() may return for a request of `prompt` tokens at pool p.
Scores(bucket, prompt, p, now) ==
    LET ready == Ready(bucket, now)
        best  == {e \in ready : \A f \in ready :
                                   HitRatio(f, p, now) <= HitRatio(e, p, now)}
    IN  IF ready = {} THEN {[ratio |-> 0, saved |-> 0]}
        ELSE {[ratio |-> HitRatio(e, p, now),
               saved |-> SavedTokens(e, prompt, p, now)] : e \in best}

-----------------------------------------------------------------------------
(* Writing: observe, _persist_to_redis, _trim. *)

HitIncrement(score) == IF score.ratio > 0 THEN 1 ELSE 0

\* Mutant: cluster_id and pool_id are swapped.
SwappedIds(p, prompt, mem, finish, hits) ==
    [pool |-> ClusterOf[p], size_tokens |-> prompt, size_gb |-> (11 * mem) \div 20,
     available_ts |-> finish, last_touched |-> finish, hit_count |-> hits]

\* The entry observe() appends for a pool that has none in the bucket.
NewEntry(p, prompt, mem, finish, hits) ==
    [pool |-> p, size_tokens |-> prompt, size_gb |-> (11 * mem) \div 20,
     available_ts |-> finish, last_touched |-> finish, hit_count |-> hits]

\* The entry of the pool updated in place: sizes only grow, times are the
\* ones of the request observed last.
TouchedEntry(e, prompt, mem, finish, hits) ==
    [e EXCEPT !.size_tokens  = Max({@, prompt}),
              !.size_gb      = Max({@, (11 * mem) \div 20}),
              !.available_ts = finish,
              !.last_touched = finish,
              !.hit_count    = @ + hits]

\* Mutant: the search for the pool's entry is missing.
AlwaysAppend(bucket, p, prompt, mem, finish, hits) ==
    bucket \cup {NewEntry(p, prompt, mem, finish, hits)}

Touched(bucket, p, prompt, mem, finish, hits) ==
    IF \E e \in bucket : e.pool = p
    THEN {IF e.pool = p THEN TouchedEntry(e, prompt, mem, finish, hits) ELSE e :
             e \in bucket}
    ELSE bucket \cup {NewEntry(p, prompt, mem, finish, hits)}

\* The sort key of both the cap and the trim: (hit_count, last_touched).
Outranks(e, f) ==
    \/ e.hit_count > f.hit_count
    \/ e.hit_count = f.hit_count /\ e.last_touched > f.last_touched

\* The buckets the cap may leave: the best BucketCap entries.
Capped(bucket) ==
    IF Cardinality(bucket) <= BucketCap THEN {bucket}
    ELSE {b \in kSubset(BucketCap, bucket) :
             \A kept \in b, lost \in bucket \ b : ~Outranks(lost, kept)}

Items(dir) == UNION {{k} \X dir[k] : k \in Keys}

Overfull(dir) == Cardinality(Items(dir)) > MaxEntries

\* items.sort() compares CacheEntry objects, which have no order, as soon as
\* two entries of one key tie on hit_count and last_touched: TypeError.
TrimRaises(dir) ==
    /\ Overfull(dir)
    /\ \E k \in Keys : \E e, f \in dir[k] :
          e # f /\ ~Outranks(e, f) /\ ~Outranks(f, e)

\* Mutant: the trim removes one entry only when two too many are held.
TrimOffByOne(dir) ==
    IF Cardinality(Items(dir)) <= MaxEntries + 1 THEN {dir}
    ELSE {[k \in Keys |-> {e \in dir[k] : <<k, e>> \in kept}] :
             kept \in kSubset(MaxEntries, Items(dir))}

\* Mutant: the sort compares the keys first.
TrimByKey(dir) ==
    IF ~Overfull(dir) THEN {dir}
    ELSE {[k \in Keys |-> {e \in dir[k] : <<k, e>> \in kept}] :
             kept \in {s \in kSubset(MaxEntries, Items(dir)) :
                         \A i \in s, j \in Items(dir) \ s :
                            i[1] = j[1] => ~Outranks(j[2], i[2])}}

\* The directories the trim may leave: the best MaxEntries items.
Trimmed(dir) ==
    IF ~Overfull(dir) THEN {dir}
    ELSE {[k \in Keys |-> {e \in dir[k] : <<k, e>> \in kept}] :
             kept \in {s \in kSubset(MaxEntries, Items(dir)) :
                         \A i \in s, j \in Items(dir) \ s : ~Outranks(j[2], i[2])}}

\* Memory the directory reserves at a pool (reserved_gb after its eviction).
ReservedGb(dir, p) ==
    MapThenSumSet(LAMBDA i : i[2].size_gb, {i \in Items(dir) : i[2].pool = p})
=============================================================================
