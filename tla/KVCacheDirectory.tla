-------------------------- MODULE KVCacheDirectory --------------------------
(***************************************************************************)
(* KVCacheDirectory instances of several processes (a simulation, an API   *)
(* server, the workers of a Ray sweep), each with its own memory, mirrored *)
(* into one Redis hash, nimbusmesh:cache_affinity, that outlives them.     *)
(*                                                                         *)
(* A process handles one request at a time: refresh() evicts, one score()  *)
(* per pool follows, and then the result of the placement is observed,     *)
(* unless the request is rejected or only routed.  Each of these calls is  *)
(* one step, since each makes at most one access to Redis; the steps of    *)
(* different processes interleave.  Arrival times are those of a trace or  *)
(* of API requests, in any order.                                          *)
(***************************************************************************)
EXTENDS CacheEntries

CONSTANTS
    Procs,         \* processes with a directory of their own
    RedisEnabled,  \* NIMBUS_REDIS_URL is set and redis is importable
    Prompts,       \* prompt lengths offered, in tokens
    GenTokens,     \* tokens generated per request
    Delays,        \* queueing plus service time of a placement, in ticks
    MaxTime,       \* bound on arrival times
    MaxRequests,   \* bound on the number of observed requests
    MaxRuns        \* bound on the number of runs of each process

ASSUME DirectoryAssumption ==
    /\ RedisEnabled \in BOOLEAN
    /\ Prompts \subseteq Nat \ {0}
    /\ GenTokens \in Nat \ {0}
    /\ Delays \subseteq Nat \ {0}
    /\ MaxTime \in Nat /\ MaxRequests \in Nat /\ MaxRuns \in Nat

VARIABLES
    entries,  \* entries[d]: the directory in memory of process d
    redis,    \* the mirrored buckets
    clock,    \* clock[d]: the arrival time of the request d handled last
    call,     \* call[d]: the request d is handling, if any (a set)
    run,      \* run[d]: how many runs process d has started
    alive,    \* the processes that have not died of an exception or a crash
    done      \* history: the requests observed so far

vars == <<entries, redis, clock, call, run, alive, done>>

\* What is kept of a candidate: its memory, and whether it counts as a hit.
Scored == [pool : Pools, mem : Nat, hits : Nat]

Call == [key : Keys, prompt : Prompts, scored : SUBSET Scored]

Request == [id : Nat, proc : Procs, run : Nat, key : Keys, pool : Pools,
            prompt : Nat, finish : Nat]

\* Memories, mirror, calls in progress and history are well typed: what
\* hydration reads back from Redis and what observe() writes are entries of
\* known pools with natural sizes and times.
TypeOK ==
    /\ entries \in [Procs -> Directory]
    /\ redis \in Directory
    /\ clock \in [Procs -> Nat]
    /\ call \in [Procs -> SUBSET Call]
    /\ run \in [Procs -> Nat]
    /\ alive \subseteq Procs
    /\ done \subseteq Request

Init ==
    /\ entries = [d \in Procs |-> EmptyDirectory]
    /\ redis = EmptyDirectory
    /\ clock = [d \in Procs |-> 0]
    /\ call = [d \in Procs |-> {}]
    /\ run = [d \in Procs |-> 1]
    /\ alive = Procs
    /\ done = {}

-----------------------------------------------------------------------------
(* Reading. *)

\* A request arrives: refresh() asks for reserved_gb(), which evicts.
Begin(d, k, prompt, now) ==
    /\ d \in alive
    /\ call[d] = {}
    /\ clock' = [clock EXCEPT ![d] = now]
    /\ entries' = [entries EXCEPT ![d] = EvictStale(@, now)]
    /\ call' = [call EXCEPT ![d] = {[key |-> k, prompt |-> prompt, scored |-> {}]}]
    /\ UNCHANGED <<redis, run, alive, done>>

ScoredPools(c) == {s.pool : s \in c.scored}

\* build_candidates asks for the score at pool p.
Score(d, p) ==
    /\ d \in alive
    /\ \E c \in call[d] :
         LET dir == Consulted(entries[d], redis, c.key, clock[d])
         IN  /\ p \notin ScoredPools(c)
             /\ p = FirstPool \/ FirstPool \in ScoredPools(c)
             /\ entries' = [entries EXCEPT ![d] = dir]
             /\ \E s \in Scores(dir[c.key], c.prompt, p, clock[d]) :
                  call' = [call EXCEPT ![d] = {[c EXCEPT !.scored = @ \cup
                    {[pool |-> p, hits |-> HitIncrement(s),
                      mem |-> RequestMemory(c.key, c.prompt, GenTokens, s.saved)]}]}]
    /\ UNCHANGED <<redis, clock, run, alive, done>>

\* The request is rejected, or was only to be routed (the API).
Drop(d) ==
    /\ d \in alive
    /\ \E c \in call[d] : ScoredPools(c) = Pools
    /\ call' = [call EXCEPT ![d] = {}]
    /\ UNCHANGED <<entries, redis, clock, run, alive, done>>

-----------------------------------------------------------------------------
(* Writing: observe(). *)

\* Mutant: only the entry just observed is mirrored, not its bucket.
PersistLatest(k, after) ==
    IF RedisEnabled
    THEN [redis EXCEPT ![k] = {e \in after[k] : \A f \in after[k] : ~Outranks(f, e)}]
    ELSE redis

Persisted(k, after) ==
    IF RedisEnabled THEN [redis EXCEPT ![k] = after[k]] ELSE redis

\* The directories before the trim, when the request of call c, placed at
\* the pool scored s, is observed with completion time `finish`.
Observed(d, c, s, finish) ==
    {[entries[d] EXCEPT ![c.key] = bucket] :
        bucket \in Capped(Touched(entries[d][c.key], s.pool, c.prompt, s.mem,
                                  finish, s.hits))}

NewRequest(d, c, s, finish) ==
    [id |-> Cardinality(done), proc |-> d, run |-> run[d], key |-> c.key,
     pool |-> s.pool, prompt |-> c.prompt, finish |-> finish]

\* The common part of the two outcomes of observe().
Observe(d, c, s, finish, after) ==
    /\ d \in alive
    /\ ScoredPools(c) = Pools
    /\ Cardinality(done) < MaxRequests
    /\ after \in Observed(d, c, s, finish)
    /\ redis' = Persisted(c.key, after)
    /\ done' = done \cup {NewRequest(d, c, s, finish)}
    /\ call' = [call EXCEPT ![d] = {}]
    /\ UNCHANGED <<clock, run>>

\* A request is served at pool p: the directory is trimmed last.
Serve(d, p, delay) ==
    \E c \in call[d] : \E s \in c.scored :
    \E after \in Observed(d, c, s, clock[d] + delay) :
        /\ s.pool = p
        /\ Observe(d, c, s, clock[d] + delay, after)
        /\ ~TrimRaises(after)
        /\ \E dir \in Trimmed(after) : entries' = [entries EXCEPT ![d] = dir]
        /\ UNCHANGED alive

\* The trim raises, after the mirror was written: nothing catches it.
ServeRaises(d, p, delay) ==
    \E c \in call[d] : \E s \in c.scored :
    \E after \in Observed(d, c, s, clock[d] + delay) :
        /\ s.pool = p
        /\ Observe(d, c, s, clock[d] + delay, after)
        /\ TrimRaises(after)
        /\ entries' = [entries EXCEPT ![d] = EmptyDirectory]
        /\ alive' = alive \ {d}

-----------------------------------------------------------------------------
(* Processes. *)

\* The process ends, or dies of a Redis error in the middle of a request,
\* and takes its memory with it.
Crash(d) ==
    /\ d \in alive
    /\ entries' = [entries EXCEPT ![d] = EmptyDirectory]
    /\ call' = [call EXCEPT ![d] = {}]
    /\ alive' = alive \ {d}
    /\ UNCHANGED <<redis, clock, run, done>>

\* A new run starts with an empty directory at time zero; Redis is kept.
Restart(d) ==
    /\ d \notin alive
    /\ run[d] < MaxRuns
    /\ alive' = alive \cup {d}
    /\ run' = [run EXCEPT ![d] = @ + 1]
    /\ clock' = [clock EXCEPT ![d] = 0]
    /\ UNCHANGED <<entries, redis, call, done>>

Step(d) ==
    \/ \E k \in Keys, prompt \in Prompts, now \in 0 .. MaxTime : Begin(d, k, prompt, now)
    \/ \E p \in Pools : Score(d, p)
    \/ Drop(d)
    \/ \E p \in Pools, delay \in Delays : Serve(d, p, delay) \/ ServeRaises(d, p, delay)
    \/ Crash(d)
    \/ Restart(d)

Next == \E d \in Procs : Step(d)

Spec == Init /\ [][Next]_vars

-----------------------------------------------------------------------------
(* What a lookup of process d could return now. *)

\* The entries a score() of key k would take into account.
Usable(d, k) == Ready(Consulted(entries[d], redis, k, clock[d])[k], clock[d])

\* Every hit a lookup can report comes from a request for the same key that
\* was placed at the entry's pool and has completed: the check of
\* available_ts in score(), through eviction, hydration from Redis, restarts
\* and the writes of other processes.
HitsBacked ==
    \A d \in alive, k \in Keys : \A e \in Usable(d, k) :
        \E r \in done : /\ r.key = k /\ r.pool = e.pool
                        /\ r.finish = e.last_touched
                        /\ r.finish <= clock[d]

\* A hit comes from a request that completed at most Ttl ago: stale entries
\* are evicted before scoring (evict_stale in score()).
HitsFresh ==
    \A d \in alive, k \in Keys : \A e \in Usable(d, k) :
        \E r \in done : /\ r.key = k /\ r.pool = e.pool
                        /\ r.finish <= clock[d] /\ clock[d] <= r.finish + Ttl

\* A hit exposes no more tokens than some completed request for the key at
\* that pool has computed: no entry is exposed before the request it
\* originates from has completed.
HitsComputed ==
    \A d \in alive, k \in Keys : \A e \in Usable(d, k) :
        \E r \in done : /\ r.key = k /\ r.pool = e.pool
                        /\ r.finish <= clock[d] /\ e.size_tokens <= r.prompt

-----------------------------------------------------------------------------
(* What the directories hold. *)

\* At most one entry per key and pool, in memory and in the mirror, so that
\* the first match of observe() is the only one and reserved_gb() counts a
\* prefix once; and no bucket above the cap.
BucketShape ==
    \A dir \in {entries[d] : d \in Procs} \cup {redis} : \A k \in Keys :
        /\ \A e, f \in dir[k] : e.pool = f.pool => e = f
        /\ Cardinality(dir[k]) <= BucketCap

\* The directory of a process never holds more than MaxEntries entries
\* (_trim at the end of observe()); only hydration can exceed the bound.
TotalBounded == \A d \in Procs : ~Overfull(entries[d])

\* Only process d has observed requests for key k, in this or an earlier run.
SoleWriter(d, k) == \A r \in done : r.key = k => r.proc = d

\* What a process has in memory for a key no other process has written is also
\* in Redis, so that it finds it again after a restart (_persist_to_redis
\* writes the whole bucket after every change); processes that observe the
\* same key overwrite each other's buckets.
MirrorComplete ==
    \A d \in Procs, k \in Keys : SoleWriter(d, k) => entries[d][k] \subseteq redis[k]

\* The entries of dir under the keys ks that rank below e.
Below(e, dir, ks) == UNION {{f \in dir[k] : Outranks(e, f)} : k \in ks}

\* A surviving process loses an entry of a pool only if it has expired, if its
\* bucket was full and no entry that stays in it ranks below, or if no entry
\* that stays under any key does: the cap and the trim drop the least used,
\* least recently touched entries first, the trim those of all keys together.
LossJustified ==
    [][\A d \in alive \cap alive', k \in Keys : \A e \in entries[d][k] :
          \/ \E f \in entries'[d][k] : f.pool = e.pool
          \/ clock'[d] - e.last_touched > Ttl
          \/ Cardinality(entries[d][k]) = BucketCap /\ Below(e, entries'[d], {k}) = {}
          \/ Below(e, entries'[d], Keys) = {}]_vars
=============================================================================
