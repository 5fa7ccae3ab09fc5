----------------------- MODULE KVCacheDirectoryProofs -----------------------
(***************************************************************************)
(* Theorems about KVCacheDirectory for every set of processes, keys and    *)
(* pools, every time to live, cap and bound.                               *)
(***************************************************************************)
EXTENDS KVCacheDirectory, CacheEntriesProofs

(* What the steps do to the directories. *)

\* A step of process d that reads (or loses) its directory.
Reads(d) ==
    \E dir \in Directory :
        /\ entries' = [entries EXCEPT ![d] = dir]
        /\ \A x \in Keys : dir[x] \subseteq entries[d][x] \/ dir[x] \subseteq redis[x]
        /\ UNCHANGED <<redis, done>>

\* A step of process d that observes the request of call c at the pool scored
\* s, with `after` the directory before the trim and dir the one left.
Writes(d, c, s, finish, after, dir) ==
    /\ entries' = [entries EXCEPT ![d] = dir]
    /\ dir = EmptyDirectory \/ dir \in Trimmed(after)
    /\ \A x \in Keys : dir[x] \subseteq after[x]
    /\ redis' = Persisted(c.key, after)
    /\ done' = done \cup {NewRequest(d, c, s, finish)}

Observes(d) ==
    \E c \in call[d] : \E s \in c.scored, finish \in Nat :
    \E after \in Observed(d, c, s, finish), dir \in Directory :
        Writes(d, c, s, finish, after, dir)

\* The directory after observe(), before the trim: the bucket of the key is
\* the updated and capped one, the others are untouched.
LEMMA ObservedShape ==
    ASSUME TypeOK, NEW d \in Procs, NEW c \in call[d], NEW s \in c.scored,
           NEW finish \in Nat, NEW after \in Observed(d, c, s, finish)
    PROVE  /\ c.key \in Keys /\ c.prompt \in Nat
           /\ s.pool \in Pools /\ s.mem \in Nat /\ s.hits \in Nat
           /\ after[c.key] \in Capped(Touched(entries[d][c.key], s.pool, c.prompt,
                                              s.mem, finish, s.hits))
           /\ after[c.key] \subseteq Touched(entries[d][c.key], s.pool, c.prompt,
                                             s.mem, finish, s.hits)
           /\ after = [entries[d] EXCEPT ![c.key] = after[c.key]]
           /\ after \in Directory
<1>1. /\ c \in Call /\ s \in Scored /\ entries[d] \in Directory
  <2>1. c \in Call /\ entries[d] \in Directory
    BY DEF TypeOK
  <2> QED  BY <2>1 DEF Call
<1>2. c.key \in Keys /\ c.prompt \in Nat /\ s.pool \in Pools /\ s.mem \in Nat /\ s.hits \in Nat
  BY <1>1, DirectoryAssumption DEF Call, Scored
<1> DEFINE touched == Touched(entries[d][c.key], s.pool, c.prompt, s.mem, finish, s.hits)
<1>3. entries[d][c.key] \in SUBSET Entry
  BY <1>1, <1>2 DEF Directory
<1>4. touched \subseteq Entry
  BY <1>2, <1>3, TouchedType
<1>5. PICK bucket \in Capped(touched) : after = [entries[d] EXCEPT ![c.key] = bucket]
  BY DEF Observed
<1> HIDE DEF touched
<1>6. bucket \subseteq touched
  BY <1>5, CappedSubset
<1>7. after[c.key] = bucket /\ after \in Directory
  BY <1>1, <1>2, <1>4, <1>5, <1>6 DEF Directory
<1> QED  BY <1>2, <1>5, <1>6, <1>7 DEF touched

\* The two outcomes of a served request observe it.
LEMMA ServesObserve ==
    ASSUME TypeOK, NEW d \in Procs, NEW p \in Pools, NEW delay \in Delays,
           Serve(d, p, delay) \/ ServeRaises(d, p, delay)
    PROVE  Observes(d)
<1> DEFINE finish == clock[d] + delay
<1>1. EmptyDirectory \in Directory /\ finish \in Nat
  BY DirectoryAssumption DEF EmptyDirectory, Directory, TypeOK
<1>2. CASE Serve(d, p, delay)
  <2>0. PICK c \in call[d] : \E s \in c.scored : \E after \in Observed(d, c, s, finish) :
          /\ Observe(d, c, s, finish, after)
          /\ \E dir \in Trimmed(after) : entries' = [entries EXCEPT ![d] = dir]
    BY <1>2 DEF Serve
  <2>1. PICK s \in c.scored : \E after \in Observed(d, c, s, finish) :
          /\ Observe(d, c, s, finish, after)
          /\ \E dir \in Trimmed(after) : entries' = [entries EXCEPT ![d] = dir]
    BY <2>0
  <2>2. PICK after \in Observed(d, c, s, finish) :
          /\ Observe(d, c, s, finish, after)
          /\ \E dir \in Trimmed(after) : entries' = [entries EXCEPT ![d] = dir]
    BY <2>1
  <2>3. after \in Directory
    BY <1>1, <2>2, ObservedShape
  <2>4. PICK dir \in Trimmed(after) : entries' = [entries EXCEPT ![d] = dir]
    BY <2>2
  <2>5. dir \in Directory /\ \A x \in Keys : dir[x] \subseteq after[x]
    BY <2>3, <2>4, TrimmedSubset
  <2>6. Writes(d, c, s, finish, after, dir)
    BY <2>2, <2>4, <2>5 DEF Writes, Observe
  <2> HIDE DEF finish
  <2> QED  BY <1>1, <2>2, <2>5, <2>6 DEF Observes
<1>3. CASE ServeRaises(d, p, delay)
  <2>0. PICK c \in call[d] : \E s \in c.scored : \E after \in Observed(d, c, s, finish) :
          /\ Observe(d, c, s, finish, after)
          /\ entries' = [entries EXCEPT ![d] = EmptyDirectory]
    BY <1>3 DEF ServeRaises
  <2>1. PICK s \in c.scored : \E after \in Observed(d, c, s, finish) :
          /\ Observe(d, c, s, finish, after)
          /\ entries' = [entries EXCEPT ![d] = EmptyDirectory]
    BY <2>0
  <2>2. PICK after \in Observed(d, c, s, finish) :
          /\ Observe(d, c, s, finish, after)
          /\ entries' = [entries EXCEPT ![d] = EmptyDirectory]
    BY <2>1
  <2>3. \A x \in Keys : EmptyDirectory[x] \subseteq after[x]
    BY DEF EmptyDirectory
  <2>4. Writes(d, c, s, finish, after, EmptyDirectory)
    BY <2>2, <2>3 DEF Writes, Observe
  <2> HIDE DEF finish
  <2> QED  BY <1>1, <2>2, <2>4 DEF Observes
<1> QED  BY <1>2, <1>3

\* Every step reads or writes the directory of one process.
LEMMA StepShape ==
    ASSUME TypeOK, NEW d \in Procs, Step(d)
    PROVE  Reads(d) \/ Observes(d)
<1>1. entries \in [Procs -> Directory] /\ redis \in Directory /\ clock[d] \in Nat
  BY DEF TypeOK
<1>2. EmptyDirectory \in Directory
  BY DEF EmptyDirectory, Directory
<1>3. ASSUME NEW k \in Keys, NEW prompt \in Prompts, NEW now \in 0 .. MaxTime,
             Begin(d, k, prompt, now)
      PROVE  Reads(d)
  <2>1. EvictStale(entries[d], now) \in Directory
    BY <1>1 DEF EvictStale, Directory
  <2>2. \A x \in Keys : EvictStale(entries[d], now)[x] \subseteq entries[d][x]
    BY <1>1 DEF EvictStale, Directory
  <2> QED  BY <1>3, <2>1, <2>2 DEF Begin, Reads
<1>4. ASSUME NEW p \in Pools, Score(d, p)
      PROVE  Reads(d)
  <2>1. PICK c \in call[d] :
          entries' = [entries EXCEPT ![d] = Consulted(entries[d], redis, c.key, clock[d])]
    BY <1>4 DEF Score
  <2>2. c.key \in Keys
    BY DEF TypeOK, Call
  <2> DEFINE dir == Consulted(entries[d], redis, c.key, clock[d])
  <2>3. dir \in Directory
    BY <1>1, <2>2, ConsultedType
  <2>4. \A x \in Keys : dir[x] \subseteq entries[d][x] \/ dir[x] \subseteq redis[x]
    BY <1>1, <2>2, ConsultedPart
  <2>5. entries' = [entries EXCEPT ![d] = dir] /\ UNCHANGED <<redis, done>>
    BY <1>4, <2>1 DEF Score
  <2> HIDE DEF dir
  <2> QED  BY <2>3, <2>4, <2>5 DEF Reads
<1>5. ASSUME Drop(d) \/ Restart(d)
      PROVE  Reads(d)
  <2>1. entries' = [entries EXCEPT ![d] = entries[d]] /\ entries[d] \in Directory
    BY <1>1, <1>5 DEF Drop, Restart
  <2> QED  BY <1>5, <2>1 DEF Drop, Restart, Reads
<1>6. ASSUME Crash(d)
      PROVE  Reads(d)
  <2>1. \A x \in Keys : EmptyDirectory[x] \subseteq entries[d][x]
    BY DEF EmptyDirectory
  <2> QED  BY <1>2, <1>6, <2>1 DEF Crash, Reads
<1> QED  BY <1>3, <1>4, <1>5, <1>6, ServesObserve DEF Step

-----------------------------------------------------------------------------
(* Type correctness. *)

\* The call of a process stays well typed: what score() returns gives a
\* natural memory and hit count.
LEMMA CallsTyped ==
    ASSUME TypeOK, NEW d \in Procs, Step(d)
    PROVE  call' \in [Procs -> SUBSET Call]
<1>1. ASSUME NEW c \in SUBSET Call, call' = [call EXCEPT ![d] = c]
      PROVE  call' \in [Procs -> SUBSET Call]
  BY <1>1 DEF TypeOK
<1>2. ASSUME NEW k \in Keys, NEW prompt \in Prompts, NEW now \in 0 .. MaxTime,
             Begin(d, k, prompt, now)
      PROVE  call' \in [Procs -> SUBSET Call]
  <2>1. [key |-> k, prompt |-> prompt, scored |-> {}] \in Call
    BY DEF Call
  <2> QED  BY <1>1, <1>2, <2>1 DEF Begin
<1>3. ASSUME NEW p \in Pools, Score(d, p)
      PROVE  call' \in [Procs -> SUBSET Call]
  <2>1. PICK c \in call[d] :
          LET dir == Consulted(entries[d], redis, c.key, clock[d])
          IN  \E s \in Scores(dir[c.key], c.prompt, p, clock[d]) :
                call' = [call EXCEPT ![d] = {[c EXCEPT !.scored = @ \cup
                  {[pool |-> p, hits |-> HitIncrement(s),
                    mem |-> RequestMemory(c.key, c.prompt, GenTokens, s.saved)]}]}]
    BY <1>3 DEF Score
  <2>2. /\ c \in Call /\ c.key \in Keys /\ c.prompt \in Nat /\ GenTokens \in Nat
        /\ entries[d] \in Directory /\ redis \in Directory /\ clock[d] \in Nat
    <3>1. /\ c \in Call
          /\ entries[d] \in Directory /\ redis \in Directory /\ clock[d] \in Nat
      BY DEF TypeOK
    <3> QED  BY <3>1, DirectoryAssumption DEF Call
  <2> DEFINE bucket == Consulted(entries[d], redis, c.key, clock[d])[c.key]
  <2>3. bucket \in SUBSET Entry
    <3>1. Consulted(entries[d], redis, c.key, clock[d]) \in Directory
      BY <2>2, ConsultedType
    <3> QED  BY <2>2, <3>1 DEF Directory
  <2>4. PICK s \in Scores(bucket, c.prompt, p, clock[d]) :
          call' = [call EXCEPT ![d] = {[c EXCEPT !.scored = @ \cup
            {[pool |-> p, hits |-> HitIncrement(s),
              mem |-> RequestMemory(c.key, c.prompt, GenTokens, s.saved)]}]}]
    BY <2>1
  <2> HIDE DEF bucket
  <2>5. s.saved \in Nat /\ HitIncrement(s) \in Nat
    BY <2>2, <2>3, <2>4, ScoresType
  <2>6. RequestMemory(c.key, c.prompt, GenTokens, s.saved) \in Nat
    BY <2>2, <2>5, RequestMemoryType
  <2> DEFINE new == [pool |-> p, hits |-> HitIncrement(s),
                     mem |-> RequestMemory(c.key, c.prompt, GenTokens, s.saved)]
             next == [c EXCEPT !.scored = @ \cup {new}]
  <2>7. new \in Scored
    BY <2>5, <2>6 DEF Scored
  <2>8. call' = [call EXCEPT ![d] = {next}]
    BY <2>4
  <2> HIDE DEF new
  <2>9. next \in Call
    BY <2>2, <2>7 DEF Call
  <2> QED  BY <1>1, <2>8, <2>9
<1>4. ASSUME \/ Drop(d) \/ Crash(d) \/ Restart(d)
             \/ \E p \in Pools, delay \in Delays : Serve(d, p, delay) \/ ServeRaises(d, p, delay)
      PROVE  call' \in [Procs -> SUBSET Call]
  <2>1. call' = [call EXCEPT ![d] = {}] \/ call' = call
    BY <1>4 DEF Drop, Crash, Restart, Serve, ServeRaises, Observe
  <2> QED  BY <1>1, <2>1 DEF TypeOK
<1> QED  BY <1>2, <1>3, <1>4 DEF Step

\* Memories, mirror and history stay well typed through evictions, lookups,
\* observations, exceptions, crashes and restarts of any set of processes.
THEOREM TypeCorrect == Spec => []TypeOK
<1> DEFINE Inv == TypeOK /\ IsFiniteSet(done)
<1>1. Init => Inv
  BY FS_EmptySet DEF Init, TypeOK, EmptyDirectory, Directory
<1>2. Inv /\ [Next]_vars => Inv'
  <2> SUFFICES ASSUME Inv, [Next]_vars
               PROVE  Inv'
    OBVIOUS
  <2>1. ASSUME NEW d \in Procs, Step(d)
        PROVE  Inv'
    <3>1. 0 .. MaxTime \subseteq Nat
      BY DirectoryAssumption
    <3>2. clock' \in [Procs -> Nat] /\ run' \in [Procs -> Nat] /\ alive' \subseteq Procs
      BY <2>1, <3>1
      DEF TypeOK, Step, Begin, Score, Drop, Serve, ServeRaises, Observe, Crash, Restart
    <3>3. call' \in [Procs -> SUBSET Call]
      BY <2>1, CallsTyped
    <3>4. CASE Reads(d)
      <4>1. entries' \in [Procs -> Directory] /\ redis' \in Directory /\ done' = done
        BY <3>4 DEF Reads, TypeOK
      <4> QED  BY <3>2, <3>3, <4>1 DEF TypeOK
    <3>5. CASE Observes(d)
      <4>1. PICK c \in call[d] : \E s \in c.scored, finish \in Nat :
              \E after \in Observed(d, c, s, finish), dir \in Directory :
                  Writes(d, c, s, finish, after, dir)
        BY <3>5 DEF Observes
      <4>2. PICK s \in c.scored, finish \in Nat :
              \E after \in Observed(d, c, s, finish), dir \in Directory :
                  Writes(d, c, s, finish, after, dir)
        BY <4>1
      <4>3. PICK after \in Observed(d, c, s, finish), dir \in Directory :
              Writes(d, c, s, finish, after, dir)
        BY <4>2
      <4>4. /\ after \in Directory /\ c.key \in Keys /\ s.pool \in Pools
            /\ c.prompt \in Nat
        BY <4>3, ObservedShape
      <4>5. entries' \in [Procs -> Directory]
        BY <4>3 DEF TypeOK, Writes
      <4>6. redis' \in Directory
        BY <4>3, <4>4 DEF Writes, Persisted, TypeOK, Directory
      <4>7. IsFiniteSet(done')
        BY <4>3, FS_AddElement DEF Writes
      <4>8. Cardinality(done) \in Nat /\ run[d] \in Nat
        BY FS_CardinalityType DEF TypeOK
      <4>9. NewRequest(d, c, s, finish) \in Request
        BY <4>4, <4>8 DEF NewRequest, Request
      <4>10. done' \subseteq Request
        BY <4>3, <4>9 DEF Writes, TypeOK
      <4> QED  BY <3>2, <3>3, <4>5, <4>6, <4>7, <4>10 DEF TypeOK
    <3> QED  BY <2>1, <3>4, <3>5, StepShape
  <2>2. CASE UNCHANGED vars
    BY <2>2 DEF vars, TypeOK
  <2> QED  BY <2>1, <2>2 DEF Next
<1> QED  BY <1>1, <1>2, PTL DEF Spec

-----------------------------------------------------------------------------
(* Hits. *)

\* An entry e of key k that stems from a request r of the history.
Backs(r, k, e) == /\ r.key = k /\ r.pool = e.pool
                  /\ r.finish = e.last_touched /\ e.available_ts = e.last_touched

BackedDirectory(dir, reqs) ==
    \A k \in Keys : \A e \in dir[k] : \E r \in reqs : Backs(r, k, e)

\* The strengthening of HitsBacked: every entry, in memory or mirrored, in
\* use or not, stems from an observed request.
AllBacked == /\ \A d \in Procs : BackedDirectory(entries[d], done)
             /\ BackedDirectory(redis, done)

\* Observing a request keeps every entry backed.
LEMMA ObservesBacked ==
    ASSUME TypeOK, AllBacked, NEW d \in Procs, Observes(d)
    PROVE  AllBacked'
<1>1. PICK c \in call[d] : \E s \in c.scored, finish \in Nat :
        \E after \in Observed(d, c, s, finish), dir \in Directory :
            Writes(d, c, s, finish, after, dir)
  BY DEF Observes
<1>2. PICK s \in c.scored, finish \in Nat :
        \E after \in Observed(d, c, s, finish), dir \in Directory :
            Writes(d, c, s, finish, after, dir)
  BY <1>1
<1>3. PICK after \in Observed(d, c, s, finish), dir \in Directory :
        Writes(d, c, s, finish, after, dir)
  BY <1>2
<1> DEFINE k == c.key
           seen == entries[d]
<1>4. /\ k \in Keys
      /\ after[k] \subseteq Touched(seen[k], s.pool, c.prompt, s.mem, finish, s.hits)
      /\ after = [seen EXCEPT ![k] = after[k]]
  BY <1>3, ObservedShape
<1>5. entries \in [Procs -> Directory] /\ redis \in Directory /\ seen \in Directory
  BY DEF TypeOK
<1>6. BackedDirectory(seen, done)
  BY DEF AllBacked
<1>7. \E r \in done' : r.key = k /\ r.pool = s.pool /\ r.finish = finish
  <2> DEFINE new == NewRequest(d, c, s, finish)
  <2>1. new \in done'
    BY <1>3 DEF Writes
  <2>2. new.key = k /\ new.pool = s.pool /\ new.finish = finish
    BY DEF NewRequest
  <2> HIDE DEF new
  <2> QED  BY <2>1, <2>2
<1> HIDE DEF k, seen
<1>8. ASSUME NEW e \in after[k]
      PROVE  \E r \in done' : Backs(r, k, e)
  <2>1. \/ e \in seen[k]
        \/ e = NewEntry(s.pool, c.prompt, s.mem, finish, s.hits)
        \/ \E f \in seen[k] : /\ f.pool = s.pool
                              /\ e = TouchedEntry(f, c.prompt, s.mem, finish, s.hits)
    BY <1>4, <1>8 DEF Touched
  <2>2. CASE e \in seen[k]
    BY <1>3, <1>4, <1>6, <2>2 DEF BackedDirectory, Writes
  <2>3. CASE e = NewEntry(s.pool, c.prompt, s.mem, finish, s.hits)
    BY <1>7, <2>3 DEF Backs, NewEntry
  <2>4. ASSUME NEW f \in seen[k], f.pool = s.pool,
               e = TouchedEntry(f, c.prompt, s.mem, finish, s.hits)
        PROVE  \E r \in done' : Backs(r, k, e)
    <3>1. f \in Entry
      BY <1>4, <1>5, <2>4 DEF Directory
    <3>2. e.pool = s.pool /\ e.last_touched = finish /\ e.available_ts = finish
      BY <2>4, <3>1 DEF TouchedEntry, Entry
    <3> QED  BY <1>7, <3>2 DEF Backs
  <2> QED  BY <2>1, <2>2, <2>3, <2>4
<1>9. BackedDirectory(after, done')
  <2> SUFFICES ASSUME NEW x \in Keys, NEW e \in after[x]
               PROVE  \E r \in done' : Backs(r, x, e)
    BY DEF BackedDirectory
  <2>1. CASE x = k
    BY <1>8, <2>1
  <2>2. CASE x # k
    <3>1. e \in seen[x]
      BY <1>4, <1>5, <2>2 DEF Directory
    <3> QED  BY <1>3, <1>6, <3>1 DEF BackedDirectory, Writes
  <2> QED  BY <2>1, <2>2
<1>10. BackedDirectory(dir, done')
  BY <1>3, <1>9 DEF BackedDirectory, Writes
<1>11. \A y \in Procs : BackedDirectory(entries'[y], done')
  BY <1>3, <1>5, <1>10 DEF AllBacked, BackedDirectory, Writes
<1>12. redis' = redis \/ redis' = [redis EXCEPT ![k] = after[k]]
  BY <1>3 DEF Writes, Persisted, k
<1>13. BackedDirectory(redis, done')
  BY <1>3 DEF AllBacked, BackedDirectory, Writes
<1>14. BackedDirectory(redis', done')
  BY <1>4, <1>5, <1>9, <1>12, <1>13 DEF BackedDirectory, Directory
<1> QED  BY <1>11, <1>14 DEF AllBacked

\* Every step keeps all entries backed.
LEMMA BackedAlways == Spec => []AllBacked
<1>1. Init => AllBacked
  BY DEF Init, AllBacked, BackedDirectory, EmptyDirectory
<1>2. TypeOK /\ AllBacked /\ [Next]_vars => AllBacked'
  <2> SUFFICES ASSUME TypeOK, AllBacked, [Next]_vars
               PROVE  AllBacked'
    OBVIOUS
  <2>1. entries \in [Procs -> Directory] /\ redis \in Directory
    BY DEF TypeOK
  <2>2. ASSUME NEW d \in Procs, Reads(d)
        PROVE  AllBacked'
    <3>1. PICK dir \in Directory :
            /\ entries' = [entries EXCEPT ![d] = dir]
            /\ \A x \in Keys : dir[x] \subseteq entries[d][x] \/ dir[x] \subseteq redis[x]
            /\ UNCHANGED <<redis, done>>
      BY <2>2 DEF Reads
    <3>2. BackedDirectory(dir, done)
      BY <3>1 DEF AllBacked, BackedDirectory
    <3> QED  BY <2>1, <3>1, <3>2 DEF AllBacked, BackedDirectory
  <2>3. CASE UNCHANGED vars
    BY <2>3 DEF vars, AllBacked, BackedDirectory
  <2> QED  BY <2>2, <2>3, StepShape, ObservesBacked DEF Next
<1> QED  BY <1>1, <1>2, TypeCorrect, PTL DEF Spec

\* No process ever reports a hit for a request that has not completed, with
\* any number of processes that share, overwrite and outlive the mirror.
THEOREM HitsAreBacked == Spec => []HitsBacked
<1>1. TypeOK /\ AllBacked => HitsBacked
  <2> SUFFICES ASSUME TypeOK, AllBacked, NEW d \in alive, NEW k \in Keys,
                      NEW e \in Usable(d, k)
               PROVE  \E r \in done : /\ r.key = k /\ r.pool = e.pool
                                      /\ r.finish = e.last_touched
                                      /\ r.finish <= clock[d]
    BY DEF HitsBacked
  <2>1. d \in Procs /\ entries[d] \in Directory /\ redis \in Directory /\ clock[d] \in Nat
    BY DEF TypeOK
  <2>2. e \in entries[d][k] \cup redis[k] /\ e.available_ts <= clock[d]
    BY <2>1, ConsultedPart DEF Usable, Ready
  <2>3. PICK r \in done : Backs(r, k, e)
    BY <2>1, <2>2 DEF AllBacked, BackedDirectory
  <2> QED  BY <2>2, <2>3 DEF Backs
<1> QED  BY <1>1, BackedAlways, TypeCorrect, PTL

-----------------------------------------------------------------------------
(* The mirror. *)

\* With Redis, whatever a process holds for a key that no other process has
\* observed is in the mirror, so that a crash at any point loses no entry that
\* a restart could not find again, however many processes share the hash.
THEOREM MirrorOfSoleWriter ==
    ASSUME RedisEnabled
    PROVE  Spec => []MirrorComplete
<1>1. Init => MirrorComplete
  BY DEF Init, MirrorComplete, EmptyDirectory
<1>2. TypeOK /\ MirrorComplete /\ [Next]_vars => MirrorComplete'
  <2> SUFFICES ASSUME TypeOK, MirrorComplete, [Next]_vars
               PROVE  MirrorComplete'
    OBVIOUS
  <2>1. entries \in [Procs -> Directory] /\ redis \in Directory
    BY DEF TypeOK
  <2>2. ASSUME NEW d \in Procs, Reads(d)
        PROVE  MirrorComplete'
    <3>1. PICK dir \in Directory :
            /\ entries' = [entries EXCEPT ![d] = dir]
            /\ \A x \in Keys : dir[x] \subseteq entries[d][x] \/ dir[x] \subseteq redis[x]
            /\ UNCHANGED <<redis, done>>
      BY <2>2 DEF Reads
    <3>2. entries'[d] = dir /\ \A e \in Procs : e # d => entries'[e] = entries[e]
      BY <2>1, <3>1
    <3> QED  BY <2>1, <3>1, <3>2 DEF MirrorComplete, SoleWriter
  <2>3. ASSUME NEW d \in Procs, Observes(d)
        PROVE  MirrorComplete'
    <3>1. PICK c \in call[d] : \E s \in c.scored, finish \in Nat :
            \E after \in Observed(d, c, s, finish), dir \in Directory :
                Writes(d, c, s, finish, after, dir)
      BY <2>3 DEF Observes
    <3>2. PICK s \in c.scored, finish \in Nat :
            \E after \in Observed(d, c, s, finish), dir \in Directory :
                Writes(d, c, s, finish, after, dir)
      BY <3>1
    <3>3. PICK after \in Observed(d, c, s, finish), dir \in Directory :
            Writes(d, c, s, finish, after, dir)
      BY <3>2
    <3> DEFINE k == c.key
    <3>4. k \in Keys /\ after = [entries[d] EXCEPT ![k] = after[k]]
      BY <3>3, ObservedShape
    <3>5. redis' = [redis EXCEPT ![k] = after[k]]
      BY <3>3 DEF Writes, Persisted
    <3> HIDE DEF k
    <3>6. \A x \in Keys : x # k => after[x] = entries[d][x] /\ redis'[x] = redis[x]
      BY <2>1, <3>4, <3>5 DEF Directory
    <3>7. after[k] = redis'[k]
      BY <2>1, <3>4, <3>5 DEF Directory
    <3>8. /\ entries'[d] = dir /\ \A x \in Keys : dir[x] \subseteq after[x]
          /\ \A e \in Procs : e # d => entries'[e] = entries[e]
      BY <2>1, <3>3 DEF Writes
    <3> DEFINE r == NewRequest(d, c, s, finish)
    <3>9. r.key = k /\ r.proc = d
      BY DEF NewRequest, k
    <3>10. done' = done \cup {r}
      BY <3>3 DEF Writes
    <3> HIDE DEF r
    <3>11. /\ done \subseteq done'
           /\ \A e \in Procs : SoleWriter(e, k)' => e = d
      BY <3>9, <3>10 DEF SoleWriter
    <3>12. ASSUME NEW e \in Procs, NEW x \in Keys, SoleWriter(e, x)'
           PROVE  entries'[e][x] \subseteq redis'[x]
      <4>1. SoleWriter(e, x)
        BY <3>11, <3>12 DEF SoleWriter
      <4>2. entries[e][x] \subseteq redis[x]
        BY <4>1 DEF MirrorComplete
      <4>3. CASE x = k
        BY <3>7, <3>8, <3>11, <3>12, <4>3
      <4>4. CASE x # k
        BY <3>6, <3>8, <4>2, <4>4
      <4> QED  BY <4>3, <4>4
    <3> QED  BY <3>12 DEF MirrorComplete
  <2>4. CASE UNCHANGED vars
    BY <2>4 DEF vars, MirrorComplete, SoleWriter
  <2> QED  BY <2>2, <2>3, <2>4, StepShape DEF Next
<1> QED  BY <1>1, <1>2, TypeCorrect, PTL DEF Spec

-----------------------------------------------------------------------------
(* The shape of the buckets. *)

\* The strengthening of BucketShape, with finite buckets.
AllShaped == (\A d \in Procs : ShapedDirectory(entries[d])) /\ ShapedDirectory(redis)

\* Every step keeps all buckets well shaped.
LEMMA ShapedAlways == Spec => []AllShaped
<1>1. Init => AllShaped
  <2> SUFFICES ASSUME Init PROVE AllShaped
    OBVIOUS
  <2>1. ShapedBucket({})
    BY FS_EmptySet, CacheAssumption DEF ShapedBucket
  <2> QED  BY <2>1 DEF Init, AllShaped, ShapedDirectory, EmptyDirectory
<1>2. TypeOK /\ AllShaped /\ [Next]_vars => AllShaped'
  <2> SUFFICES ASSUME TypeOK, AllShaped, [Next]_vars
               PROVE  AllShaped'
    OBVIOUS
  <2>1. entries \in [Procs -> Directory] /\ redis \in Directory
    BY DEF TypeOK
  <2>2. ASSUME NEW d \in Procs, Reads(d)
        PROVE  AllShaped'
    <3>1. PICK dir \in Directory :
            /\ entries' = [entries EXCEPT ![d] = dir]
            /\ \A x \in Keys : dir[x] \subseteq entries[d][x] \/ dir[x] \subseteq redis[x]
            /\ UNCHANGED <<redis, done>>
      BY <2>2 DEF Reads
    <3>2. ShapedDirectory(dir)
      BY <3>1, ShapedSubset DEF AllShaped, ShapedDirectory
    <3> QED  BY <2>1, <3>1, <3>2 DEF AllShaped, ShapedDirectory
  <2>3. ASSUME NEW d \in Procs, Observes(d)
        PROVE  AllShaped'
    <3>1. PICK c \in call[d] : \E s \in c.scored, finish \in Nat :
            \E after \in Observed(d, c, s, finish), dir \in Directory :
                Writes(d, c, s, finish, after, dir)
      BY <2>3 DEF Observes
    <3>2. PICK s \in c.scored, finish \in Nat :
            \E after \in Observed(d, c, s, finish), dir \in Directory :
                Writes(d, c, s, finish, after, dir)
      BY <3>1
    <3>3. PICK after \in Observed(d, c, s, finish), dir \in Directory :
            Writes(d, c, s, finish, after, dir)
      BY <3>2
    <3> DEFINE k == c.key
               seen == entries[d]
    <3>4. /\ k \in Keys /\ c.prompt \in Nat
          /\ s.pool \in Pools /\ s.mem \in Nat /\ s.hits \in Nat
          /\ after[k] \in Capped(Touched(seen[k], s.pool, c.prompt, s.mem, finish, s.hits))
          /\ after = [seen EXCEPT ![k] = after[k]]
      BY <3>3, ObservedShape
    <3>5. seen \in Directory /\ ShapedDirectory(seen)
      BY <2>1 DEF AllShaped
    <3>6. redis' = redis \/ redis' = [redis EXCEPT ![k] = after[k]]
      BY <3>3 DEF Writes, Persisted
    <3> HIDE DEF k, seen
    <3>7. ShapedBucket(after[k])
      <4>1. seen[k] \in SUBSET Entry /\ ShapedBucket(seen[k])
        BY <3>4, <3>5 DEF Directory, ShapedDirectory
      <4> QED  BY <3>4, <4>1, TouchedCappedShape
    <3>8. ShapedDirectory(after)
      <4> SUFFICES ASSUME NEW x \in Keys PROVE ShapedBucket(after[x])
        BY DEF ShapedDirectory
      <4>1. CASE x = k
        BY <3>7, <4>1
      <4>2. CASE x # k
        <5>1. after[x] = seen[x]
          BY <3>4, <3>5, <4>2 DEF Directory
        <5> QED  BY <3>5, <5>1 DEF ShapedDirectory
      <4> QED  BY <4>1, <4>2
    <3>9. ShapedDirectory(dir)
      BY <3>3, <3>8, ShapedSubset DEF Writes, ShapedDirectory
    <3>10. ShapedDirectory(redis')
      BY <2>1, <3>4, <3>6, <3>7 DEF Directory, AllShaped, ShapedDirectory
    <3>11. \A y \in Procs : ShapedDirectory(entries'[y])
      BY <2>1, <3>3, <3>9 DEF Writes, AllShaped
    <3> QED  BY <3>10, <3>11 DEF AllShaped
  <2>4. CASE UNCHANGED vars
    BY <2>4 DEF vars, AllShaped, ShapedDirectory
  <2> QED  BY <2>2, <2>3, <2>4, StepShape DEF Next
<1> QED  BY <1>1, <1>2, TypeCorrect, PTL DEF Spec

\* In memory and in the mirror, a key has at most one entry per pool and at
\* most BucketCap entries, whichever processes wrote them.
THEOREM BucketsAreShaped == Spec => []BucketShape
<1>1. AllShaped => BucketShape
  BY DEF AllShaped, BucketShape, ShapedDirectory, ShapedBucket
<1> QED  BY <1>1, ShapedAlways, PTL

-----------------------------------------------------------------------------
(* Without Redis. *)

\* Nothing is ever mirrored.
LEMMA NothingMirrored ==
    ASSUME ~RedisEnabled
    PROVE  Spec => [](redis = EmptyDirectory)
<1>1. Init => redis = EmptyDirectory
  BY DEF Init
<1>2. TypeOK /\ redis = EmptyDirectory /\ [Next]_vars => (redis = EmptyDirectory)'
  <2> SUFFICES ASSUME TypeOK, [Next]_vars
               PROVE  redis' = redis
    OBVIOUS
  <2>1. ASSUME NEW d \in Procs, Reads(d) PROVE redis' = redis
    BY <2>1 DEF Reads
  <2>2. ASSUME NEW d \in Procs, Observes(d) PROVE redis' = redis
    BY <2>2 DEF Observes, Writes, Persisted
  <2>3. CASE UNCHANGED vars
    BY <2>3 DEF vars
  <2> QED  BY <2>1, <2>2, <2>3, StepShape DEF Next
<1> QED  BY <1>1, <1>2, TypeCorrect, PTL DEF Spec

\* Without Redis a lookup never hits an entry that has expired, in whatever
\* order the arrival times come: eviction runs before every score, and nothing
\* brings an entry back after it.
THEOREM HitsAreFresh ==
    ASSUME ~RedisEnabled
    PROVE  Spec => []HitsFresh
<1>1. TypeOK /\ AllBacked /\ redis = EmptyDirectory => HitsFresh
  <2> SUFFICES ASSUME TypeOK, AllBacked, redis = EmptyDirectory,
                      NEW d \in alive, NEW k \in Keys, NEW e \in Usable(d, k)
               PROVE  \E r \in done : /\ r.key = k /\ r.pool = e.pool
                                      /\ r.finish <= clock[d]
                                      /\ clock[d] <= r.finish + Ttl
    BY DEF HitsFresh
  <2>1. d \in Procs /\ entries[d] \in Directory /\ clock[d] \in Nat
    BY DEF TypeOK
  <2> DEFINE z == EvictStale(entries[d], clock[d])
  <2>2. z \in Directory
    BY <2>1 DEF EvictStale, Directory
  <2>3. e \in z[k] /\ e.available_ts <= clock[d]
    <3>1. Consulted(entries[d], redis, k, clock[d])[k] \subseteq z[k]
      <4> HIDE DEF z
      <4>1. redis[k] = {}
        BY DEF EmptyDirectory
      <4> QED  BY <2>2, <4>1 DEF Consulted, HydrateFromRedis, Directory, z
    <3> QED  BY <3>1 DEF Usable, Ready
  <2>4. e \in entries[d][k] /\ clock[d] - e.last_touched <= Ttl
    BY <2>3 DEF EvictStale
  <2>5. e.last_touched \in Nat /\ Ttl \in Nat
    BY <2>1, <2>4, CacheAssumption DEF Directory, Entry
  <2>6. PICK r \in done : Backs(r, k, e)
    BY <2>1, <2>4 DEF AllBacked, BackedDirectory
  <2> QED  BY <2>1, <2>3, <2>4, <2>5, <2>6 DEF Backs
<1> QED  BY <1>1, TypeCorrect, BackedAlways, NothingMirrored, PTL

\* The strengthening of TotalBounded: finitely many items.
AllBounded == \A d \in Procs : IsFiniteSet(Items(entries[d])) /\ ~Overfull(entries[d])

\* Every step keeps the directories within the bound.
LEMMA BoundedAlways ==
    ASSUME ~RedisEnabled
    PROVE  Spec => []AllBounded
<1>0. IsFiniteSet(Items(EmptyDirectory)) /\ ~Overfull(EmptyDirectory)
  <2>1. Items(EmptyDirectory) = {}
    BY DEF Items, EmptyDirectory
  <2> QED  BY <2>1, FS_EmptySet, CacheAssumption DEF Overfull
<1>1. Init => AllBounded
  BY <1>0 DEF Init, AllBounded
<1>2. TypeOK /\ AllShaped /\ redis = EmptyDirectory /\ AllBounded /\ [Next]_vars => AllBounded'
  <2> SUFFICES ASSUME TypeOK, AllShaped, redis = EmptyDirectory, AllBounded, [Next]_vars
               PROVE  AllBounded'
    OBVIOUS
  <2>0. entries \in [Procs -> Directory]
    BY DEF TypeOK
  <2>1. ASSUME NEW d \in Procs, NEW dir, entries' = [entries EXCEPT ![d] = dir],
               IsFiniteSet(Items(dir)), ~Overfull(dir)
        PROVE  AllBounded'
    <3>1. \A y \in Procs : IsFiniteSet(Items(entries'[y])) /\ ~Overfull(entries'[y])
      BY <2>0, <2>1 DEF AllBounded
    <3> QED  BY <3>1 DEF AllBounded
  <2>2. ASSUME NEW d \in Procs, Reads(d)
        PROVE  AllBounded'
    <3>1. PICK dir \in Directory :
            /\ entries' = [entries EXCEPT ![d] = dir]
            /\ \A x \in Keys : dir[x] \subseteq entries[d][x] \/ dir[x] \subseteq redis[x]
      BY <2>2 DEF Reads
    <3>2. \A x \in Keys : dir[x] \subseteq entries[d][x]
      BY <3>1 DEF EmptyDirectory
    <3>3. Items(dir) \subseteq Items(entries[d])
      BY <3>2, ItemsSubset
    <3>4. IsFiniteSet(Items(entries[d])) /\ ~(Cardinality(Items(entries[d])) > MaxEntries)
      BY <2>2 DEF AllBounded, Overfull
    <3>5. IsFiniteSet(Items(dir)) /\ Cardinality(Items(dir)) <= Cardinality(Items(entries[d]))
      BY <3>3, <3>4, FS_Subset
    <3>6. ~Overfull(dir)
      BY <3>4, <3>5, FS_CardinalityType, CacheAssumption DEF Overfull
    <3> QED  BY <2>1, <2>2, <3>1, <3>5, <3>6
  <2>3. ASSUME NEW d \in Procs, Observes(d)
        PROVE  AllBounded'
    <3>1. PICK c \in call[d] : \E s \in c.scored, finish \in Nat :
            \E after \in Observed(d, c, s, finish), dir \in Directory :
                Writes(d, c, s, finish, after, dir)
      BY <2>3 DEF Observes
    <3>2. PICK s \in c.scored, finish \in Nat :
            \E after \in Observed(d, c, s, finish), dir \in Directory :
                Writes(d, c, s, finish, after, dir)
      BY <3>1
    <3>3. PICK after \in Observed(d, c, s, finish), dir \in Directory :
            Writes(d, c, s, finish, after, dir)
      BY <3>2
    <3> DEFINE k == c.key
               seen == entries[d]
    <3>4. /\ k \in Keys /\ c.prompt \in Nat
          /\ s.pool \in Pools /\ s.mem \in Nat /\ s.hits \in Nat
          /\ after[k] \in Capped(Touched(seen[k], s.pool, c.prompt, s.mem, finish, s.hits))
          /\ after = [seen EXCEPT ![k] = after[k]]
      BY <2>3, <3>3, ObservedShape
    <3>5. seen \in Directory /\ ShapedDirectory(seen) /\ IsFiniteSet(Items(seen))
      BY <2>0, <2>3 DEF AllShaped, AllBounded
    <3> HIDE DEF k, seen
    <3>6. ShapedBucket(after[k])
      <4>1. seen[k] \in SUBSET Entry /\ ShapedBucket(seen[k])
        BY <3>4, <3>5 DEF Directory, ShapedDirectory
      <4> QED  BY <3>4, <4>1, TouchedCappedShape
    <3>7. IsFiniteSet(Items(after))
      <4>1. \A x \in Keys \ {k} : after[x] = seen[x]
        BY <3>4, <3>5 DEF Directory
      <4> QED  BY <3>4, <3>5, <3>6, <4>1, ItemsFinite DEF ShapedBucket
    <3>8. IsFiniteSet(Items(dir))
      <4>1. Items(dir) \subseteq Items(after)
        BY <3>3, ItemsSubset DEF Writes
      <4> QED  BY <3>7, <4>1, FS_Subset
    <3>9. ~Overfull(dir)
      BY <1>0, <3>3, TrimmedBounded DEF Writes
    <3> QED  BY <2>1, <2>3, <3>3, <3>8, <3>9 DEF Writes
  <2>4. CASE UNCHANGED vars
    BY <2>4 DEF vars, AllBounded, Items, Overfull
  <2> QED  BY <2>2, <2>3, <2>4, StepShape DEF Next
<1> QED  BY <1>1, <1>2, TypeCorrect, ShapedAlways, NothingMirrored, PTL DEF Spec

\* Without Redis no directory ever holds more than MaxEntries entries.
THEOREM TotalIsBounded ==
    ASSUME ~RedisEnabled
    PROVE  Spec => []TotalBounded
<1>1. AllBounded => TotalBounded
  BY DEF AllBounded, TotalBounded
<1> QED  BY <1>1, BoundedAlways, PTL

-----------------------------------------------------------------------------
(* What is lost. *)

\* Updating the entry of a pool in place neither grows the bucket nor the
\* directory, so that neither the cap nor the trim has anything to remove.
LEMMA UpdateInPlace ==
    ASSUME NEW seen \in Directory, NEW k \in Keys, ShapedBucket(seen[k]),
           IsFiniteSet(Items(seen)), ~Overfull(seen), NEW p \in Pools,
           NEW prompt \in Nat, NEW mem \in Nat, NEW finish \in Nat, NEW hits \in Nat,
           NEW g \in seen[k], g.pool = p,
           NEW after, \A y \in Keys : y # k => after[y] = seen[y],
           after[k] \in Capped(Touched(seen[k], p, prompt, mem, finish, hits)),
           NEW dir \in Trimmed(after)
    PROVE  \A e \in seen[k] : \E f \in dir[k] : f.pool = e.pool
<1> DEFINE bucket == seen[k]
           b == after[k]
           touch == [e \in bucket |-> IF e.pool = p
                                      THEN TouchedEntry(e, prompt, mem, finish, hits) ELSE e]
           touched == {touch[e] : e \in bucket}
<1>1. bucket \subseteq Entry
  BY DEF Directory
<1>2. \A e \in bucket : touch[e].pool = e.pool
  BY <1>1 DEF TouchedEntry, Entry
<1>3. Touched(bucket, p, prompt, mem, finish, hits) = touched
  BY DEF Touched
<1>4. Cardinality(touched) <= BucketCap
  <2>1. IsFiniteSet(bucket) /\ Cardinality(bucket) <= BucketCap
    BY DEF ShapedBucket
  <2>2. touch \in Surjection(bucket, touched)
    <3>1. touch = [e \in bucket |-> touch[e]]
      OBVIOUS
    <3> HIDE DEF touch
    <3> QED  BY <3>1 DEF Surjection
  <2> HIDE DEF touch, touched, bucket
  <2>3. IsFiniteSet(touched) /\ Cardinality(touched) <= Cardinality(bucket)
    BY <2>1, <2>2, FS_Surjection
  <2> QED  BY <2>1, <2>3, FS_CardinalityType, CacheAssumption
<1>5. b = touched
  <2> HIDE DEF touched
  <2> QED  BY <1>3, <1>4 DEF Capped
<1>6. \A e \in bucket : \E f \in b : f.pool = e.pool
  <2> HIDE DEF touch
  <2> QED  BY <1>2, <1>5
<1> DEFINE move == [i \in Items(seen) |-> IF i[1] = k THEN <<k, touch[i[2]]>> ELSE i]
<1>7. after[k] = b /\ \A x \in Keys : x # k => after[x] = seen[x]
  OBVIOUS
<1>8. \A i \in Items(seen) : move[i] \in Items(after)
  <2> SUFFICES ASSUME NEW i \in Items(seen) PROVE move[i] \in Items(after)
    OBVIOUS
  <2>1. i = <<i[1], i[2]>> /\ i[1] \in Keys /\ i[2] \in seen[i[1]]
    BY ItemPair
  <2> HIDE DEF touch
  <2>2. CASE i[1] = k
    <3>1. move[i] = <<k, touch[i[2]]>> /\ touch[i[2]] \in after[k]
      BY <1>5, <1>7, <2>1, <2>2
    <3> HIDE DEF move
    <3> QED  BY <3>1, ItemOf
  <2>3. CASE i[1] # k
    <3>1. move[i] = i /\ i[2] \in after[i[1]]
      BY <1>7, <2>1, <2>3
    <3> HIDE DEF move
    <3>2. <<i[1], i[2]>> \in Items(after)
      BY <2>1, <3>1, ItemOf
    <3> QED  BY <2>1, <3>1, <3>2
  <2> QED  BY <2>2, <2>3
<1>9. \A j \in Items(after) : \E i \in Items(seen) : move[i] = j
  <2> SUFFICES ASSUME NEW j \in Items(after) PROVE \E i \in Items(seen) : move[i] = j
    OBVIOUS
  <2>1. j = <<j[1], j[2]>> /\ j[1] \in Keys /\ j[2] \in after[j[1]]
    BY ItemPair
  <2> HIDE DEF touch
  <2>2. CASE j[1] = k
    <3>1. PICK e \in bucket : j[2] = touch[e]
      BY <1>5, <1>7, <2>1, <2>2
    <3>2. <<k, e>> \in Items(seen) /\ <<k, e>>[1] = k /\ <<k, e>>[2] = e
      BY ItemOf
    <3>3. move[<<k, e>>] = <<k, touch[e]>>
      BY <3>2
    <3> QED  BY <2>1, <2>2, <3>1, <3>2, <3>3
  <2>3. CASE j[1] # k
    <3>1. <<j[1], j[2]>> \in Items(seen)
      BY <1>7, <2>1, <2>3, ItemOf
    <3>2. move[j] = j
      BY <2>1, <2>3, <3>1
    <3> QED  BY <2>1, <3>1, <3>2
  <2> QED  BY <2>2, <2>3
<1>10. move \in Surjection(Items(seen), Items(after))
  <2>1. move = [i \in Items(seen) |-> move[i]]
    OBVIOUS
  <2> HIDE DEF move
  <2> QED  BY <1>8, <1>9, <2>1 DEF Surjection
<1>11. ~Overfull(after)
  <2> HIDE DEF move
  <2>1. IsFiniteSet(Items(after)) /\ Cardinality(Items(after)) <= Cardinality(Items(seen))
    BY <1>10, FS_Surjection
  <2> QED  BY <2>1, FS_CardinalityType, CacheAssumption DEF Overfull
<1>12. dir = after
  BY <1>11 DEF Trimmed
<1> QED  BY <1>6, <1>7, <1>12

\* What observe() drops ranks above nothing it keeps under any key, or, if its
\* bucket was full, above nothing it keeps there.
LEMMA ObserveLoses ==
    ASSUME NEW seen \in Directory, NEW k \in Keys, ShapedBucket(seen[k]),
           IsFiniteSet(Items(seen)), ~Overfull(seen), NEW p \in Pools,
           NEW prompt \in Nat, NEW mem \in Nat, NEW finish \in Nat, NEW hits \in Nat,
           NEW after, \A y \in Keys : y # k => after[y] = seen[y],
           after[k] \in Capped(Touched(seen[k], p, prompt, mem, finish, hits)),
           NEW dir \in Trimmed(after),
           NEW x \in Keys, NEW e \in seen[x]
    PROVE  \/ \E f \in dir[x] : f.pool = e.pool
           \/ Cardinality(seen[x]) = BucketCap /\ Below(e, dir, {x}) = {}
           \/ Below(e, dir, Keys) = {}
<1> DEFINE b == after[k]
<1>1. b = after[k]
  OBVIOUS
<1>2. ASSUME e \in after[x]
      PROVE  e \in dir[x] \/ Below(e, dir, Keys) = {}
  <2>1. e \in dir[x] \/ \A l \in Keys : \A f \in dir[l] : ~Outranks(e, f)
    BY <1>2, TrimmedRanks
  <2> QED  BY <2>1 DEF Below
<1>3. CASE x # k
  BY <1>1, <1>2, <1>3
<1>4. CASE x = k /\ \E g \in seen[k] : g.pool = p
  <2>1. PICK g \in seen[k] : g.pool = p
    BY <1>4
  <2>2. \A y \in seen[k] : \E f \in dir[k] : f.pool = y.pool
    BY <2>1, UpdateInPlace
  <2> QED  BY <1>4, <2>2
<1>5. CASE x = k /\ ~\E g \in seen[k] : g.pool = p
  <2>1. e \in Touched(seen[k], p, prompt, mem, finish, hits)
    BY <1>5 DEF Touched
  <2>2. CASE e \in b
    BY <1>1, <1>2, <1>5, <2>2
  <2>3. CASE e \notin b
    <3> DEFINE new == NewEntry(p, prompt, mem, finish, hits)
    <3>1. Touched(seen[k], p, prompt, mem, finish, hits) = seen[k] \cup {new}
      BY <1>5 DEF Touched
    <3> HIDE DEF new
    <3>2. /\ \A f \in b : ~Outranks(e, f)
          /\ ~(Cardinality(seen[k] \cup {new}) <= BucketCap)
      BY <2>1, <2>3, <3>1 DEF Capped
    <3>3. Cardinality(seen[k]) = BucketCap
      <4>1. IsFiniteSet(seen[k]) /\ Cardinality(seen[k]) <= BucketCap /\ BucketCap \in Nat
        BY CacheAssumption DEF ShapedBucket
      <4>2. Cardinality(seen[k]) \in Nat
        BY <4>1, FS_CardinalityType
      <4>3. Cardinality(seen[k] \cup {new}) \in {Cardinality(seen[k]), Cardinality(seen[k]) + 1}
        BY <4>1, FS_AddElement
      <4> QED  BY <3>2, <4>1, <4>2, <4>3
    <3>4. dir[k] \subseteq after[k]
      BY DEF Trimmed
    <3>5. Below(e, dir, {k}) = {}
      BY <1>1, <3>2, <3>4 DEF Below
    <3> QED  BY <1>5, <3>3, <3>5
  <2> QED  BY <2>2, <2>3
<1> QED  BY <1>3, <1>4, <1>5

\* Without Redis a living process loses an entry only when it expires, when the
\* cap finds nothing in its full bucket that ranks lower, or when the trim finds
\* nothing lower under any key (LossJustified).
THEOREM LossesAreJustified ==
    ASSUME ~RedisEnabled
    PROVE  Spec => LossJustified
<1> DEFINE Justified(d, k, e) ==
             \/ \E f \in entries'[d][k] : f.pool = e.pool
             \/ clock'[d] - e.last_touched > Ttl
             \/ Cardinality(entries[d][k]) = BucketCap /\ Below(e, entries'[d], {k}) = {}
             \/ Below(e, entries'[d], Keys) = {}
           A == \A d \in alive \cap alive', k \in Keys : \A e \in entries[d][k] :
                    Justified(d, k, e)
<1>1. TypeOK /\ AllShaped /\ AllBounded /\ [Next]_vars => [A]_vars
  <2> SUFFICES ASSUME TypeOK, AllShaped, AllBounded, Next,
                      NEW d \in alive \cap alive', NEW k \in Keys, NEW e \in entries[d][k]
               PROVE  Justified(d, k, e)
    BY Zenon
  <2>1. /\ d \in Procs /\ entries \in [Procs -> Directory] /\ clock \in [Procs -> Nat]
        /\ entries[d] \in Directory /\ redis \in Directory
    BY DEF TypeOK
  <2>2. CASE entries'[d] = entries[d]
    BY <2>2
  <2>3. PICK y \in Procs : Step(y)
    BY DEF Next
  <2>4. CASE y # d
    <3>1. entries'[d] = entries[d]
      BY <2>1, <2>3, <2>4 DEF Step, Begin, Score, Drop, Serve, ServeRaises, Crash, Restart
    <3> QED  BY <2>2, <3>1
  <2>5. CASE y = d
    <3>1. ASSUME NEW x \in Keys, NEW prompt \in Prompts, NEW now \in 0 .. MaxTime,
                 Begin(d, x, prompt, now)
          PROVE  Justified(d, k, e)
      <4>1. entries'[d] = EvictStale(entries[d], now) /\ clock'[d] = now
        BY <2>1, <3>1 DEF Begin
      <4>2. e.last_touched \in Nat /\ Ttl \in Nat /\ now \in Nat
        BY <2>1, CacheAssumption, DirectoryAssumption DEF Directory, Entry
      <4>3. e \in entries'[d][k] \/ ~(now - e.last_touched <= Ttl)
        BY <4>1 DEF EvictStale
      <4> QED  BY <4>1, <4>2, <4>3
    <3>2. ASSUME NEW p \in Pools, Score(d, p)
          PROVE  Justified(d, k, e)
      <4>1. PICK c \in call[d] :
              entries' = [entries EXCEPT ![d] = Consulted(entries[d], redis, c.key, clock[d])]
        BY <3>2 DEF Score
      <4>2. clock'[d] = clock[d] /\ c.key \in Keys
        BY <3>2 DEF Score, TypeOK, Call
      <4> DEFINE z == EvictStale(entries[d], clock[d])
      <4>3. z \in Directory
        BY <2>1 DEF EvictStale, Directory
      <4>4. e \in z[k] \/ ~(clock[d] - e.last_touched <= Ttl)
        BY DEF EvictStale
      <4>5. e.last_touched \in Nat /\ Ttl \in Nat /\ clock[d] \in Nat
        BY <2>1, CacheAssumption DEF Directory, Entry
      <4>6. e \in z[k] => e \in Consulted(entries[d], redis, c.key, clock[d])[k]
        <5> HIDE DEF z
        <5> QED  BY <4>2, <4>3 DEF Consulted, HydrateFromRedis, Directory, z
      <4>7. e \in z[k] => e \in entries'[d][k]
        BY <2>1, <4>1, <4>6
      <4> HIDE DEF z
      <4> QED  BY <4>2, <4>4, <4>5, <4>7
    <3>3. ASSUME NEW p \in Pools, NEW delay \in Delays, Serve(d, p, delay)
          PROVE  Justified(d, k, e)
      <4> DEFINE finish == clock[d] + delay
      <4>1. PICK c \in call[d] : \E s \in c.scored : \E after \in Observed(d, c, s, finish) :
              \E dir \in Trimmed(after) : entries' = [entries EXCEPT ![d] = dir]
        BY <3>3 DEF Serve
      <4>2. PICK s \in c.scored : \E after \in Observed(d, c, s, finish) :
              \E dir \in Trimmed(after) : entries' = [entries EXCEPT ![d] = dir]
        BY <4>1
      <4>3. PICK after \in Observed(d, c, s, finish) :
              \E dir \in Trimmed(after) : entries' = [entries EXCEPT ![d] = dir]
        BY <4>2
      <4>4. PICK dir \in Trimmed(after) : entries' = [entries EXCEPT ![d] = dir]
        BY <4>3
      <4>5. finish \in Nat
        BY <2>1, DirectoryAssumption
      <4> HIDE DEF finish
      <4> DEFINE x == c.key
                 seen == entries[d]
      <4>6. /\ x \in Keys /\ c.prompt \in Nat
            /\ s.pool \in Pools /\ s.mem \in Nat /\ s.hits \in Nat
            /\ after[x] \in Capped(Touched(seen[x], s.pool, c.prompt, s.mem, finish, s.hits))
            /\ after = [seen EXCEPT ![x] = after[x]]
        BY <2>1, <4>3, <4>5, ObservedShape
      <4>7. /\ seen \in Directory /\ ShapedBucket(seen[x])
            /\ IsFiniteSet(Items(seen)) /\ ~Overfull(seen)
        BY <2>1, <4>6 DEF AllShaped, ShapedDirectory, AllBounded
      <4>8. entries'[d] = dir /\ e \in seen[k]
        BY <2>1, <4>4
      <4>9. \A z \in Keys : z # x => after[z] = seen[z]
        BY <4>6, <4>7 DEF Directory
      <4> HIDE DEF x, seen
      <4>10. \/ \E f \in dir[k] : f.pool = e.pool
             \/ Cardinality(seen[k]) = BucketCap /\ Below(e, dir, {k}) = {}
             \/ Below(e, dir, Keys) = {}
        <5>1. \A z \in Keys : z # x => after[z] = seen[z]
          BY <4>9
        <5>2. k \in Keys /\ finish \in Nat /\ dir \in Trimmed(after)
          BY <4>4, <4>5
        <5> QED  BY <4>6, <4>7, <4>8, <5>1, <5>2, ObserveLoses
      <4> QED  BY <4>8, <4>10 DEF seen
    <3>4. ASSUME NEW p \in Pools, NEW delay \in Delays, ServeRaises(d, p, delay)
          PROVE  FALSE
      BY <3>4 DEF ServeRaises
    <3>5. ~Crash(d)
      BY DEF Crash
    <3>6. Drop(d) \/ Restart(d) => entries'[d] = entries[d]
      BY DEF Drop, Restart
    <3> QED  BY <2>2, <2>3, <2>5, <3>1, <3>2, <3>3, <3>4, <3>5, <3>6 DEF Step
  <2> QED  BY <2>4, <2>5
<1>2. Spec => [][A]_vars
  BY <1>1, TypeCorrect, ShapedAlways, BoundedAlways, PTL DEF Spec
<1> QED  BY <1>2 DEF LossJustified
=============================================================================
