---------------------------- MODULE MCApiThreads ----------------------------
(***************************************************************************)
(* Instance of ApiThreads for TLC: two keys of two tenants, and buckets    *)
(* that are expired, fresh or not yet ready at the times of the requests.  *)
(***************************************************************************)
EXTENDS ApiThreads, TLC

CONSTANTS k1, k2, t1, t2, h1, h2

MCTenantOf == [k \in Keys |-> IF k = k1 THEN t1 ELSE t2]

Touched(p, ts) == [pool |-> p, last_touched |-> ts]
\* At time 2 the first is half expired, half at its TTL, and at 3 expired; the
\* second is ready at 3.
MCBuckets == {{Touched(1, 0), Touched(2, 1)}, {Touched(1, 3)}}

Symmetry == Permutations(Handlers)
=============================================================================
