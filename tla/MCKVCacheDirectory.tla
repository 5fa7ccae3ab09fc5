------------------------- MODULE MCKVCacheDirectory -------------------------
(***************************************************************************)
(* Instances of KVCacheDirectory for TLC.                                  *)
(***************************************************************************)
EXTENDS KVCacheDirectory, TLC

CONSTANTS d1, d2, k1, k2, p1, p2, p3, c1, c2

\* p1 and p2 share a cluster, p3 is remote.
MCClusterOf == [p \in Pools |-> IF p \in {p1, p2} THEN c1 ELSE c2]
MCModelScale == [k \in Keys |-> 1]

\* Keys are alike, and so are processes; pools differ by cluster and order.
Symmetry == Permutations(Keys) \cup Permutations(Procs)
=============================================================================
