--------------------------- MODULE MCControlPlane ---------------------------
(***************************************************************************)
(* Instances of ControlPlane for TLC: pool p1 has two slots and p2, in     *)
(* another cluster, one.  Memory is in twentieths of a token's.            *)
(***************************************************************************)
EXTENDS ControlPlane, TLC

CONSTANTS k1, k2, p1, p2, c1, c2, t1, t2

MCClusterOf == [p \in Pools |-> IF p = p1 THEN c1 ELSE c2]
MCModelScale == [k \in Keys |-> IF k = k1 THEN 1 ELSE 2]
MCTenantOf == [k \in Keys |-> IF k = k1 THEN t1 ELSE t2]
\* Pool p2 does not serve the model of k2.
MCSupports == [p \in Pools |-> IF p = p2 THEN Keys \ {k2} ELSE Keys]
MCSlots == [p \in Pools |-> IF p = p1 THEN 2 ELSE 1]
\* The cluster of p2 is down at time 1.
MCFailureWindows == [c \in {MCClusterOf[p] : p \in Pools} |->
                        IF c = c2 THEN {<<1, 1>>} ELSE {}]
NoFailures == [c \in {MCClusterOf[p] : p \in Pools} |-> {}]

\* A limit no request meets at p1, where requests queue, as in the shipped
\* configurations, and a limit equal to the one slot of p2.
MixedQueues == [p \in Pools |-> IF p = p1 THEN 64 ELSE 1]
\* A limit above the slots, below the length of the workload.
ShortQueues == [p \in Pools |-> MCSlots[p] + 1]

AmpleMemory == [p \in Pools |-> 2000]
\* A request of five tokens takes 100 and leaves an entry of 55, both doubled
\* for the model of k2: p1 has room for three requests of k1 and their entry, or
\* for two of which one is of k2; p2 for two of k1 and their entry.
MixedMemory == [p \in Pools |-> IF p = p1 THEN 400 ELSE 260]
=============================================================================
