--------------------------- MODULE TopologyService ---------------------------
(***************************************************************************)
(* TopologyService of topology_service/graph.py: the graph of gateways and *)
(* pools it builds from the configuration, and shortest_path_cost, a       *)
(* Dijkstra search with a heap that keeps superseded entries (there is no  *)
(* decrease-key) and stops as soon as the target is popped.  One iteration *)
(* of its loop is one step.                                                *)
(*                                                                         *)
(* Abstractions.  Costs are natural numbers.  The heap is a set of pairs   *)
(* (cost, node): the same pair is never pushed twice, since a push needs a *)
(* strictly smaller distance.  Of several cheapest pairs the heap may      *)
(* return any.  The probe factor that scales a cost is in ProbedTopology.  *)
(***************************************************************************)
EXTENDS Integers, FiniteSets, Sequences

CONSTANTS
    Clusters,     \* configured clusters
    Pools,        \* pools
    ClusterOf,    \* the cluster of each pool
    Internals,    \* internal_cost of the pools: the assignments considered
    Names,        \* keys of network_costs: clusters, "ingress", unknown clusters
    Networks,     \* network_costs: functions from pairs (cluster, name) to costs
    Queries       \* the (source, target) pairs asked for

Gateway(c) == <<"gateway", c>>
PoolNode(p) == <<"pool", p>>

Nodes == {Gateway(c) : c \in Clusters} \cup {PoolNode(p) : p \in Pools}

ASSUME TopologyAssumption ==
    /\ ClusterOf \in [Pools -> Clusters]
    /\ Internals \subseteq [Pools -> Nat]
    /\ \A net \in Networks : /\ DOMAIN net \subseteq Clusters \X Names
                             /\ \A l \in DOMAIN net : net[l] \in Nat
    /\ Queries \subseteq Nodes \X Nodes

Edge == [source : Nodes, target : Nodes, cost : Nat]

\* _build_from_config: a pool and the gateway of its cluster are linked both
\* ways; gateways are linked as network_costs says, "ingress" and unknown
\* clusters excepted.
PoolEdges(internal) ==
    {[source |-> Gateway(ClusterOf[p]), target |-> PoolNode(p), cost |-> internal[p]] :
        p \in Pools}
    \cup
    {[source |-> PoolNode(p), target |-> Gateway(ClusterOf[p]), cost |-> internal[p]] :
        p \in Pools}

\* Mutant: a link to "ingress" is not skipped.
UnfilteredEdges(net) ==
    {[source |-> Gateway(l[1]), target |-> Gateway(l[2]), cost |-> net[l]] : l \in DOMAIN net}

GatewayEdges(net) ==
    {[source |-> Gateway(l[1]), target |-> Gateway(l[2]), cost |-> net[l]] :
        l \in {x \in DOMAIN net : x[2] \in Clusters}}

VARIABLES
    edges,      \* adjacency
    query,      \* the source and the target of the search
    frontier,   \* the heap
    visited,
    distances,  \* a function on the nodes reached
    answer      \* {} while searching, then the set of the cost returned, or
                \* {Infinity}

vars == <<edges, query, frontier, visited, distances, answer>>

\* float("inf")
Infinity == -1

Init ==
    /\ \E internal \in Internals, net \in Networks : edges = PoolEdges(internal) \cup GatewayEdges(net)
    /\ query \in Queries
    /\ frontier = {<<0, query[1]>>}
    /\ visited = {}
    /\ distances = [n \in {query[1]} |-> 0]
    /\ answer = {}

-----------------------------------------------------------------------------
\* Mutant: the frontier is a list and not a heap.
AnyOf(heap) == heap

\* The pairs heappop may return.
Cheapest(heap) == {i \in heap : \A j \in heap : i[1] <= j[1]}

\* Mutant: the first pair is read and not removed.
Peeked(heap, item) == heap

\* The heap without the pair popped.
Popped(heap, item) == heap \ {item}

\* Mutant: a node reached before is never improved.
UnreachedOnly(cost, node) ==
    {e \in edges : e.source = node /\ e.target \notin DOMAIN distances}

\* The edges of a node that improve on the distance of their target.
Improving(cost, node) ==
    {e \in edges : /\ e.source = node
                   /\ e.target \in DOMAIN distances => cost + e.cost < distances[e.target]}

\* The distances after the loop over the edges; no two edges are parallel.
Relaxed(cost, node) ==
    LET better == Improving(cost, node)
    IN  [n \in DOMAIN distances \cup {e.target : e \in better} |->
            IF \E e \in better : e.target = n
            THEN cost + (CHOOSE e \in better : e.target = n).cost
            ELSE distances[n]]

\* A node popped again: a superseded entry of the heap.
Skip ==
    /\ answer = {}
    /\ \E item \in Cheapest(frontier) :
         /\ item[2] \in visited
         /\ frontier' = Popped(frontier, item)
    /\ UNCHANGED <<edges, query, visited, distances, answer>>

\* A node is settled and its edges are relaxed.
Expand ==
    /\ answer = {}
    /\ \E item \in Cheapest(frontier) :
         /\ item[2] \notin visited \cup {query[2]}
         /\ visited' = visited \cup {item[2]}
         /\ distances' = Relaxed(item[1], item[2])
         /\ frontier' = Popped(frontier, item) \cup
                        {<<item[1] + e.cost, e.target>> : e \in Improving(item[1], item[2])}
    /\ UNCHANGED <<edges, query, answer>>

\* The target is popped.
Found ==
    /\ answer = {}
    /\ \E item \in Cheapest(frontier) :
         /\ item[2] \notin visited /\ item[2] = query[2]
         /\ visited' = visited \cup {item[2]}
         /\ frontier' = Popped(frontier, item)
         /\ answer' = {item[1]}
    /\ UNCHANGED <<edges, query, distances>>

Exhausted ==
    /\ answer = {}
    /\ frontier = {}
    /\ answer' = {Infinity}
    /\ UNCHANGED <<edges, query, frontier, visited, distances>>

Next == Skip \/ Expand \/ Found \/ Exhausted

\* The loop is sequential code: it takes its next iteration.
Spec == Init /\ [][Next]_vars /\ WF_vars(Next)

-----------------------------------------------------------------------------
(* Properties. *)

\* The graph links known nodes only ("ingress" is none), and the heap, the
\* settled nodes and the distances are those of known nodes.
TypeOK ==
    /\ edges \subseteq Edge
    /\ query \in Nodes \X Nodes
    /\ frontier \subseteq Nat \X Nodes
    /\ visited \subseteq Nodes
    /\ DOMAIN distances \subseteq Nodes
    /\ \A n \in DOMAIN distances : distances[n] \in Nat
    /\ answer \subseteq Nat \cup {Infinity}

\* Sequences of distinct nodes.
SimplePaths ==
    UNION {{path \in [1 .. k -> Nodes] : \A i, j \in 1 .. k : path[i] = path[j] => i = j} :
              k \in 1 .. Cardinality(Nodes)}

\* Those that follow edges from one node to another.
Paths(m, n) ==
    {path \in SimplePaths :
        /\ path[1] = m /\ path[Len(path)] = n
        /\ \A i \in 1 .. Len(path) - 1 :
              \E e \in edges : e.source = path[i] /\ e.target = path[i + 1]}

CostOfEdge(m, n) == (CHOOSE e \in edges : e.source = m /\ e.target = n).cost

PathCost(path) ==
    LET upTo[i \in DOMAIN path] ==
          IF i = 1 THEN 0 ELSE upTo[i - 1] + CostOfEdge(path[i - 1], path[i])
    IN  upTo[Len(path)]

\* shortest_path_cost returns the cost of a cheapest path, and infinity only
\* if there is none, although superseded entries stay in the heap, nodes are
\* settled once and the search stops when the target is popped.
AnswerIsShortest ==
    \A cost \in answer :
        LET costs == {PathCost(path) : path \in Paths(query[1], query[2])}
        IN  IF cost = Infinity THEN costs = {}
            ELSE cost \in costs /\ \A other \in costs : cost <= other

\* A settled node is never improved again: skipping visited nodes loses no
\* shorter path.
SettledFinal == [][\A n \in visited : distances'[n] = distances[n]]_vars
=============================================================================
