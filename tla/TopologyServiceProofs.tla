----------------------- MODULE TopologyServiceProofs -----------------------
(* Theorems about shortest_path_cost, for every graph with natural costs.  *)
EXTENDS ProbedTopology, FiniteSetTheorems, WellFoundedInduction, TLAPS

-----------------------------------------------------------------------------
(* Type correctness. *)

LEMMA BuiltEdgesTyped ==
    ASSUME NEW internal \in Internals, NEW net \in Networks
    PROVE  PoolEdges(internal) \cup GatewayEdges(net) \subseteq Edge
<1>1. \A p \in Pools : ClusterOf[p] \in Clusters /\ internal[p] \in Nat
  BY TopologyAssumption
<1>2. \A l \in DOMAIN net : l[1] \in Clusters /\ net[l] \in Nat
  BY TopologyAssumption
<1>3. PoolEdges(internal) \subseteq Edge
  BY <1>1 DEF PoolEdges, Edge, Nodes
<1>4. GatewayEdges(net) \subseteq Edge
  BY <1>2 DEF GatewayEdges, Edge, Nodes
<1> QED
  BY <1>3, <1>4

LEMMA ImprovingTyped ==
    ASSUME TypeOK, NEW cost \in Nat, NEW node
    PROVE  \A e \in Improving(cost, node) :
               e \in edges /\ e.target \in Nodes /\ e.cost \in Nat
BY DEF TypeOK, Improving, Edge

LEMMA RelaxedTyped ==
    ASSUME TypeOK, NEW cost \in Nat, NEW node
    PROVE  /\ DOMAIN Relaxed(cost, node) \subseteq Nodes
           /\ \A n \in DOMAIN Relaxed(cost, node) : Relaxed(cost, node)[n] \in Nat
<1> DEFINE better == Improving(cost, node)
<1> DEFINE to(n) == CHOOSE e \in better : e.target = n
<1>1. DOMAIN Relaxed(cost, node) = DOMAIN distances \cup {e.target : e \in better}
  BY DEF Relaxed
<1>2. ASSUME NEW n, \E e \in better : e.target = n
      PROVE  to(n) \in better
  BY <1>2
<1>3. ASSUME NEW n \in DOMAIN Relaxed(cost, node)
      PROVE  Relaxed(cost, node)[n] \in Nat
  <2>1. CASE \E e \in better : e.target = n
    <3>1. to(n).cost \in Nat
      BY <1>2, <2>1, ImprovingTyped
    <3> HIDE DEF to
    <3>2. Relaxed(cost, node)[n] = cost + to(n).cost
      BY <1>1, <1>3, <2>1 DEF Relaxed, to
    <3> QED
      BY <3>1, <3>2
  <2>2. CASE ~ \E e \in better : e.target = n
    <3>1. Relaxed(cost, node)[n] = distances[n] /\ n \in DOMAIN distances
      BY <1>1, <1>3, <2>2 DEF Relaxed
    <3> QED
      BY <3>1 DEF TypeOK
  <2> QED
    BY <2>1, <2>2
<1> QED
  BY <1>1, <1>3, ImprovingTyped DEF TypeOK

\* The search without its fairness: what ProbedSpec does to its variables.
Safety == Init /\ [][Next]_vars

LEMMA SafelyTyped == Safety => []TypeOK
<1>1. Init => TypeOK
  <2> SUFFICES ASSUME Init PROVE TypeOK
    OBVIOUS
  <2>1. edges \subseteq Edge
    BY BuiltEdgesTyped DEF Init
  <2>2. query \in Nodes \X Nodes
    BY TopologyAssumption DEF Init
  <2> QED
    BY <2>1, <2>2 DEF Init, TypeOK
<1>2. TypeOK /\ [Next]_vars => TypeOK'
  <2> SUFFICES ASSUME TypeOK, [Next]_vars PROVE TypeOK'
    OBVIOUS
  <2>1. CASE Skip
    BY <2>1 DEF Skip, TypeOK, Popped
  <2>2. CASE Expand
    <3>1. PICK item \in Cheapest(frontier) :
            /\ visited' = visited \cup {item[2]}
            /\ distances' = Relaxed(item[1], item[2])
            /\ frontier' = Popped(frontier, item) \cup
                 {<<item[1] + e.cost, e.target>> : e \in Improving(item[1], item[2])}
      BY <2>2 DEF Expand
    <3>2. item[1] \in Nat /\ item[2] \in Nodes
      BY <3>1 DEF Cheapest, TypeOK
    <3>3. frontier' \subseteq Nat \X Nodes
      BY <3>1, <3>2, ImprovingTyped DEF Popped, TypeOK
    <3>4. DOMAIN distances' \subseteq Nodes /\ \A n \in DOMAIN distances' : distances'[n] \in Nat
      BY <3>1, <3>2, RelaxedTyped
    <3> QED
      BY <2>2, <3>1, <3>2, <3>3, <3>4 DEF Expand, TypeOK
  <2>3. CASE Found
    BY <2>3 DEF Found, TypeOK, Popped, Cheapest
  <2>4. CASE Exhausted
    BY <2>4 DEF Exhausted, TypeOK
  <2>5. CASE UNCHANGED vars
    BY <2>5 DEF vars, TypeOK
  <2> QED
    BY <2>1, <2>2, <2>3, <2>4, <2>5 DEF Next
<1> QED
  BY <1>1, <1>2, PTL DEF Safety

\* Every state of the search is well typed, whatever network_costs names.
THEOREM TypeCorrect == Spec => []TypeOK
BY SafelyTyped, PTL DEF Spec, Safety

-----------------------------------------------------------------------------
(* Settled distances. *)

\* Entries of the heap never undercut the distance of their node, and a
\* settled node is no farther than anything left in the heap.
HeapAbove ==
    /\ \A i \in frontier : i[2] \in DOMAIN distances /\ distances[i[2]] <= i[1]
    /\ \A n \in visited : n \in DOMAIN distances /\ \A i \in frontier : distances[n] <= i[1]

LEMMA RelaxedBelow ==
    ASSUME TypeOK, NEW cost \in Nat, NEW node
    PROVE  /\ DOMAIN distances \subseteq DOMAIN Relaxed(cost, node)
           /\ \A n \in DOMAIN distances :
                /\ Relaxed(cost, node)[n] <= distances[n]
                /\ distances[n] <= cost => Relaxed(cost, node)[n] = distances[n]
           /\ \A e \in Improving(cost, node) : e.target \in DOMAIN Relaxed(cost, node)
<1> DEFINE better == Improving(cost, node)
<1> DEFINE to(n) == CHOOSE e \in better : e.target = n
<1>1. DOMAIN Relaxed(cost, node) = DOMAIN distances \cup {e.target : e \in better}
  BY DEF Relaxed
<1>2. ASSUME NEW n \in DOMAIN distances
      PROVE  /\ Relaxed(cost, node)[n] <= distances[n]
             /\ distances[n] <= cost => Relaxed(cost, node)[n] = distances[n]
  <2>0. distances[n] \in Nat
    BY <1>2 DEF TypeOK
  <2>1. CASE \E e \in better : e.target = n
    <3>1. to(n) \in better /\ to(n).target = n
      BY <2>1
    <3> HIDE DEF to
    <3>2. Relaxed(cost, node)[n] = cost + to(n).cost
      BY <1>1, <1>2, <2>1 DEF Relaxed, to
    <3>3. to(n).cost \in Nat /\ cost + to(n).cost < distances[n]
      BY <1>2, <3>1, ImprovingTyped DEF Improving
    <3> QED
      BY <2>0, <3>2, <3>3
  <2>2. CASE ~ \E e \in better : e.target = n
    <3>1. Relaxed(cost, node)[n] = distances[n]
      BY <1>1, <1>2, <2>2 DEF Relaxed
    <3> QED
      BY <2>0, <3>1
  <2> QED
    BY <2>1, <2>2
<1> QED
  BY <1>1, <1>2

\* The graph has no parallel edges.
NoParallel == \A f, g \in edges : f.source = g.source /\ f.target = g.target => f = g

LEMMA BuiltNoParallel ==
    ASSUME NEW internal \in Internals, NEW net \in Networks,
           edges = PoolEdges(internal) \cup GatewayEdges(net)
    PROVE  NoParallel
<1>1. \A c, p : Gateway(c) # PoolNode(p)
  BY DEF Gateway, PoolNode
<1>2. \A b, c : Gateway(b) = Gateway(c) => b = c
  BY DEF Gateway
<1>3. \A p, q : PoolNode(p) = PoolNode(q) => p = q
  BY DEF PoolNode
<1>4. ASSUME NEW f \in PoolEdges(internal), NEW g \in PoolEdges(internal),
             f.source = g.source, f.target = g.target
      PROVE  f = g
  BY <1>1, <1>3, <1>4 DEF PoolEdges
<1>5. ASSUME NEW f \in PoolEdges(internal), NEW g \in GatewayEdges(net)
      PROVE  ~ (f.source = g.source /\ f.target = g.target)
  BY <1>1 DEF PoolEdges, GatewayEdges
<1>6. ASSUME NEW f \in GatewayEdges(net), NEW g \in GatewayEdges(net),
             f.source = g.source, f.target = g.target
      PROVE  f = g
  <2>1. PICK l \in DOMAIN net : f = [source |-> Gateway(l[1]), target |-> Gateway(l[2]),
                                     cost |-> net[l]]
    BY DEF GatewayEdges
  <2>2. PICK m \in DOMAIN net : g = [source |-> Gateway(m[1]), target |-> Gateway(m[2]),
                                     cost |-> net[m]]
    BY DEF GatewayEdges
  <2>3. l[1] = m[1] /\ l[2] = m[2]
    BY <1>2, <1>6, <2>1, <2>2
  <2>4. l \in Clusters \X Names /\ m \in Clusters \X Names
    BY TopologyAssumption
  <2>5. l = m
    BY <2>3, <2>4
  <2> QED
    BY <2>1, <2>2, <2>5
<1> QED
  BY <1>4, <1>5, <1>6 DEF NoParallel

\* The distance kept for the target of an edge is the cost pushed for it.
LEMMA PushedIsKept ==
    ASSUME NoParallel, NEW cost, NEW node, NEW e \in Improving(cost, node)
    PROVE  /\ e.target \in DOMAIN Relaxed(cost, node)
           /\ Relaxed(cost, node)[e.target] = cost + e.cost
<1> DEFINE better == Improving(cost, node)
<1> DEFINE to == CHOOSE f \in better : f.target = e.target
<1>1. to \in better /\ to.target = e.target
  OBVIOUS
<1>2. to = e
  BY <1>1 DEF Improving, NoParallel
<1> HIDE DEF to
<1>3. e.target \in DOMAIN Relaxed(cost, node) /\ Relaxed(cost, node)[e.target] = cost + to.cost
  BY DEF Relaxed, to
<1> QED
  BY <1>2, <1>3

IInv == TypeOK /\ NoParallel /\ HeapAbove

\* What Expand does, with the node it settles.
LEMMA ExpandKeeps ==
    ASSUME IInv, Expand
    PROVE  HeapAbove' /\ \A n \in visited : distances'[n] = distances[n]
<1> USE DEF IInv
<1>1. PICK item \in Cheapest(frontier) :
        /\ visited' = visited \cup {item[2]}
        /\ distances' = Relaxed(item[1], item[2])
        /\ frontier' = Popped(frontier, item) \cup
             {<<item[1] + e.cost, e.target>> : e \in Improving(item[1], item[2])}
  BY DEF Expand
<1>2. /\ item \in frontier /\ item[1] \in Nat /\ item[2] \in Nodes
      /\ \A j \in frontier : item[1] <= j[1] /\ j[1] \in Nat
  BY <1>1 DEF Cheapest, TypeOK
<1>3. \A n \in visited \cup {item[2]} : n \in DOMAIN distances /\ distances[n] <= item[1]
  BY <1>2 DEF HeapAbove
<1>4. \A n \in visited' : n \in DOMAIN distances' /\ distances'[n] = distances[n]
  BY <1>1, <1>2, <1>3, RelaxedBelow
<1>5. ASSUME NEW j \in frontier'
      PROVE  j[2] \in DOMAIN distances' /\ distances'[j[2]] <= j[1] /\ item[1] <= j[1]
  <2>1. CASE j \in frontier
    <3>1. j[2] \in DOMAIN distances /\ distances[j[2]] <= j[1] /\ distances[j[2]] \in Nat
      BY <2>1 DEF HeapAbove, TypeOK
    <3>2. j[2] \in DOMAIN distances' /\ distances'[j[2]] <= distances[j[2]]
      BY <1>1, <1>2, <3>1, RelaxedBelow
    <3>3. distances'[j[2]] \in Nat
      BY <1>1, <1>2, <3>2, RelaxedTyped
    <3> QED
      BY <1>2, <2>1, <3>1, <3>2, <3>3
  <2>2. CASE j \notin frontier
    <3>1. PICK e \in Improving(item[1], item[2]) : j = <<item[1] + e.cost, e.target>>
      BY <1>1, <1>5, <2>2 DEF Popped
    <3>2. e.cost \in Nat
      BY <1>2, ImprovingTyped
    <3>3. j[2] \in DOMAIN distances' /\ distances'[j[2]] = j[1]
      BY <1>1, <3>1, PushedIsKept
    <3> QED
      BY <1>2, <3>1, <3>2, <3>3
  <2> QED
    BY <2>1, <2>2
<1>6. \A n \in visited' : distances[n] \in Nat
  BY <1>1, <1>3 DEF TypeOK
<1>7. \A n \in visited', j \in frontier' : distances'[n] <= j[1]
  <2> SUFFICES ASSUME NEW n \in visited', NEW j \in frontier' PROVE distances'[n] <= j[1]
    OBVIOUS
  <2>1. distances'[n] = distances[n] /\ distances[n] <= item[1] /\ distances[n] \in Nat
    BY <1>1, <1>3, <1>4, <1>6
  <2>2. item[1] <= j[1] /\ item[1] \in Nat
    BY <1>2, <1>5
  <2>3. j[1] \in Nat
    <3>1. CASE j \in frontier
      BY <1>2, <3>1
    <3>2. CASE j \notin frontier
      <4>1. PICK e \in Improving(item[1], item[2]) : j = <<item[1] + e.cost, e.target>>
        BY <1>1, <3>2 DEF Popped
      <4> QED
        BY <1>2, <4>1, ImprovingTyped
    <3> QED
      BY <3>1, <3>2
  <2> QED
    BY <2>1, <2>2, <2>3
<1> QED
  BY <1>1, <1>4, <1>5, <1>7 DEF HeapAbove

\* The heap of shortest_path_cost: no entry undercuts the distance kept for
\* its node, and no settled node is farther than an entry left in the heap.
LEMMA HeapStaysAbove == Safety => [](NoParallel /\ HeapAbove)
<1>1. Init => NoParallel /\ HeapAbove
  <2> SUFFICES ASSUME Init PROVE NoParallel /\ HeapAbove
    OBVIOUS
  <2>1. NoParallel
    BY BuiltNoParallel DEF Init
  <2>2. HeapAbove
    BY DEF Init, HeapAbove
  <2> QED
    BY <2>1, <2>2
<1>2. TypeOK /\ NoParallel /\ HeapAbove /\ [Next]_vars => (NoParallel /\ HeapAbove)'
  <2> SUFFICES ASSUME TypeOK, NoParallel, HeapAbove, [Next]_vars
               PROVE  NoParallel' /\ HeapAbove'
    OBVIOUS
  <2>0. NoParallel'
    BY DEF NoParallel, Next, Skip, Expand, Found, Exhausted, vars
  <2>1. CASE Skip
    BY <2>0, <2>1 DEF Skip, HeapAbove, Popped
  <2>2. CASE Expand
    BY <2>0, <2>2, ExpandKeeps DEF IInv
  <2>3. CASE Found
    <3>1. PICK item \in Cheapest(frontier) :
            visited' = visited \cup {item[2]} /\ frontier' = Popped(frontier, item)
      BY <2>3 DEF Found
    <3>2. \A j \in frontier : item[1] <= j[1] /\ item[1] \in Nat /\ j[1] \in Nat
      BY <3>1 DEF Cheapest, TypeOK
    <3>3. item[2] \in DOMAIN distances /\ distances[item[2]] <= item[1]
      BY <3>1 DEF Cheapest, HeapAbove
    <3>4. distances[item[2]] \in Nat
      BY <3>3 DEF TypeOK
    <3>5. \A j \in frontier : distances[item[2]] <= j[1]
      BY <3>2, <3>3, <3>4
    <3>6. distances' = distances
      BY <2>3 DEF Found
    <3> QED
      BY <2>0, <3>1, <3>3, <3>5, <3>6 DEF HeapAbove, Popped
  <2>4. CASE Exhausted
    BY <2>0, <2>4 DEF Exhausted, HeapAbove
  <2>5. CASE UNCHANGED vars
    BY <2>0, <2>5 DEF vars, HeapAbove
  <2> QED
    BY <2>0, <2>1, <2>2, <2>3, <2>4, <2>5 DEF Next
<1> QED
  BY <1>1, <1>2, SafelyTyped, PTL DEF Safety

LEMMA SafelySettled == Safety => SettledFinal
<1>1. TypeOK /\ NoParallel /\ HeapAbove /\ [Next]_vars =>
        [\A n \in visited : distances'[n] = distances[n]]_vars
  <2> SUFFICES ASSUME TypeOK, NoParallel, HeapAbove, Next
               PROVE  \A n \in visited : distances'[n] = distances[n]
    OBVIOUS
  <2>1. CASE Expand
    BY <2>1, ExpandKeeps DEF IInv
  <2>2. CASE ~ Expand
    BY <2>2 DEF Next, Skip, Found, Exhausted
  <2> QED
    BY <2>1, <2>2
<1> QED
  BY <1>1, SafelyTyped, HeapStaysAbove, PTL DEF Safety, SettledFinal

\* A settled node is never improved again, in any graph with natural costs:
\* the `continue` on a visited node drops nothing.
THEOREM SettledNodesAreFinal == Spec => SettledFinal
BY SafelySettled, PTL DEF Spec, Safety

-----------------------------------------------------------------------------
(* The answer is the cost of a cheapest walk.                               *)
(*                                                                         *)
(* A walk is a sequence of pairs: the cost so far and the node reached.    *)
(* The run topology_shortest compares the answer with the cheapest simple  *)
(* path of small graphs; here it is compared with every walk, of any       *)
(* length, in any graph with natural costs.                                *)

\* w starts at the source with cost 0 and follows edges, adding up their costs.
Walk(w) ==
    /\ w \in Seq(Nat \X Nodes) /\ w # <<>>
    /\ w[1] = <<0, query[1]>>
    /\ \A i \in 1 .. Len(w) - 1 :
         \E e \in edges : /\ e.source = w[i][2] /\ e.target = w[i + 1][2]
                          /\ w[i + 1][1] = w[i][1] + e.cost

\* A finite answer is the cost of a walk to the target and no walk to it is
\* cheaper; the answer is infinite only if no walk reaches the target.
ShortestWalk ==
    \A cost \in answer :
        IF cost = Infinity
        THEN \A w : Walk(w) => w[Len(w)][2] # query[2]
        ELSE /\ \E w : Walk(w) /\ w[Len(w)] = <<cost, query[2]>>
             /\ \A w : Walk(w) /\ w[Len(w)][2] = query[2] => cost <= w[Len(w)][1]

\* No node twice, and only settled nodes before the last.
Simple(w) ==
    /\ \A i, j \in 1 .. Len(w) : w[i][2] = w[j][2] => i = j
    /\ \A i \in 1 .. Len(w) - 1 : w[i][2] \in visited

\* Every distance kept is the cost of a simple walk.
Realised ==
    \A n \in DOMAIN distances :
        \E w : Walk(w) /\ Simple(w) /\ w[Len(w)] = <<distances[n], n>>

\* The source stays at distance 0, and a node reached but not settled has its
\* distance in the heap.
Pending ==
    /\ query[1] \in DOMAIN distances /\ distances[query[1]] = 0
    /\ \A n \in DOMAIN distances \ visited : <<distances[n], n>> \in frontier

\* The edges of a settled node, the target excepted, are relaxed.
Relaxes ==
    \A e \in edges : e.source \in visited \ {query[2]} =>
        /\ e.source \in DOMAIN distances /\ e.target \in DOMAIN distances
        /\ distances[e.target] <= distances[e.source] + e.cost

\* The target is settled exactly when a finite answer, its distance, is given.
Answered ==
    \/ answer = {} /\ query[2] \notin visited
    \/ answer = {Infinity} /\ query[2] \notin visited /\ frontier = {}
    \/ /\ query[2] \in visited /\ query[2] \in DOMAIN distances
       /\ answer = {distances[query[2]]}

SearchInv == Realised /\ Pending /\ Relaxes /\ Answered

\* A walk is a sequence of pairs of naturals and nodes.
LEMMA WalkTyped ==
    ASSUME NEW w, Walk(w)
    PROVE  /\ Len(w) \in Nat \ {0}
           /\ \A i \in 1 .. Len(w) : w[i] \in Nat \X Nodes /\ w[i][1] \in Nat /\ w[i][2] \in Nodes
<1>1. w \in Seq(Nat \X Nodes) /\ w # <<>>
  BY DEF Walk
<1>2. Len(w) \in Nat \ {0} /\ \A i \in 1 .. Len(w) : w[i] \in Nat \X Nodes
  BY <1>1
<1> QED  BY <1>2

\* A walk followed by an edge is a walk.
LEMMA WalkExtends ==
    ASSUME TypeOK, NEW w, Walk(w), NEW cost \in Nat, NEW e \in edges,
           w[Len(w)] = <<cost, e.source>>
    PROVE  \E v : /\ Walk(v) /\ v[Len(v)] = <<cost + e.cost, e.target>>
                  /\ Len(v) = Len(w) + 1 /\ \A i \in 1 .. Len(w) : v[i] = w[i]
<1> DEFINE last == <<cost + e.cost, e.target>>
<1> DEFINE v == Append(w, last)
<1>1. e.cost \in Nat /\ e.target \in Nodes
  BY DEF TypeOK, Edge
<1>2. last \in Nat \X Nodes
  BY <1>1
<1>3. w \in Seq(Nat \X Nodes) /\ Len(w) \in Nat \ {0}
  BY WalkTyped DEF Walk
<1>4. /\ v \in Seq(Nat \X Nodes) /\ Len(v) = Len(w) + 1 /\ v[Len(w) + 1] = last
      /\ \A i \in 1 .. Len(w) : v[i] = w[i]
  <2> HIDE DEF last
  <2> QED  BY <1>2, <1>3
<1> HIDE DEF v
<1>5. v # <<>> /\ v[1] = <<0, query[1]>>
  <2>1. Len(v) # 0 /\ 1 \in 1 .. Len(w)
    BY <1>3, <1>4
  <2>2. Len(<<>>) = 0
    OBVIOUS
  <2>3. w[1] = <<0, query[1]>>
    BY DEF Walk
  <2> QED  BY <1>4, <2>1, <2>2, <2>3
<1>6. ASSUME NEW i \in 1 .. Len(v) - 1
      PROVE  \E f \in edges : /\ f.source = v[i][2] /\ f.target = v[i + 1][2]
                              /\ v[i + 1][1] = v[i][1] + f.cost
  <2>1. CASE i = Len(w)
    <3>1. v[i] = <<cost, e.source>> /\ v[i + 1] = last
      BY <1>3, <1>4, <2>1
    <3> QED  BY <3>1
  <2>2. CASE i # Len(w)
    <3>1. i \in 1 .. Len(w) - 1 /\ i \in 1 .. Len(w) /\ i + 1 \in 1 .. Len(w)
      BY <1>3, <1>4, <2>2
    <3>2. v[i] = w[i] /\ v[i + 1] = w[i + 1]
      BY <1>4, <3>1
    <3> QED  BY <3>1, <3>2 DEF Walk
  <2> QED  BY <2>1, <2>2
<1>7. Walk(v)
  BY <1>4, <1>5, <1>6 DEF Walk
<1> QED  BY <1>4, <1>7

\* Every non-empty set of naturals has a least element.
LEMMA LeastNatural ==
    ASSUME NEW S \in SUBSET Nat, S # {}
    PROVE  \E m \in S : \A n \in S : m <= n
<1>1. PICK m \in S : \A n \in S : <<n, m>> \notin OpToRel(<, Nat)
  BY NatLessThanWellFounded, WFMin
<1>2. \A n \in S : ~(n < m)
  BY <1>1 DEF OpToRel
<1> QED  BY <1>2

\* What holds at the first place of a walk and carries over every edge holds at
\* its last: good is the set of places where it holds.
LEMMA AlongWalk ==
    ASSUME NEW w, Walk(w), NEW good, 1 \in good,
           \A i \in 1 .. Len(w) - 1 : i \in good => i + 1 \in good
    PROVE  Len(w) \in good
<1>0. Len(w) \in Nat \ {0}
  BY WalkTyped
<1> SUFFICES ASSUME Len(w) \notin good PROVE FALSE
  OBVIOUS
<1> DEFINE bad == {i \in 1 .. Len(w) : i \notin good}
<1>1. bad \in SUBSET Nat /\ bad # {}
  BY <1>0
<1>2. PICK m \in bad : \A n \in bad : m <= n
  <2> HIDE DEF bad
  <2> QED  BY <1>1, LeastNatural
<1>3. m # 1 /\ m - 1 \in 1 .. Len(w) - 1 /\ m - 1 \notin bad
  BY <1>0, <1>2
<1>4. m - 1 \in good
  BY <1>0, <1>3
<1>5. (m - 1) + 1 \in good
  BY <1>3, <1>4
<1>6. (m - 1) + 1 = m
  BY <1>0
<1> QED  BY <1>2, <1>5, <1>6

\* A walk to the target costs at least the finite answer: at each of its
\* places, the cost so far is that of the answer already, or the distance
\* kept for the node is no greater than it.
LEMMA NoCheaperWalk ==
    ASSUME TypeOK, HeapAbove, SearchInv, query[2] \in visited,
           NEW w, Walk(w), w[Len(w)][2] = query[2]
    PROVE  distances[query[2]] <= w[Len(w)][1]
<1> DEFINE t == query[2]
<1> DEFINE Near(n, c) == n \in DOMAIN distances /\ distances[n] <= c
<1> DEFINE good == {i \in 1 .. Len(w) : distances[t] <= w[i][1] \/ Near(w[i][2], w[i][1])}
<1>0. Len(w) \in Nat \ {0} /\ \A i \in 1 .. Len(w) : w[i][1] \in Nat /\ w[i][2] \in Nodes
  BY WalkTyped
<1>1. t \in DOMAIN distances /\ \A n \in DOMAIN distances : distances[n] \in Nat
  BY DEF SearchInv, Answered, TypeOK, HeapAbove
<1>2. 1 \in good
  <2>1. w[1] = <<0, query[1]>>
    BY DEF Walk
  <2>2. Near(query[1], 0)
    BY DEF SearchInv, Pending
  <2> QED  BY <1>0, <2>1, <2>2
<1>3. ASSUME NEW i \in 1 .. Len(w) - 1, i \in good
      PROVE  i + 1 \in good
  <2>1. i \in 1 .. Len(w) /\ i + 1 \in 1 .. Len(w)
    BY <1>0
  <2>2. PICK e \in edges : /\ e.source = w[i][2] /\ e.target = w[i + 1][2]
                           /\ w[i + 1][1] = w[i][1] + e.cost
    BY DEF Walk
  <2>3. e.cost \in Nat /\ w[i][1] \in Nat
    BY <1>0, <2>1 DEF TypeOK, Edge
  <2>4. CASE distances[t] <= w[i][1]
    <3>1. distances[t] <= w[i + 1][1]
      BY <1>1, <2>2, <2>3, <2>4
    <3> QED  BY <2>1, <3>1
  <2>5. CASE ~ (distances[t] <= w[i][1])
    <3>1. e.source \in DOMAIN distances /\ distances[e.source] <= w[i][1]
      BY <1>3, <2>2, <2>5
    <3>2. distances[e.source] < distances[t]
      BY <1>1, <2>3, <2>5, <3>1
    <3>3. e.source # t
      BY <1>1, <3>2
    <3>4. e.source \in visited
      <4> SUFFICES ASSUME e.source \notin visited PROVE FALSE
        OBVIOUS
      <4>1. <<distances[e.source], e.source>> \in frontier
        BY <3>1 DEF SearchInv, Pending
      <4>2. distances[t] <= <<distances[e.source], e.source>>[1]
        BY <4>1 DEF HeapAbove
      <4>3. distances[t] <= distances[e.source]
        BY <4>2
      <4> QED  BY <1>1, <3>1, <3>2, <4>3
    <3>5. e.target \in DOMAIN distances /\ distances[e.target] <= distances[e.source] + e.cost
      BY <3>3, <3>4 DEF SearchInv, Relaxes
    <3>6. distances[e.target] <= w[i + 1][1]
      <4>1. distances[e.target] \in Nat /\ distances[e.source] \in Nat
        BY <1>1, <3>1, <3>5
      <4>2. distances[e.target] <= w[i][1] + e.cost
        BY <2>3, <3>1, <3>5, <4>1
      <4> QED  BY <2>2, <4>2
    <3> QED  BY <2>1, <2>2, <3>5, <3>6
  <2> QED  BY <2>4, <2>5
<1>4. Len(w) \in good
  <2> HIDE DEF good
  <2> QED  BY <1>2, <1>3, AlongWalk
<1> QED  BY <1>4

\* When the heap is empty and the target was not settled, no walk reaches it.
LEMMA NoWalk ==
    ASSUME TypeOK, SearchInv, query[2] \notin visited, frontier = {},
           NEW w, Walk(w)
    PROVE  w[Len(w)][2] # query[2]
<1>1. DOMAIN distances \subseteq visited
  BY DEF SearchInv, Pending
<1> DEFINE good == {i \in 1 .. Len(w) : w[i][2] \in DOMAIN distances}
<1>0. Len(w) \in Nat \ {0} /\ \A i \in 1 .. Len(w) : w[i][1] \in Nat /\ w[i][2] \in Nodes
  BY WalkTyped
<1>2. 1 \in good
  <2>1. w[1] = <<0, query[1]>>
    BY DEF Walk
  <2>2. query[1] \in DOMAIN distances
    BY DEF SearchInv, Pending
  <2> QED  BY <1>0, <2>1, <2>2
<1>3. ASSUME NEW i \in 1 .. Len(w) - 1, i \in good
      PROVE  i + 1 \in good
  <2>1. i + 1 \in 1 .. Len(w)
    BY <1>0
  <2>2. PICK e \in edges : e.source = w[i][2] /\ e.target = w[i + 1][2]
    BY DEF Walk
  <2>3. e.source \in visited \ {query[2]}
    BY <1>1, <1>3, <2>2
  <2> QED  BY <2>1, <2>2, <2>3 DEF SearchInv, Relaxes
<1>4. Len(w) \in good
  <2> HIDE DEF good
  <2> QED  BY <1>2, <1>3, AlongWalk
<1> QED  BY <1>1, <1>4

LEMMA SearchInvSuffices ==
    ASSUME TypeOK, HeapAbove, SearchInv
    PROVE  ShortestWalk
<1> SUFFICES ASSUME NEW cost \in answer
             PROVE  IF cost = Infinity
                    THEN \A w : Walk(w) => w[Len(w)][2] # query[2]
                    ELSE /\ \E w : Walk(w) /\ w[Len(w)] = <<cost, query[2]>>
                         /\ \A w : Walk(w) /\ w[Len(w)][2] = query[2] => cost <= w[Len(w)][1]
  BY DEF ShortestWalk
<1>1. CASE query[2] \notin visited
  <2>1. cost = Infinity /\ frontier = {}
    BY <1>1 DEF SearchInv, Answered
  <2> QED  BY <1>1, <2>1, NoWalk
<1>2. CASE query[2] \in visited
  <2>1. query[2] \in DOMAIN distances /\ cost = distances[query[2]] /\ cost \in Nat
    BY <1>2 DEF SearchInv, Answered, TypeOK
  <2>2. cost # Infinity
    BY <2>1 DEF Infinity
  <2>3. \E w : Walk(w) /\ w[Len(w)] = <<cost, query[2]>>
    BY <2>1 DEF SearchInv, Realised
  <2>4. \A w : Walk(w) /\ w[Len(w)][2] = query[2] => cost <= w[Len(w)][1]
    BY <1>2, <2>1, NoCheaperWalk
  <2> QED  BY <2>2, <2>3, <2>4
<1> QED  BY <1>1, <1>2

\* The walks are those of the graph and the source, which a step leaves alone.
LEMMA SameWalks ==
    ASSUME edges' = edges, query' = query, visited \subseteq visited'
    PROVE  \A w : (Walk(w) => Walk(w)') /\ (Simple(w) => Simple(w)')
BY DEF Walk, Simple

\* The cheapest entry of the heap, if its node is not settled, has the distance
\* kept for the node.
LEMMA CheapestIsKept ==
    ASSUME TypeOK, HeapAbove, Pending, NEW item \in Cheapest(frontier), item[2] \notin visited
    PROVE  /\ item[1] \in Nat /\ item[2] \in Nodes /\ item[2] \in DOMAIN distances
           /\ item = <<distances[item[2]], item[2]>> /\ item[1] = distances[item[2]]
<1>1. /\ item \in frontier /\ item \in Nat \X Nodes /\ item[1] \in Nat /\ item[2] \in Nodes
      /\ \A j \in frontier : item[1] <= j[1]
  BY DEF Cheapest, TypeOK
<1>2. item[2] \in DOMAIN distances /\ distances[item[2]] <= item[1]
  BY <1>1 DEF HeapAbove
<1>3. <<distances[item[2]], item[2]>> \in frontier
  BY <1>2 DEF Pending
<1>4. item[1] <= distances[item[2]]
  BY <1>1, <1>3
<1>5. distances[item[2]] \in Nat
  BY <1>2 DEF TypeOK
<1>6. item[1] = distances[item[2]]
  BY <1>1, <1>2, <1>4, <1>5
<1>7. item = <<item[1], item[2]>>
  BY <1>1
<1> QED  BY <1>1, <1>2, <1>6, <1>7

\* A distance after the loop over the edges is the one kept before, or that of
\* an improving edge.
LEMMA RelaxedValue ==
    ASSUME NoParallel, NEW cost, NEW node, NEW n \in DOMAIN Relaxed(cost, node)
    PROVE  \/ n \in DOMAIN distances /\ Relaxed(cost, node)[n] = distances[n]
           \/ \E e \in Improving(cost, node) :
                e.target = n /\ Relaxed(cost, node)[n] = cost + e.cost
<1>1. CASE \E e \in Improving(cost, node) : e.target = n
  BY <1>1, PushedIsKept
<1>2. CASE ~ \E e \in Improving(cost, node) : e.target = n
  BY <1>2 DEF Relaxed
<1> QED  BY <1>1, <1>2

LEMMA ExpandSearches ==
    ASSUME IInv, SearchInv, Expand
    PROVE  SearchInv'
<1>1. PICK item \in Cheapest(frontier) :
        /\ item[2] \notin visited /\ item[2] # query[2]
        /\ visited' = visited \cup {item[2]}
        /\ distances' = Relaxed(item[1], item[2])
        /\ frontier' = Popped(frontier, item) \cup
             {<<item[1] + e.cost, e.target>> : e \in Improving(item[1], item[2])}
  BY DEF Expand
<1>2. edges' = edges /\ query' = query /\ answer' = answer /\ answer = {}
  BY DEF Expand
<1>3. /\ item[1] \in Nat /\ item[2] \in Nodes /\ item[2] \in DOMAIN distances
      /\ item = <<distances[item[2]], item[2]>> /\ item[1] = distances[item[2]]
  BY <1>1, CheapestIsKept DEF IInv, SearchInv
<1>4. \A n \in DOMAIN distances :
        /\ n \in DOMAIN distances' /\ distances'[n] <= distances[n]
        /\ distances[n] \in Nat /\ distances'[n] \in Nat
  BY <1>1, <1>3, RelaxedBelow, RelaxedTyped DEF IInv, TypeOK
<1>5. \A n \in visited' : n \in DOMAIN distances /\ distances'[n] = distances[n]
  <2>1. \A n \in visited : n \in DOMAIN distances /\ distances'[n] = distances[n]
    BY ExpandKeeps DEF IInv, HeapAbove
  <2>2. distances'[item[2]] = distances[item[2]]
    BY <1>1, <1>3, RelaxedBelow DEF IInv
  <2> QED  BY <1>1, <1>3, <2>1, <2>2
<1>6. \A n \in DOMAIN distances' :
        \/ n \in DOMAIN distances /\ distances'[n] = distances[n]
        \/ \E e \in Improving(item[1], item[2]) :
             e.target = n /\ distances'[n] = item[1] + e.cost
  BY <1>1, RelaxedValue DEF IInv
<1>7. Realised'
  <2> SUFFICES ASSUME NEW n \in DOMAIN distances'
               PROVE  \E w : Walk(w)' /\ Simple(w)' /\ w[Len(w)] = <<distances'[n], n>>
    BY DEF Realised
  <2>0. \A w : (Walk(w) => Walk(w)') /\ (Simple(w) => Simple(w)')
    BY <1>1, <1>2, SameWalks
  <2>1. CASE n \in DOMAIN distances /\ distances'[n] = distances[n]
    BY <2>0, <2>1 DEF SearchInv, Realised
  <2>2. ASSUME NEW e \in Improving(item[1], item[2]), e.target = n,
               distances'[n] = item[1] + e.cost
        PROVE  \E w : Walk(w)' /\ Simple(w)' /\ w[Len(w)] = <<distances'[n], n>>
    <3>1. e \in edges /\ e.source = item[2]
      BY DEF Improving
    <3>2. PICK w : Walk(w) /\ Simple(w) /\ w[Len(w)] = <<distances[item[2]], item[2]>>
      BY <1>3 DEF SearchInv, Realised
    <3>3. w[Len(w)] = <<item[1], e.source>>
      BY <1>3, <3>1, <3>2
    <3>4. PICK v : /\ Walk(v) /\ v[Len(v)] = <<item[1] + e.cost, e.target>>
                   /\ Len(v) = Len(w) + 1 /\ \A i \in 1 .. Len(w) : v[i] = w[i]
      BY <1>3, <3>1, <3>2, <3>3, WalkExtends DEF IInv
    <3>5. Len(w) \in Nat \ {0}
      BY <3>2, WalkTyped
    <3>6. \A i \in 1 .. Len(w) : w[i][2] \in visited'
      <4>1. w[Len(w)][2] = item[2]
        BY <3>2
      <4>2. ASSUME NEW i \in 1 .. Len(w), i # Len(w) PROVE w[i][2] \in visited
        <5>1. i \in 1 .. Len(w) - 1
          BY <3>5, <4>2
        <5> QED  BY <3>2, <5>1 DEF Simple
      <4> QED  BY <1>1, <4>1, <4>2
    <3>7. n \notin visited'
      <4> SUFFICES ASSUME n \in visited' PROVE FALSE
        OBVIOUS
      <4>1. n \in DOMAIN distances /\ distances'[n] = distances[n]
        BY <1>5
      <4>2. item[1] + e.cost < distances[n] /\ distances[n] \in Nat
        BY <1>4, <2>2, <4>1 DEF Improving
      <4> QED  BY <2>2, <4>1, <4>2
    <3>8. v[Len(v)][2] = n
      BY <2>2, <3>4
    <3>9. Simple(v)'
      <4>1. ASSUME NEW i \in 1 .. Len(v), NEW j \in 1 .. Len(v), v[i][2] = v[j][2]
            PROVE  i = j
        <5>1. \A k \in 1 .. Len(w) : v[k][2] # n
          BY <3>4, <3>6, <3>7
        <5>2. CASE i \in 1 .. Len(w) /\ j \in 1 .. Len(w)
          BY <3>2, <3>4, <4>1, <5>2 DEF Simple
        <5>3. CASE i \notin 1 .. Len(w) \/ j \notin 1 .. Len(w)
          <6>1. \A k \in 1 .. Len(v) : k \notin 1 .. Len(w) => k = Len(v)
            BY <3>4, <3>5
          <6> QED  BY <3>8, <4>1, <5>1, <5>3, <6>1
        <5> QED  BY <5>2, <5>3
      <4>2. \A i \in 1 .. Len(v) - 1 : i \in 1 .. Len(w)
        BY <3>4, <3>5
      <4> QED  BY <3>4, <3>6, <4>1, <4>2 DEF Simple
    <3> QED  BY <2>0, <2>2, <3>4, <3>9
  <2> QED  BY <1>6, <2>1, <2>2
<1>8. Pending'
  <2>1. query[1] \in DOMAIN distances' /\ distances'[query[1]] = 0
    BY <1>4 DEF SearchInv, Pending
  <2>2. ASSUME NEW n \in DOMAIN distances' \ visited'
        PROVE  <<distances'[n], n>> \in frontier'
    <3>1. CASE n \in DOMAIN distances /\ distances'[n] = distances[n]
      <4>1. <<distances[n], n>> \in frontier /\ <<distances[n], n>> # item
        BY <1>1, <2>2, <3>1 DEF SearchInv, Pending
      <4> QED  BY <1>1, <3>1, <4>1 DEF Popped
    <3>2. CASE \E e \in Improving(item[1], item[2]) :
                 e.target = n /\ distances'[n] = item[1] + e.cost
      BY <1>1, <3>2
    <3> QED  BY <1>6, <2>2, <3>1, <3>2
  <2> QED  BY <1>2, <2>1, <2>2 DEF Pending
<1>9. Relaxes'
  <2> SUFFICES ASSUME NEW e \in edges, e.source \in visited' \ {query[2]}
               PROVE  /\ e.source \in DOMAIN distances' /\ e.target \in DOMAIN distances'
                      /\ distances'[e.target] <= distances'[e.source] + e.cost
    BY <1>2 DEF Relaxes
  <2>0. e.cost \in Nat
    BY DEF IInv, TypeOK, Edge
  <2>1. e.source \in DOMAIN distances /\ distances'[e.source] = distances[e.source]
    BY <1>5
  <2>2. CASE e.source = item[2]
    <3>1. CASE e \in Improving(item[1], item[2])
      <4>1. e.target \in DOMAIN distances' /\ distances'[e.target] = item[1] + e.cost
        BY <1>1, <3>1, PushedIsKept DEF IInv
      <4> QED  BY <1>3, <1>4, <2>0, <2>1, <2>2, <4>1
    <3>2. CASE e \notin Improving(item[1], item[2])
      <4>1. e.target \in DOMAIN distances /\ ~ (item[1] + e.cost < distances[e.target])
        BY <2>2, <3>2 DEF Improving
      <4>2. distances'[e.target] \in Nat /\ distances[e.target] \in Nat
            /\ distances'[e.target] <= distances[e.target] /\ e.target \in DOMAIN distances'
        BY <1>4, <4>1
      <4>3. distances'[e.target] <= item[1] + e.cost
        BY <1>3, <2>0, <4>1, <4>2
      <4> QED  BY <1>3, <1>4, <2>1, <2>2, <4>2, <4>3
    <3> QED  BY <3>1, <3>2
  <2>3. CASE e.source # item[2]
    <3>1. e.source \in visited \ {query[2]}
      BY <1>1, <2>3
    <3>2. e.target \in DOMAIN distances /\ distances[e.target] <= distances[e.source] + e.cost
      BY <3>1 DEF SearchInv, Relaxes
    <3>3. distances'[e.target] \in Nat /\ distances[e.target] \in Nat
          /\ distances'[e.target] <= distances[e.target] /\ e.target \in DOMAIN distances'
      BY <1>4, <3>2
    <3>4. distances[e.source] \in Nat /\ e.source \in DOMAIN distances'
      BY <1>4, <2>1
    <3> QED  BY <2>0, <2>1, <3>2, <3>3, <3>4
  <2> QED  BY <2>2, <2>3
<1>10. Answered'
  <2>1. query[2] \notin visited
    BY <1>2 DEF SearchInv, Answered
  <2> QED  BY <1>1, <1>2, <2>1 DEF Answered
<1> QED  BY <1>7, <1>8, <1>9, <1>10 DEF SearchInv

LEMMA FoundSearches ==
    ASSUME IInv, SearchInv, Found
    PROVE  SearchInv'
<1>1. PICK item \in Cheapest(frontier) :
        /\ item[2] \notin visited /\ item[2] = query[2]
        /\ visited' = visited \cup {item[2]}
        /\ frontier' = Popped(frontier, item)
        /\ answer' = {item[1]}
  BY DEF Found
<1>2. edges' = edges /\ query' = query /\ distances' = distances
  BY DEF Found
<1>3. /\ item[2] \in DOMAIN distances
      /\ item = <<distances[item[2]], item[2]>> /\ item[1] = distances[item[2]]
  BY <1>1, CheapestIsKept DEF IInv, SearchInv
<1>4. Realised'
  BY <1>1, <1>2, SameWalks DEF SearchInv, Realised
<1>5. Pending'
  <2>1. ASSUME NEW n \in DOMAIN distances \ visited' PROVE <<distances[n], n>> \in frontier'
    <3>1. <<distances[n], n>> \in frontier /\ <<distances[n], n>> # item
      BY <1>1, <2>1 DEF SearchInv, Pending
    <3> QED  BY <1>1, <3>1 DEF Popped
  <2> QED  BY <1>2, <2>1 DEF SearchInv, Pending
<1>6. Relaxes'
  BY <1>1, <1>2 DEF SearchInv, Relaxes
<1>7. Answered'
  BY <1>1, <1>2, <1>3 DEF Answered
<1> QED  BY <1>4, <1>5, <1>6, <1>7 DEF SearchInv

\* The inductive invariant of the search.
LEMMA SafelySearched == Safety => [](IInv /\ SearchInv)
<1>1. Init => SearchInv
  <2> SUFFICES ASSUME Init PROVE SearchInv
    OBVIOUS
  <2>1. query[1] \in Nodes
    BY TopologyAssumption DEF Init
  <2>2. Walk(<<<<0, query[1]>>>>)
    BY <2>1 DEF Walk
  <2>3. Realised
    <3> DEFINE w == <<<<0, query[1]>>>>
    <3>1. Len(w) = 1 /\ w[1] = <<0, query[1]>>
      OBVIOUS
    <3>2. DOMAIN distances = {query[1]} /\ distances[query[1]] = 0
      BY DEF Init
    <3>3. Walk(w)
      BY <2>2
    <3> HIDE DEF w
    <3>4. Simple(w)
      BY <3>1 DEF Simple
    <3> QED  BY <3>1, <3>2, <3>3, <3>4 DEF Realised
  <2>4. Pending /\ Relaxes /\ Answered
    BY DEF Init, Pending, Relaxes, Answered
  <2> QED  BY <2>3, <2>4 DEF SearchInv
<1>2. IInv /\ SearchInv /\ [Next]_vars => SearchInv'
  <2> SUFFICES ASSUME IInv, SearchInv, [Next]_vars PROVE SearchInv'
    OBVIOUS
  <2>1. CASE Skip
    <3>1. PICK item \in Cheapest(frontier) : item[2] \in visited /\ frontier' = Popped(frontier, item)
      BY <2>1 DEF Skip
    <3>2. /\ edges' = edges /\ query' = query /\ distances' = distances /\ visited' = visited
          /\ answer' = answer /\ answer = {}
      BY <2>1 DEF Skip
    <3>3. Realised'
      BY <3>2, SameWalks DEF SearchInv, Realised
    <3>4. Pending'
      <4>1. ASSUME NEW n \in DOMAIN distances \ visited PROVE <<distances[n], n>> \in frontier'
        <5>1. <<distances[n], n>> \in frontier /\ <<distances[n], n>> # item
          BY <3>1, <4>1 DEF SearchInv, Pending
        <5> QED  BY <3>1, <5>1 DEF Popped
      <4> QED  BY <3>2, <4>1 DEF SearchInv, Pending
    <3>5. Relaxes' /\ Answered'
      BY <3>2 DEF SearchInv, Relaxes, Answered
    <3> QED  BY <3>3, <3>4, <3>5 DEF SearchInv
  <2>2. CASE Expand
    BY <2>2, ExpandSearches
  <2>3. CASE Found
    BY <2>3, FoundSearches
  <2>4. CASE Exhausted
    <3>1. /\ edges' = edges /\ query' = query /\ distances' = distances /\ visited' = visited
          /\ frontier' = frontier /\ frontier = {} /\ answer' = {Infinity} /\ answer = {}
      BY <2>4 DEF Exhausted
    <3>2. Realised'
      BY <3>1, SameWalks DEF SearchInv, Realised
    <3>3. Pending' /\ Relaxes'
      BY <3>1 DEF SearchInv, Pending, Relaxes
    <3>4. query[2] \notin visited
      BY <3>1 DEF SearchInv, Answered
    <3>5. Answered'
      BY <3>1, <3>4 DEF Answered
    <3> QED  BY <3>2, <3>3, <3>5 DEF SearchInv
  <2>5. CASE UNCHANGED vars
    <3>1. Realised'
      BY <2>5, SameWalks DEF SearchInv, Realised, vars
    <3> QED  BY <2>5, <3>1 DEF SearchInv, Pending, Relaxes, Answered, vars
  <2> QED
    BY <2>1, <2>2, <2>3, <2>4, <2>5 DEF Next
<1> QED
  BY <1>1, <1>2, SafelyTyped, HeapStaysAbove, PTL DEF Safety, IInv

\* shortest_path_cost returns the cost of a cheapest walk from its source to
\* its target, and infinity only if there is none, in every graph with natural
\* costs, although superseded entries stay in the heap, nodes are settled once
\* and the search stops when the target is popped.
THEOREM SearchIsShortest == Spec => []ShortestWalk
<1>1. IInv /\ SearchInv => ShortestWalk
  BY SearchInvSuffices DEF IInv
<1> QED
  BY <1>1, SafelySearched, PTL DEF Spec, Safety

-----------------------------------------------------------------------------
(* The cheapest walk is a path without repetitions, as the run compares it. *)

\* What PathCost computes, place by place.
CostsAlong(g, path) ==
    g = [i \in DOMAIN path |->
            IF i = 1 THEN 0 ELSE g[i - 1] + CostOfEdge(path[i - 1], path[i])]

\* There is such a function: extend that of the path without its last node.
LEMMA CostsAlongExist ==
    ASSUME NEW path \in Seq(Nodes)
    PROVE  \E g : CostsAlong(g, path)
<1> DEFINE Next1(h, i) == IF i = 1 THEN 0 ELSE h[i - 1] + CostOfEdge(path[i - 1], path[i])
<1> DEFINE UpTo(h, n) == h = [i \in 1 .. n |-> Next1(h, i)]
<1> DEFINE bad == {n \in Nat : ~ \E h : UpTo(h, n)}
<1>0. Len(path) \in Nat /\ DOMAIN path = 1 .. Len(path)
  OBVIOUS
<1>1. bad = {}
  <2> SUFFICES ASSUME bad # {} PROVE FALSE
    OBVIOUS
  <2>1. PICK n \in bad : \A m \in bad : n <= m
    <3>1. bad \in SUBSET Nat
      OBVIOUS
    <3> HIDE DEF bad
    <3> QED  BY <3>1, LeastNatural
  <2>2. n \in Nat /\ n # 0
    <3>1. UpTo([i \in 1 .. 0 |-> 0], 0)
      OBVIOUS
    <3> QED  BY <2>1, <3>1
  <2>3. n - 1 \in Nat /\ n - 1 \notin bad
    <3>1. n - 1 \in Nat /\ ~ (n <= n - 1)
      BY <2>2
    <3> HIDE DEF bad
    <3> QED  BY <2>1, <3>1
  <2>4. PICK h : UpTo(h, n - 1)
    BY <2>3
  <2> DEFINE g == [i \in 1 .. n |-> IF i = n THEN Next1(h, n) ELSE h[i]]
  <2>5. ASSUME NEW i \in 1 .. n PROVE g[i] = Next1(g, i)
    <3>1. CASE i = 1
      <4>1. CASE n = 1
        BY <3>1, <4>1
      <4>2. CASE n # 1
        <5>1. g[i] = h[i] /\ i \in 1 .. n - 1
          BY <2>2, <3>1, <4>2
        <5> QED  BY <2>4, <3>1, <5>1
      <4> QED  BY <4>1, <4>2
    <3>2. CASE i # 1
      <4>1. i - 1 \in 1 .. n /\ i - 1 # n
        BY <2>2, <3>2
      <4>2. g[i - 1] = h[i - 1]
        BY <4>1
      <4>3. Next1(g, i) = Next1(h, i)
        BY <4>2
      <4>4. CASE i = n
        BY <4>3, <4>4
      <4>5. CASE i # n
        <5>1. g[i] = h[i] /\ i \in 1 .. n - 1
          BY <2>2, <4>5
        <5>2. h[i] = Next1(h, i)
          <6> HIDE DEF Next1
          <6> QED  BY <2>4, <5>1
        <5> QED  BY <4>3, <5>1, <5>2
      <4> QED  BY <4>4, <4>5
    <3> QED  BY <3>1, <3>2
  <2>6. UpTo(g, n)
    <3>1. g = [i \in 1 .. n |-> g[i]]
      OBVIOUS
    <3> HIDE DEF g, Next1
    <3> QED  BY <2>5, <3>1
  <2> HIDE DEF g, UpTo
  <2> QED  BY <2>1, <2>6
<1>2. PICK g : UpTo(g, Len(path))
  <2> HIDE DEF UpTo
  <2> QED  BY <1>0, <1>1
<1> QED  BY <1>0, <1>2 DEF CostsAlong

LEMMA PathCostIs ==
    ASSUME NEW path \in Seq(Nodes)
    PROVE  \E g : CostsAlong(g, path) /\ PathCost(path) = g[Len(path)]
<1> DEFINE g == CHOOSE g : CostsAlong(g, path)
<1>1. CostsAlong(g, path)
  BY CostsAlongExist
<1>2. PathCost(path) = g[Len(path)]
  BY DEF PathCost, CostsAlong
<1> QED  BY <1>1, <1>2

\* Without parallel edges CostOfEdge is the cost of the edge.
LEMMA CostOfTheEdge ==
    ASSUME NoParallel, NEW e \in edges
    PROVE  CostOfEdge(e.source, e.target) = e.cost
<1> DEFINE d == CHOOSE d \in edges : d.source = e.source /\ d.target = e.target
<1>1. d \in edges /\ d.source = e.source /\ d.target = e.target
  OBVIOUS
<1> HIDE DEF d
<1>2. d = e
  BY <1>1 DEF NoParallel
<1> QED  BY <1>2 DEF CostOfEdge, d

\* A path, with the costs along it, is a walk.
LEMMA WalkOfPath ==
    ASSUME TypeOK, NoParallel, NEW path \in Paths(query[1], query[2])
    PROVE  \E w : Walk(w) /\ w[Len(w)] = <<PathCost(path), query[2]>>
<1>1. /\ path \in Seq(Nodes) /\ Len(path) \in Nat \ {0} /\ DOMAIN path = 1 .. Len(path)
      /\ \A i \in 1 .. Len(path) : path[i] \in Nodes
  <2>1. PICK k \in 1 .. Cardinality(Nodes) : path \in [1 .. k -> Nodes]
    BY DEF Paths, SimplePaths
  <2>2. k \in Nat \ {0}
    BY <2>1
  <2> QED  BY <2>1, <2>2
<1>2. /\ path[1] = query[1] /\ path[Len(path)] = query[2]
      /\ \A i \in 1 .. Len(path) - 1 :
            \E e \in edges : e.source = path[i] /\ e.target = path[i + 1]
  BY DEF Paths
<1>3. PICK g : CostsAlong(g, path) /\ PathCost(path) = g[Len(path)]
  BY <1>1, PathCostIs
<1>4. g[1] = 0
  <2>1. 1 \in DOMAIN path
    BY <1>1
  <2> QED  BY <1>3, <2>1 DEF CostsAlong
<1>5. ASSUME NEW i \in 1 .. Len(path) - 1
      PROVE  \E e \in edges : /\ e.source = path[i] /\ e.target = path[i + 1]
                              /\ e.cost \in Nat /\ g[i + 1] = g[i] + e.cost
  <2>1. i + 1 \in DOMAIN path /\ i + 1 # 1 /\ (i + 1) - 1 = i
    BY <1>1
  <2>2. PICK e \in edges : e.source = path[i] /\ e.target = path[i + 1]
    BY <1>2
  <2>3. g[i + 1] = g[i] + CostOfEdge(path[i], path[i + 1])
    BY <1>3, <2>1 DEF CostsAlong
  <2>4. e.cost \in Nat /\ CostOfEdge(path[i], path[i + 1]) = e.cost
    BY <2>2, CostOfTheEdge DEF TypeOK, Edge
  <2> QED  BY <2>2, <2>3, <2>4
<1>6. \A i \in 1 .. Len(path) : g[i] \in Nat
  <2> DEFINE bad == {i \in 1 .. Len(path) : g[i] \notin Nat}
  <2> SUFFICES ASSUME bad # {} PROVE FALSE
    OBVIOUS
  <2>1. PICK m \in bad : \A n \in bad : m <= n
    <3>1. bad \in SUBSET Nat
      BY <1>1
    <3> HIDE DEF bad
    <3> QED  BY <3>1, LeastNatural
  <2>2. m # 1 /\ m \in 1 .. Len(path)
    BY <1>4, <2>1
  <2>3. m - 1 \in 1 .. Len(path) - 1 /\ m - 1 \in 1 .. Len(path) /\ (m - 1) + 1 = m /\ ~ (m <= m - 1)
    BY <1>1, <2>2
  <2>4. g[m - 1] \in Nat
    BY <2>1, <2>3
  <2>5. PICK e \in edges : e.cost \in Nat /\ g[(m - 1) + 1] = g[m - 1] + e.cost
    BY <1>5, <2>3
  <2>6. g[m] = g[m - 1] + e.cost
    BY <2>3, <2>5
  <2>7. g[m] \in Nat
    BY <2>4, <2>5, <2>6
  <2> QED  BY <2>1, <2>7
<1> DEFINE w == [i \in 1 .. Len(path) |-> <<g[i], path[i]>>]
<1>7. w \in Seq(Nat \X Nodes) /\ Len(w) = Len(path)
  BY <1>1, <1>6
<1>8. \A i \in 1 .. Len(path) : w[i] = <<g[i], path[i]>> /\ w[i][1] = g[i] /\ w[i][2] = path[i]
  OBVIOUS
<1> HIDE DEF w
<1>9. 1 \in 1 .. Len(path) /\ Len(path) \in 1 .. Len(path) /\ w # <<>>
  BY <1>1, <1>7
<1>10. ASSUME NEW i \in 1 .. Len(w) - 1
       PROVE  \E e \in edges : /\ e.source = w[i][2] /\ e.target = w[i + 1][2]
                               /\ w[i + 1][1] = w[i][1] + e.cost
  <2>1. i \in 1 .. Len(path) - 1 /\ i \in 1 .. Len(path) /\ i + 1 \in 1 .. Len(path)
    BY <1>1, <1>7
  <2> QED  BY <1>5, <1>8, <2>1
<1>11. Walk(w)
  BY <1>2, <1>4, <1>7, <1>8, <1>9, <1>10 DEF Walk
<1>12. w[Len(w)] = <<PathCost(path), query[2]>>
  BY <1>2, <1>3, <1>7, <1>8, <1>9
<1> QED  BY <1>11, <1>12

\* The nodes of a simple walk are a path of the same cost.
LEMMA PathOfWalk ==
    ASSUME TypeOK, NoParallel, IsFiniteSet(Nodes),
           NEW w, Walk(w), Simple(w), NEW cost, w[Len(w)] = <<cost, query[2]>>
    PROVE  \E path \in Paths(query[1], query[2]) : PathCost(path) = cost
<1> DEFINE n == Len(w)
<1> DEFINE path == [i \in 1 .. n |-> w[i][2]]
<1>1. n \in Nat \ {0} /\ \A i \in 1 .. n : w[i][1] \in Nat /\ w[i][2] \in Nodes
  BY WalkTyped
<1>2. path \in [1 .. n -> Nodes] /\ path \in Seq(Nodes) /\ Len(path) = n
  BY <1>1
<1>3. \A i \in 1 .. n : path[i] = w[i][2]
  OBVIOUS
<1>4. \A i, j \in 1 .. n : path[i] = path[j] => i = j
  BY <1>3 DEF Simple
<1> HIDE DEF path
<1>5. n \in 1 .. Cardinality(Nodes)
  <2>1. path \in Injection(1 .. n, Nodes)
    BY <1>2, <1>4 DEF Injection, IsInjective
  <2>2. Cardinality(1 .. n) <= Cardinality(Nodes)
    BY <2>1, FS_Injection
  <2>3. Cardinality(1 .. n) = n
    BY <1>1, FS_Interval
  <2>4. Cardinality(Nodes) \in Nat
    BY FS_CardinalityType
  <2> QED  BY <1>1, <2>2, <2>3, <2>4
<1>6. path \in SimplePaths
  BY <1>2, <1>4, <1>5 DEF SimplePaths
<1>7. path[1] = query[1] /\ path[n] = query[2]
  <2>1. w[1] = <<0, query[1]>> /\ 1 \in 1 .. n /\ n \in 1 .. n
    BY <1>1 DEF Walk
  <2> QED  BY <1>3, <2>1
<1>8. ASSUME NEW i \in 1 .. n - 1
      PROVE  /\ i \in 1 .. n /\ i + 1 \in 1 .. n
             /\ \E e \in edges : /\ e.source = path[i] /\ e.target = path[i + 1]
                                 /\ w[i + 1][1] = w[i][1] + e.cost
  <2>1. i \in 1 .. n /\ i + 1 \in 1 .. n
    BY <1>1
  <2> QED  BY <1>3, <2>1 DEF Walk
<1>9. path \in Paths(query[1], query[2])
  BY <1>2, <1>6, <1>7, <1>8 DEF Paths
<1>10. PICK g : CostsAlong(g, path) /\ PathCost(path) = g[n]
  BY <1>2, PathCostIs
<1>11. DOMAIN path = 1 .. n
  BY <1>2
<1> DEFINE good == {i \in 1 .. n : g[i] = w[i][1]}
<1>12. 1 \in good
  <2>1. w[1] = <<0, query[1]>> /\ 1 \in 1 .. n
    BY <1>1 DEF Walk
  <2>2. g[1] = 0
    BY <1>10, <1>11, <2>1 DEF CostsAlong
  <2> QED  BY <2>1, <2>2
<1>13. ASSUME NEW i \in 1 .. n - 1, i \in good
       PROVE  i + 1 \in good
  <2>1. i + 1 \in 1 .. n /\ i + 1 # 1 /\ (i + 1) - 1 = i
    BY <1>1
  <2>2. PICK e \in edges : /\ e.source = path[i] /\ e.target = path[i + 1]
                           /\ w[i + 1][1] = w[i][1] + e.cost
    BY <1>8
  <2>3. g[i + 1] = g[i] + CostOfEdge(path[i], path[i + 1])
    BY <1>10, <1>11, <2>1 DEF CostsAlong
  <2>4. CostOfEdge(path[i], path[i + 1]) = e.cost
    BY <2>2, CostOfTheEdge
  <2> QED  BY <1>13, <2>1, <2>2, <2>3, <2>4
<1>14. n \in good
  <2> HIDE DEF good
  <2> QED  BY <1>12, <1>13, AlongWalk
<1>15. PathCost(path) = cost
  BY <1>10, <1>14
<1> QED  BY <1>9, <1>15

LEMMA SearchInvAnswers ==
    ASSUME IInv, SearchInv, IsFiniteSet(Nodes)
    PROVE  AnswerIsShortest
<1> DEFINE costs == {PathCost(path) : path \in Paths(query[1], query[2])}
<1> SUFFICES ASSUME NEW cost \in answer
             PROVE  IF cost = Infinity THEN costs = {}
                    ELSE cost \in costs /\ \A other \in costs : cost <= other
  BY DEF AnswerIsShortest
<1>1. TypeOK /\ NoParallel /\ HeapAbove
  BY DEF IInv
<1>2. ASSUME NEW other \in costs
      PROVE  \E w : Walk(w) /\ w[Len(w)][2] = query[2] /\ w[Len(w)][1] = other
  <2>1. PICK path \in Paths(query[1], query[2]) : other = PathCost(path)
    OBVIOUS
  <2>2. PICK w : Walk(w) /\ w[Len(w)] = <<PathCost(path), query[2]>>
    BY <1>1, WalkOfPath
  <2> QED  BY <2>1, <2>2
<1>3. CASE query[2] \notin visited
  <2>1. cost = Infinity /\ frontier = {}
    BY <1>3 DEF SearchInv, Answered
  <2>2. costs = {}
    <3> HIDE DEF costs
    <3> QED  BY <1>1, <1>2, <1>3, <2>1, NoWalk
  <2> QED  BY <2>1, <2>2
<1>4. CASE query[2] \in visited
  <2>1. query[2] \in DOMAIN distances /\ cost = distances[query[2]] /\ cost \in Nat
    BY <1>1, <1>4 DEF SearchInv, Answered, TypeOK
  <2>2. cost # Infinity
    BY <2>1 DEF Infinity
  <2>3. PICK w : Walk(w) /\ Simple(w) /\ w[Len(w)] = <<cost, query[2]>>
    BY <2>1 DEF SearchInv, Realised
  <2>4. cost \in costs
    <3>1. \E path \in Paths(query[1], query[2]) : PathCost(path) = cost
      BY <1>1, <2>3, PathOfWalk
    <3> QED  BY <3>1
  <2>5. \A other \in costs : cost <= other
    <3> HIDE DEF costs
    <3> QED  BY <1>1, <1>2, <1>4, <2>1, NoCheaperWalk
  <2> QED  BY <2>2, <2>4, <2>5
<1> QED  BY <1>3, <1>4

-----------------------------------------------------------------------------
(* route_cost with the probe of a cluster. *)

\* The search of ProbedSpec is the search of Spec: reading a table and
\* route_cost leave it alone.
LEMMA ProbedSearches == ProbedSpec => Safety
<1>1. ProbedInit => Init
  BY DEF ProbedInit
<1>2. [ProbedNext]_<<vars, probeVars>> => [Next]_vars
  BY DEF ProbedNext
<1> QED
  BY <1>1, <1>2, PTL DEF ProbedSpec, Safety

\* The graph has one edge into the node of a pool, from the gateway of its
\* cluster.
OneWayIn ==
    \A p \in Pools :
        /\ \E e \in edges : e.source = Gateway(ClusterOf[p]) /\ e.target = PoolNode(p)
        /\ \A e \in edges : e.target = PoolNode(p) => e.source = Gateway(ClusterOf[p])

LEMMA BuiltOneWayIn ==
    ASSUME Init
    PROVE  OneWayIn
<1>1. PICK internal \in Internals, net \in Networks :
        edges = PoolEdges(internal) \cup GatewayEdges(net)
  BY DEF Init
<1>2. \A c, p : Gateway(c) # PoolNode(p)
  BY DEF Gateway, PoolNode
<1>3. \A p, q : PoolNode(p) = PoolNode(q) => p = q
  BY DEF PoolNode
<1> SUFFICES ASSUME NEW p \in Pools
             PROVE  /\ \E e \in edges : e.source = Gateway(ClusterOf[p]) /\ e.target = PoolNode(p)
                    /\ \A e \in edges : e.target = PoolNode(p) => e.source = Gateway(ClusterOf[p])
  BY DEF OneWayIn
<1>4. \E e \in edges : e.source = Gateway(ClusterOf[p]) /\ e.target = PoolNode(p)
  <2> DEFINE f == [source |-> Gateway(ClusterOf[p]), target |-> PoolNode(p), cost |-> internal[p]]
  <2>1. f \in edges
    BY <1>1 DEF PoolEdges
  <2>2. f.source = Gateway(ClusterOf[p]) /\ f.target = PoolNode(p)
    OBVIOUS
  <2> QED  BY <2>1, <2>2
<1>5. ASSUME NEW e \in edges, e.target = PoolNode(p)
      PROVE  e.source = Gateway(ClusterOf[p])
  <2>1. CASE e \in PoolEdges(internal)
    BY <1>2, <1>3, <1>5, <2>1 DEF PoolEdges
  <2>2. CASE e \in GatewayEdges(net)
    BY <1>2, <1>5, <2>2 DEF GatewayEdges
  <2> QED  BY <1>1, <2>1, <2>2
<1> QED  BY <1>4, <1>5

\* The edge the query of route_cost names.
Direct == CHOOSE e \in edges : <<e.source, e.target>> = query

\* A finite answer to the query of route_cost is the cost of the pool's edge.
LEMMA RouteIsDirect ==
    ASSUME IInv, SearchInv, OneWayIn, NEW p \in Pools, IsRoute(p),
           NEW cost \in answer, cost # Infinity
    PROVE  cost = Direct.cost
<1> DEFINE g == Gateway(ClusterOf[p])
<1> DEFINE t == PoolNode(p)
<1>1. query[1] = g /\ query[2] = t /\ query = <<g, t>> /\ g # t
  BY DEF IsRoute, Gateway, PoolNode
<1>2. PICK e \in edges : e.source = g /\ e.target = t
  BY DEF OneWayIn
<1>3. ASSUME NEW f \in edges, f.target = t PROVE f = e
  BY <1>2, <1>3 DEF OneWayIn, IInv, NoParallel
<1>4. Direct = e
  <2>1. Direct \in edges /\ <<Direct.source, Direct.target>> = query
    BY <1>1, <1>2 DEF Direct
  <2> QED  BY <1>1, <1>3, <2>1
<1>5. e.cost \in Nat /\ g \in Nodes /\ t \in Nodes
  BY <1>2 DEF IInv, TypeOK, Edge
<1>6. /\ \E w : Walk(w) /\ w[Len(w)] = <<cost, t>>
      /\ \A w : Walk(w) /\ w[Len(w)][2] = t => cost <= w[Len(w)][1]
  BY <1>1, SearchInvSuffices DEF IInv, ShortestWalk
<1>7. cost <= e.cost
  <2> DEFINE u == <<<<0, g>>>>
  <2>1. u \in Seq(Nat \X Nodes) /\ u # <<>> /\ Len(u) = 1 /\ u[1] = <<0, g>>
    BY <1>5
  <2> HIDE DEF u, g, t
  <2>2. Walk(u)
    BY <1>1, <2>1 DEF Walk
  <2> DEFINE Ends(v) == v[Len(v)] = <<0 + e.cost, e.target>>
  <2>5. e \in edges /\ u[Len(u)] = <<0, e.source>> /\ 0 \in Nat
    BY <1>2, <2>1 DEF g
  <2>6. \E v : /\ Walk(v) /\ Ends(v)
               /\ Len(v) = Len(u) + 1 /\ \A i \in 1 .. Len(u) : v[i] = u[i]
    BY <2>2, <2>5, WalkExtends DEF IInv
  <2> HIDE DEF Ends
  <2>7. PICK v : Walk(v) /\ Ends(v)
    BY <2>6
  <2>3. Walk(v) /\ v[Len(v)] = <<0 + e.cost, e.target>>
    BY <2>7 DEF Ends
  <2>4. v[Len(v)][2] = t /\ v[Len(v)][1] = e.cost
    BY <1>2, <1>5, <2>3
  <2> QED  BY <1>6, <2>3, <2>4
<1>8. e.cost <= cost /\ cost \in Nat
  <2>1. PICK w : Walk(w) /\ w[Len(w)] = <<cost, t>>
    BY <1>6
  <2>2. Len(w) \in Nat \ {0} /\ \A i \in 1 .. Len(w) : w[i][1] \in Nat
    BY <2>1, WalkTyped
  <2>3. Len(w) # 1
    BY <1>1, <2>1 DEF Walk
  <2>4. Len(w) - 1 \in 1 .. Len(w) - 1 /\ Len(w) - 1 \in 1 .. Len(w) /\ Len(w) \in 1 .. Len(w)
        /\ (Len(w) - 1) + 1 = Len(w)
    <3>1. \A n \in Nat \ {0} : n # 1 =>
            n - 1 \in 1 .. n - 1 /\ n - 1 \in 1 .. n /\ n \in 1 .. n /\ (n - 1) + 1 = n
      OBVIOUS
    <3> QED  BY <2>2, <2>3, <3>1
  <2>5. PICK f \in edges : /\ f.target = w[(Len(w) - 1) + 1][2]
                           /\ w[(Len(w) - 1) + 1][1] = w[Len(w) - 1][1] + f.cost
    BY <2>1, <2>4 DEF Walk
  <2>6. f.target = t /\ cost = w[Len(w) - 1][1] + f.cost
    BY <2>1, <2>4, <2>5
  <2>7. f = e
    BY <1>3, <2>6
  <2>8. w[Len(w) - 1][1] \in Nat
    BY <2>2, <2>4
  <2> QED  BY <1>5, <2>6, <2>7, <2>8
<1> QED  BY <1>4, <1>5, <1>7, <1>8

\* min() of two numbers is one of them and bounded by both.
LEMMA MinOfTwo ==
    ASSUME NEW a \in Int, NEW b \in Int
    PROVE  Min({a, b}) \in {a, b} /\ Min({a, b}) <= a /\ Min({a, b}) <= b
<1>1. \E x \in {a, b} : \A y \in {a, b} : x <= y
  <2>1. CASE a <= b  BY <2>1
  <2>2. CASE b <= a  BY <2>2
  <2> QED  BY <2>1, <2>2
<1>2. Min({a, b}) \in {a, b} /\ \A y \in {a, b} : Min({a, b}) <= y
  BY <1>1 DEF Min
<1> QED  BY <1>2

\* A link costs nothing exactly if it is printed X.
LEMMA OnlySelfIsFree ==
    ASSUME NEW relation
    PROVE  LinkCost(relation) > 0 <=> relation # "X"
<1> DEFINE known == relation \in DOMAIN Bandwidth
<1> DEFINE raw == 120 - (IF known THEN Bandwidth[relation] ELSE 10)
                      + (IF known THEN Latency[relation] ELSE 120)
<1>1. CASE relation = "X"
  BY <1>1 DEF LinkCost
<1>2. CASE relation # "X"
  <2>1. raw \in Int
    BY ProbeAssumption
  <2>2. LinkCost(relation) = Max({1, raw})
    BY <1>2 DEF LinkCost
  <2> HIDE DEF raw
  <2>3. \E x \in {1, raw} : \A y \in {1, raw} : x >= y
    <3>1. CASE raw >= 1  BY <2>1, <3>1
    <3>2. CASE 1 >= raw  BY <2>1, <3>2
    <3> QED  BY <2>1, <3>1, <3>2
  <2>4. Max({1, raw}) \in {1, raw} /\ Max({1, raw}) >= 1
    BY <2>3 DEF Max
  <2>5. Max({1, raw}) > 0
    BY <2>1, <2>4
  <2> QED  BY <1>2, <2>2, <2>5
<1> QED  BY <1>1, <1>2

\* The columns of a row are those of the devices above them.
LEMMA ColumnsOf ==
    ASSUME text \in Texts, NEW k \in DOMAIN text.rows, NEW b \in DOMAIN ZipColumns(text.rows[k].edges)
    PROVE  LET place == CHOOSE i \in DOMAIN text.header : text.header[i] = b
           IN  /\ ZipColumns(text.rows[k].edges)[b] = text.rows[k].edges[place]
               /\ text.rows[k].edges[place] = "X" <=> b = text.rows[k].source
<1> DEFINE names == text.rows[k].edges
<1> DEFINE n == Min({Len(text.header), Len(names)})
<1> DEFINE place == CHOOSE i \in DOMAIN text.header : text.header[i] = b
<1>1. WellPrinted(text) /\ text.rows[k] \in Range(text.rows)
  BY ProbeAssumption DEF Range
<1>2. /\ text.header \in Seq(Range(text.header)) /\ names \in Seq(Range(names))
      /\ \A i, j \in DOMAIN text.header : text.header[i] = text.header[j] => i = j
      /\ \A i \in DOMAIN text.header \cap DOMAIN names :
           names[i] = "X" <=> text.header[i] = text.rows[k].source
  BY <1>1 DEF WellPrinted
<1>3. /\ Len(text.header) \in Nat /\ DOMAIN text.header = 1 .. Len(text.header)
      /\ Len(names) \in Nat /\ DOMAIN names = 1 .. Len(names)
  BY <1>2
<1>4. n \in Nat /\ n <= Len(text.header) /\ n <= Len(names)
  <2>1. \A x, y \in Nat : Min({x, y}) \in Nat /\ Min({x, y}) <= x /\ Min({x, y}) <= y
    BY MinOfTwo
  <2> QED  BY <1>3, <2>1
<1> HIDE DEF n
<1>5. ZipColumns(names) = [d \in {text.header[i] : i \in 1 .. n} |->
                             names[CHOOSE i \in 1 .. n : text.header[i] = d]]
  BY DEF ZipColumns, n
<1> HIDE DEF names
<1>6. PICK j \in 1 .. n : text.header[j] = b
  BY <1>5 DEF names
<1>7. j \in DOMAIN text.header /\ j \in DOMAIN names
  BY <1>3, <1>4
<1>8. place = j
  BY <1>2, <1>6, <1>7
<1>9. (CHOOSE i \in 1 .. n : text.header[i] = b) = j
  BY <1>2, <1>3, <1>4, <1>6, <1>7
<1>10. ZipColumns(names)[b] = names[j]
  <2> DEFINE at(d) == names[CHOOSE i \in 1 .. n : text.header[i] = d]
  <2> DEFINE above == {text.header[i] : i \in 1 .. n}
  <2>1. ZipColumns(names) = [d \in above |-> at(d)] /\ b \in above
    BY <1>5, <1>6
  <2>2. at(b) = names[j]
    BY <1>9
  <2> HIDE DEF at, above
  <2>3. ZipColumns(names)[b] = at(b)
    BY <2>1
  <2> QED  BY <2>2, <2>3
<1>11. names[j] = "X" <=> b = text.rows[k].source
  BY <1>2, <1>6, <1>7
<1> QED  BY <1>8, <1>10, <1>11 DEF names

\* Row k is the last of GPU a among the first n.
LastRow(a, k, n) ==
    /\ k \in 1 .. n /\ text.rows[k].source = a
    /\ \A j \in k + 1 .. n : text.rows[j].source # a

\* The parser: relations has, of every GPU, the last row read; once the table
\* is parsed all rows were read and no GPU is missing.
Reading ==
    /\ text \in Texts
    /\ next \in Nat /\ next <= Len(text.rows)
    /\ DOMAIN relations \subseteq Gpus
    /\ \A a \in DOMAIN relations :
         \E k \in 1 .. next : LastRow(a, k, next) /\ relations[a] = ZipColumns(text.rows[k].edges)
    /\ probe = "parsed" => next = Len(text.rows) /\ Complete

\* The cost returned by route_cost is that of an answer and of the factor.
Routed ==
    \A cost \in route :
        /\ probe = "parsed"
        /\ \E p \in Pools, c \in answer \ {Infinity} :
             /\ IsRoute(p)
             /\ cost = <<c * CostFactor(ClusterOf[p])[1], CostFactor(ClusterOf[p])[2]>>

\* What is kept for two GPUs is what is printed for them.
LEMMA KeptIsPrinted ==
    ASSUME Reading, probe = "parsed", NEW a \in GpuDevices, NEW b \in GpuDevices
    PROVE  relations[a][b] = Printed(a, b) /\ (Printed(a, b) = "X" <=> a = b)
<1>1. a \in DOMAIN relations /\ b \in DOMAIN relations[a] /\ next = Len(text.rows)
  BY DEF Reading, Complete
<1>2. PICK k \in 1 .. next : LastRow(a, k, next) /\ relations[a] = ZipColumns(text.rows[k].edges)
  BY <1>1 DEF Reading
<1> DEFINE mine == {i \in DOMAIN text.rows : text.rows[i].source = a}
<1>3. Len(text.rows) \in Nat /\ DOMAIN text.rows = 1 .. Len(text.rows)
  BY ProbeAssumption DEF Reading, WellPrinted
<1>4. k \in mine /\ \A i \in mine : i \in Nat /\ k >= i
  BY <1>1, <1>2, <1>3 DEF LastRow
<1>5. Max(mine) = k
  <2> HIDE DEF mine
  <2>1. \A x \in mine : (\A y \in mine : x >= y) => x = k
    BY <1>4
  <2>2. Max(mine) \in mine /\ \A y \in mine : Max(mine) >= y
    BY <1>4 DEF Max
  <2> QED  BY <2>1, <2>2
<1>6. k \in DOMAIN text.rows /\ text \in Texts
  BY <1>1, <1>2, <1>3 DEF Reading
<1> DEFINE place == CHOOSE i \in DOMAIN text.header : text.header[i] = b
<1>7. /\ ZipColumns(text.rows[k].edges)[b] = text.rows[k].edges[place]
      /\ text.rows[k].edges[place] = "X" <=> b = text.rows[k].source
  BY <1>1, <1>2, <1>6, ColumnsOf
<1>8. Printed(a, b) = text.rows[k].edges[place]
  BY <1>5 DEF Printed
<1>9. text.rows[k].source = a
  BY <1>2 DEF LastRow
<1> QED  BY <1>2, <1>7, <1>8, <1>9

\* average_cost is taken of the links between two different GPUs, as printed.
LEMMA AverageIsPrinted ==
    ASSUME Reading, probe = "parsed"
    PROVE  LET pairs == {pair \in GpuDevices \X GpuDevices : pair[1] # pair[2]}
               costs == [pair \in pairs |-> LinkCost(Printed(pair[1], pair[2]))]
           IN  AverageCost = IF pairs = {} THEN <<100, 1>>
                             ELSE <<SumFunction(costs), Cardinality(pairs)>>
<1> DEFINE pairs == {pair \in GpuDevices \X GpuDevices : pair[1] # pair[2]}
<1> DEFINE printed(pair) == LinkCost(Printed(pair[1], pair[2]))
<1> DEFINE kept(pair) == LinkCost(relations[pair[1]][pair[2]])
<1> DEFINE positive == {pair \in GpuDevices \X GpuDevices : kept(pair) > 0}
<1>1. \A pair \in GpuDevices \X GpuDevices :
        kept(pair) = printed(pair) /\ (kept(pair) > 0 <=> pair[1] # pair[2])
  <2> SUFFICES ASSUME NEW pair \in GpuDevices \X GpuDevices
               PROVE  kept(pair) = printed(pair) /\ (kept(pair) > 0 <=> pair[1] # pair[2])
    OBVIOUS
  <2>1. pair[1] \in GpuDevices /\ pair[2] \in GpuDevices
    OBVIOUS
  <2>2. /\ relations[pair[1]][pair[2]] = Printed(pair[1], pair[2])
        /\ Printed(pair[1], pair[2]) = "X" <=> pair[1] = pair[2]
    BY <2>1, KeptIsPrinted
  <2> QED  BY <2>2, OnlySelfIsFree
<1> HIDE DEF printed, kept
<1>2. positive = pairs
  BY <1>1
<1>3. [pair \in positive |-> kept(pair)] = [pair \in pairs |-> printed(pair)]
  BY <1>1, <1>2
<1>4. AverageCost = IF positive = {} THEN <<100, 1>>
                    ELSE <<SumFunction([pair \in positive |-> kept(pair)]), Cardinality(positive)>>
  BY DEF AverageCost, kept
<1> HIDE DEF positive, pairs
<1>5. AverageCost = IF pairs = {} THEN <<100, 1>>
                    ELSE <<SumFunction([pair \in pairs |-> printed(pair)]), Cardinality(pairs)>>
  BY <1>2, <1>3, <1>4
<1> QED  BY <1>5 DEF pairs, printed

\* A row is added after the ones read before.
LEMMA ReadRowKeeps ==
    ASSUME Reading, ReadRow
    PROVE  Reading'
<1> DEFINE row == text.rows[next + 1]
<1>0. Len(text.rows) \in Nat /\ DOMAIN text.rows = 1 .. Len(text.rows)
  BY ProbeAssumption DEF Reading, WellPrinted
<1>1. /\ probe = "reading" /\ next < Len(text.rows) /\ next' = next + 1
      /\ text' = text /\ probe' = probe
      /\ row.source \notin Gpus => relations' = relations
      /\ row.source \in Gpus =>
           relations' = [d \in DOMAIN relations \cup {row.source} |->
                           IF d = row.source THEN ZipColumns(row.edges) ELSE relations[d]]
  BY DEF ReadRow
<1>2. next \in Nat /\ next' \in Nat /\ next' <= Len(text.rows)
  BY <1>0, <1>1 DEF Reading
<1>3. /\ DOMAIN relations' \subseteq Gpus
      /\ \A a \in DOMAIN relations' :
           \/ a = row.source /\ relations'[a] = ZipColumns(row.edges)
           \/ a # row.source /\ a \in DOMAIN relations /\ relations'[a] = relations[a]
  <2>1. CASE row.source \notin Gpus
    BY <1>1, <2>1 DEF Reading
  <2>2. CASE row.source \in Gpus
    BY <1>1, <2>2 DEF Reading
  <2> QED  BY <2>1, <2>2
<1>4. \A names : ZipColumns(names)' = ZipColumns(names)
  BY <1>1 DEF ZipColumns
<1>5. ASSUME NEW a \in DOMAIN relations'
      PROVE  \E k \in 1 .. next' : /\ LastRow(a, k, next + 1)
                                   /\ relations'[a] = ZipColumns(text.rows[k].edges)
  <2>1. CASE a = row.source /\ relations'[a] = ZipColumns(row.edges)
    <3>1. next + 1 \in 1 .. next' /\ \A j \in (next + 1) + 1 .. next + 1 : FALSE
      BY <1>1, <1>2
    <3>2. LastRow(a, next + 1, next + 1)
      BY <1>1, <2>1, <3>1 DEF LastRow
    <3> QED  BY <2>1, <3>1, <3>2
  <2>2. CASE a # row.source /\ a \in DOMAIN relations /\ relations'[a] = relations[a]
    <3>1. PICK k \in 1 .. next : LastRow(a, k, next) /\ relations[a] = ZipColumns(text.rows[k].edges)
      BY <2>2 DEF Reading
    <3>2. \A j \in k + 1 .. next + 1 : text.rows[j].source # a
      <4>1. \A j \in k + 1 .. next + 1 : j \in k + 1 .. next \/ j = next + 1
        BY <1>2, <3>1
      <4> QED  BY <2>2, <3>1, <4>1 DEF LastRow
    <3>3. k \in 1 .. next'
      BY <1>1, <1>2, <3>1
    <3> QED  BY <1>1, <2>2, <3>1, <3>2, <3>3 DEF LastRow
  <2> QED  BY <1>3, <1>5, <2>1, <2>2
<1>6. ASSUME NEW a \in DOMAIN relations'
      PROVE  \E k \in 1 .. next' : /\ LastRow(a, k, next)'
                                   /\ relations'[a] = ZipColumns(text.rows[k].edges)'
  <2>1. PICK k \in 1 .. next' : LastRow(a, k, next + 1) /\ relations'[a] = ZipColumns(text.rows[k].edges)
    BY <1>5
  <2>2. LastRow(a, k, next)'
    BY <1>1, <2>1 DEF LastRow
  <2>3. ZipColumns(text.rows[k].edges)' = ZipColumns(text.rows[k].edges)
    BY <1>1 DEF ZipColumns
  <2> QED  BY <2>1, <2>2, <2>3
<1> QED  BY <1>1, <1>2, <1>3, <1>6 DEF Reading

LEMMA ReadingKept ==
    ASSUME Reading, [ProbedNext]_<<vars, probeVars>>
    PROVE  Reading' /\ (probe = "parsed" => UNCHANGED <<text, relations, probe>>)
<1>0. ASSUME UNCHANGED <<text, next, relations>>,
             probe' = "parsed" => next = Len(text.rows) /\ Complete
      PROVE  Reading'
  <2>1. text' = text /\ next' = next /\ relations' = relations
    BY <1>0
  <2>2. \A a, k : LastRow(a, k, next)' <=> LastRow(a, k, next)
    BY <2>1 DEF LastRow
  <2>3. \A k : ZipColumns(text.rows[k].edges)' = ZipColumns(text.rows[k].edges)
    BY <2>1 DEF ZipColumns
  <2>4. Complete' <=> Complete
    BY <2>1 DEF Complete, GpuDevices
  <2>5. \A a \in DOMAIN relations : \E k \in 1 .. next :
          LastRow(a, k, next)' /\ relations[a] = ZipColumns(text.rows[k].edges)'
    BY <2>2, <2>3 DEF Reading
  <2> QED  BY <1>0, <2>1, <2>4, <2>5 DEF Reading
<1>1. CASE ReadRow
  BY <1>1, ReadRowKeeps DEF ReadRow
<1>2. CASE EndRows
  <2>1. /\ probe = "reading" /\ next = Len(text.rows)
        /\ text' = text /\ next' = next /\ relations' = relations
        /\ probe' = "parsed" => Complete
    BY <1>2 DEF EndRows
  <2> QED  BY <1>0, <2>1
<1>3. CASE UNCHANGED <<text, next, relations, probe>>
  BY <1>0, <1>3 DEF Reading
<1> QED
  BY <1>1, <1>2, <1>3 DEF ProbedNext, RouteCost, probeVars

\* route_cost keeps its answer: the search and the parser have ended.
LEMMA RoutedKept ==
    ASSUME Reading, Routed, [ProbedNext]_<<vars, probeVars>>
    PROVE  Routed'
<1>0. probe = "parsed" => UNCHANGED <<text, relations, probe>>
  BY ReadingKept
<1> DEFINE Factor(p) == CostFactor(ClusterOf[p])
<1>1. ASSUME UNCHANGED <<text, relations>>
      PROVE  \A p \in Pools : Factor(p)' = Factor(p)
  BY <1>1 DEF CostFactor, AverageCost, GpuDevices
<1> HIDE DEF Factor
<1>2. CASE RouteCost /\ UNCHANGED vars
  <2>1. probe = "parsed" /\ probe' = "parsed" /\ UNCHANGED <<text, relations, query, answer>>
    BY <1>2 DEF RouteCost, vars
  <2>2. PICK p \in Pools, c \in answer \ {Infinity} :
          IsRoute(p) /\ route' = {<<c * Factor(p)[1], Factor(p)[2]>>}
    BY <1>2 DEF RouteCost, Factor
  <2>3. IsRoute(p)' /\ Factor(p)' = Factor(p) /\ c \in answer' \ {Infinity}
    BY <1>1, <2>1, <2>2 DEF IsRoute, Infinity
  <2> QED  BY <2>1, <2>2, <2>3 DEF Routed, Factor
<1>3. CASE route' = route /\ (answer # {} => UNCHANGED <<query, answer>>)
  <2> SUFFICES ASSUME NEW cost \in route'
               PROVE  /\ probe' = "parsed"
                      /\ \E p \in Pools, c \in answer' \ {Infinity} :
                           IsRoute(p)' /\ cost = <<c * Factor(p)'[1], Factor(p)'[2]>>
    BY DEF Routed, Factor
  <2>1. probe = "parsed"
    BY <1>3 DEF Routed
  <2>2. PICK p \in Pools, c \in answer \ {Infinity} :
          IsRoute(p) /\ cost = <<c * Factor(p)[1], Factor(p)[2]>>
    BY <1>3 DEF Routed, Factor
  <2>3. UNCHANGED <<text, relations, probe, query, answer>>
    BY <1>0, <1>3, <2>1, <2>2
  <2>4. IsRoute(p)' /\ Factor(p)' = Factor(p) /\ c \in answer' \ {Infinity}
    BY <1>1, <2>2, <2>3 DEF IsRoute
  <2> QED  BY <2>1, <2>2, <2>3, <2>4
<1>4. Next => answer = {}
  BY DEF Next, Skip, Expand, Found, Exhausted
<1> QED
  BY <1>2, <1>3, <1>4 DEF ProbedNext, ReadRow, EndRows, probeVars, vars

LEMMA RoutedSuffices ==
    ASSUME IInv, SearchInv, OneWayIn, Reading, Routed
    PROVE  RouteCostOfProbe
<1> DEFINE pairs == {pair \in GpuDevices \X GpuDevices : pair[1] # pair[2]}
<1> DEFINE costs == [pair \in pairs |-> LinkCost(Printed(pair[1], pair[2]))]
<1> SUFFICES ASSUME NEW cost \in route, NEW p \in Pools, IsRoute(p)
             PROVE  cost = IF ClusterOf[p] # text.cluster \/ pairs = {}
                           THEN <<Direct.cost * 100, 1>>
                           ELSE <<Direct.cost * SumFunction(costs), Cardinality(pairs)>>
  BY DEF RouteCostOfProbe, Direct
<1>1. PICK q \in Pools, c \in answer \ {Infinity} :
        IsRoute(q) /\ cost = <<c * CostFactor(ClusterOf[q])[1], CostFactor(ClusterOf[q])[2]>>
  BY DEF Routed
<1>2. probe = "parsed"
  BY DEF Routed
<1>3. q = p
  BY <1>1 DEF IsRoute, PoolNode
<1>4. c = Direct.cost
  BY <1>1, RouteIsDirect
<1>5. AverageCost = IF pairs = {} THEN <<100, 1>> ELSE <<SumFunction(costs), Cardinality(pairs)>>
  BY <1>2, AverageIsPrinted
<1> HIDE DEF pairs, costs
<1>6. CASE ClusterOf[p] # text.cluster \/ pairs = {}
  <2>1. CostFactor(ClusterOf[p]) = <<100, 1>>
    BY <1>5, <1>6 DEF CostFactor
  <2> QED  BY <1>1, <1>3, <1>4, <1>6, <2>1
<1>7. CASE ~ (ClusterOf[p] # text.cluster \/ pairs = {})
  <2>1. CostFactor(ClusterOf[p]) = <<SumFunction(costs), Cardinality(pairs)>>
    BY <1>5, <1>7 DEF CostFactor
  <2> QED  BY <1>1, <1>3, <1>4, <1>7, <2>1
<1> QED  BY <1>6, <1>7

\* route_cost is the internal cost of the pool times the mean cost of the links
\* nvidia-smi prints between two different GPUs of its cluster, for every
\* network, every table and every order of GPUs and network cards in it.
THEOREM RouteCostsAreOfProbe == ProbedSpec => []RouteCostOfProbe
<1>1. ProbedInit => OneWayIn /\ Reading /\ Routed
  <2> SUFFICES ASSUME ProbedInit PROVE OneWayIn /\ Reading /\ Routed
    OBVIOUS
  <2>1. OneWayIn
    BY BuiltOneWayIn DEF ProbedInit
  <2>2. text \in Texts /\ next = 0 /\ relations = <<>> /\ probe = "reading" /\ route = {}
    BY DEF ProbedInit
  <2>3. Len(text.rows) \in Nat /\ DOMAIN relations = {}
    BY <2>2, ProbeAssumption DEF WellPrinted
  <2> QED  BY <2>1, <2>2, <2>3 DEF Reading, Routed
<1>2. OneWayIn /\ [Next]_vars => OneWayIn'
  BY DEF OneWayIn, Next, Skip, Expand, Found, Exhausted, vars
<1>3. [ProbedNext]_<<vars, probeVars>> => [Next]_vars
  BY DEF ProbedNext
<1>4. Reading /\ Routed /\ [ProbedNext]_<<vars, probeVars>> => Reading' /\ Routed'
  BY ReadingKept, RoutedKept
<1>5. IInv /\ SearchInv /\ OneWayIn /\ Reading /\ Routed => RouteCostOfProbe
  BY RoutedSuffices
<1> QED
  BY <1>1, <1>2, <1>3, <1>4, <1>5, ProbedSearches, SafelySearched, PTL DEF ProbedSpec

\* The service of ProbedSpec, whose search waits for its table, answers every
\* search with a cheapest walk and never improves a settled node.
THEOREM ProbedSearchIsShortest == ProbedSpec => []TypeOK /\ []ShortestWalk /\ SettledFinal
<1>1. IInv /\ SearchInv => ShortestWalk
  BY SearchInvSuffices DEF IInv
<1> QED
  BY <1>1, SafelyTyped, SafelySearched, ProbedSearches, SafelySettled, PTL

\* The answer is the cost of a cheapest path without repetitions, and infinity
\* only if there is no path, in every finite graph, with and without a probe:
\* the heap with superseded entries, the early stop at the target and the
\* skipping of settled nodes lose no path.
THEOREM AnswersAreShortestPaths ==
    ASSUME IsFiniteSet(Nodes)
    PROVE  (Spec => []AnswerIsShortest) /\ (ProbedSpec => []AnswerIsShortest)
<1>1. IInv /\ SearchInv => AnswerIsShortest
  BY SearchInvAnswers
<1>2. Spec => []AnswerIsShortest
  BY <1>1, SafelySearched, PTL DEF Spec, Safety
<1>3. ProbedSpec => []AnswerIsShortest
  BY <1>1, SafelySearched, ProbedSearches, PTL
<1> QED  BY <1>2, <1>3
=============================================================================
