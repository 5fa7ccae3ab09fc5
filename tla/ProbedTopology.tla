--------------------------- MODULE ProbedTopology ---------------------------
(***************************************************************************)
(* TopologyService with the probe of a cluster's GPU links: when it is     *)
(* built, GpuTopologySnapshot.from_text parses the output of nvidia-smi    *)
(* topo -m line by line; afterwards route_cost multiplies the shortest     *)
(* path to a pool with the average link cost of the probed cluster.        *)
(*                                                                         *)
(* Abstractions.  Costs of links are in hundredths, averages are pairs of  *)
(* a sum and a count; rounding to four decimals is left out, as are the    *)
(* affinities, which are averages of the same kind.  Lines that start with *)
(* no device change nothing and are left out; so is all after the legend.  *)
(***************************************************************************)
EXTENDS TopologyService, Sequences, Functions, FiniteSetsExt

CONSTANTS
    Gpus,        \* devices that are GPUs; the others are network cards
    Bandwidth,   \* BANDWIDTH_TIERS, in hundredths
    Latency,     \* LATENCY_WEIGHTS, in hundredths
    Texts        \* outputs of nvidia-smi: the cluster they are of, the devices
                 \* of the header, and the rows

\* nvidia-smi names a device once in the header, and prints X (self) where the
\* row and the column of a device meet and nowhere else.
WellPrinted(t) ==
    /\ t.header \in Seq(Range(t.header)) /\ t.rows \in Seq(Range(t.rows))
    /\ \A i, j \in DOMAIN t.header : t.header[i] = t.header[j] => i = j
    /\ \A row \in Range(t.rows) :
         /\ row.edges \in Seq(Range(row.edges))
         /\ \A i \in DOMAIN t.header \cap DOMAIN row.edges :
              row.edges[i] = "X" <=> t.header[i] = row.source

ASSUME ProbeAssumption ==
    /\ Latency \in [DOMAIN Latency -> Nat]
    /\ Bandwidth \in [DOMAIN Latency -> Nat]
    /\ \A t \in Texts : t.cluster \in Clusters /\ WellPrinted(t)

VARIABLES
    text,       \* the output parsed, which never changes
    next,       \* the number of its rows read
    relations,  \* relations, of the GPUs whose rows were read
    probe,      \* "reading", "parsed" or "raised"
    route       \* {} or the set of the cost returned by route_cost

probeVars == <<text, next, relations, probe, route>>

ProbedInit ==
    /\ Init
    /\ text \in Texts
    /\ next = 0
    /\ relations = <<>>
    /\ probe = "reading"
    /\ route = {}

-----------------------------------------------------------------------------
(* GpuTopologySnapshot.from_text *)

GpuDevices == {text.header[i] : i \in DOMAIN text.header} \cap Gpus

\* Mutant: the columns are matched with the GPUs only.
ZipGpus(edgeNames) ==
    LET gpus == SelectSeq(text.header, LAMBDA d : d \in Gpus)
        n == Min({Len(gpus), Len(edgeNames)})
    IN  [d \in {gpus[i] : i \in 1 .. n} |->
            edgeNames[CHOOSE i \in 1 .. n : gpus[i] = d]]

\* dict(zip(devices, edges)): what is in the columns of the devices, as far as
\* the row goes.
ZipColumns(edgeNames) ==
    LET n == Min({Len(text.header), Len(edgeNames)})
    IN  [d \in {text.header[i] : i \in 1 .. n} |->
            edgeNames[CHOOSE i \in 1 .. n : text.header[i] = d]]

\* A row; those of network cards are not kept.
ReadRow ==
    /\ probe = "reading" /\ next < Len(text.rows)
    /\ next' = next + 1
    /\ LET row == text.rows[next + 1]
       IN  relations' = IF row.source \notin Gpus THEN relations
                        ELSE [d \in DOMAIN relations \cup {row.source} |->
                                IF d = row.source THEN ZipColumns(row.edges) ELSE relations[d]]
    /\ UNCHANGED <<text, probe, route>>

\* Every GPU of the header has a row that reaches the column of every other.
Complete ==
    \A a, b \in GpuDevices : a \in DOMAIN relations /\ b \in DOMAIN relations[a]

\* The matrices are built; a GPU without a row or a column is a KeyError, a
\* text without a header a StopIteration, and the service is not built.
EndRows ==
    /\ probe = "reading" /\ next = Len(text.rows)
    /\ probe' = IF Complete /\ text.header # <<>> THEN "parsed" ELSE "raised"
    /\ UNCHANGED <<text, next, relations, route>>

-----------------------------------------------------------------------------
(* average_cost and route_cost *)

\* An entry of adjacency_matrix: 0 on the diagonal, at least 0.01 elsewhere.
LinkCost(relation) ==
    LET known == relation \in DOMAIN Bandwidth
    IN  IF relation = "X" THEN 0
        ELSE Max({1, 120 - (IF known THEN Bandwidth[relation] ELSE 10)
                         + (IF known THEN Latency[relation] ELSE 120)})

\* average_cost, of the entries above 0; 1.0 if there are none.
AverageCost ==
    LET Cost(pair) == LinkCost(relations[pair[1]][pair[2]])
        positive == {pair \in GpuDevices \X GpuDevices : Cost(pair) > 0}
    IN  IF positive = {} THEN <<100, 1>>
        ELSE <<SumFunction([pair \in positive |-> Cost(pair)]), Cardinality(positive)>>

\* cluster_probe_cost_factor.get(cluster, 1.0)
CostFactor(cluster) == IF cluster = text.cluster THEN AverageCost ELSE <<100, 1>>

\* A query route_cost makes: the gateway of the pool's own cluster.
IsRoute(p) == query = <<Gateway(ClusterOf[p]), PoolNode(p)>>

RouteCost ==
    /\ probe = "parsed" /\ route = {}
    /\ \E p \in {x \in Pools : IsRoute(x)}, cost \in answer \ {Infinity} :
         route' = {<<cost * CostFactor(ClusterOf[p])[1], CostFactor(ClusterOf[p])[2]>>}
    /\ UNCHANGED <<text, next, relations, probe>>

ProbedNext ==
    \/ (ReadRow \/ EndRows \/ RouteCost) /\ UNCHANGED vars
    \/ probe = "parsed" /\ Next /\ UNCHANGED probeVars

\* The parser and the search are sequential code.
ProbedSpec == ProbedInit /\ [][ProbedNext]_<<vars, probeVars>> /\ WF_<<vars, probeVars>>(ProbedNext)

-----------------------------------------------------------------------------
(* Properties. *)

\* What the text prints for GPUs a and b: the entry in the last row of a, below
\* the place of b in the header.
Printed(a, b) ==
    LET last == Max({i \in DOMAIN text.rows : text.rows[i].source = a})
        place == CHOOSE i \in DOMAIN text.header : text.header[i] = b
    IN  text.rows[last].edges[place]

\* route_cost is the internal cost of the pool times the mean cost of the links
\* printed between two different GPUs of its cluster, wherever network cards
\* stand in the table; links between clusters never enter it.
RouteCostOfProbe ==
    \A cost \in route, p \in {x \in Pools : IsRoute(x)} :
        LET pairs == {pair \in GpuDevices \X GpuDevices : pair[1] # pair[2]}
            costs == [pair \in pairs |-> LinkCost(Printed(pair[1], pair[2]))]
            internal == (CHOOSE e \in edges : <<e.source, e.target>> = query).cost
        IN  cost = IF ClusterOf[p] # text.cluster \/ pairs = {} THEN <<internal * 100, 1>>
                   ELSE <<internal * SumFunction(costs), Cardinality(pairs)>>

\* The search ends, whatever cycles the graph has, unless the service could not
\* be built because a table lacks the row or the column of a GPU.
Terminates == <>(answer # {} \/ probe = "raised")
=============================================================================
