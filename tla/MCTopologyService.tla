------------------------- MODULE MCTopologyService -------------------------
(* TopologyService on every network of three clusters with one pool each,  *)
(* and route_cost on tables of two GPUs and a network card.                *)
EXTENDS ProbedTopology, TLC

CONSTANTS c1, c2, c3, p1, p2, p3, Ingress, LinkCosts, g1, g2, nic

MCBandwidth == [X |-> 0, NV4 |-> 140, PHB |-> 35, SYS |-> 18]
MCLatency == [X |-> 0, NV4 |-> 10, PHB |-> 72, SYS |-> 100]

TableRow(d, names) == [source |-> d, edges |-> names]

\* Rows of a complete table, with the card before, between or after the GPUs;
\* `other` is what is printed between GPUs and card.
RowNames(header, d, link, other) ==
    [i \in DOMAIN header |-> IF header[i] = d THEN "X"
                             ELSE IF nic \in {header[i], d} THEN other ELSE link]

Table(cluster, header, link, other) ==
    [cluster |-> cluster, header |-> header,
     rows |-> [i \in DOMAIN header |-> TableRow(header[i], RowNames(header, header[i], link, other))]]

\* Complete tables; a table of one GPU; one without the last row, one whose
\* first row is cut off, and a text without a header.
MCTexts ==
    {Table(c1, header, link, "PHB") :
        header \in {<<g1, g2>>, <<nic, g1, g2>>, <<g1, nic, g2>>}, link \in {"NV4", "SYS"}}
    \cup {Table(c1, <<g1>>, "SYS", "PHB"), Table(c1, <<g1, g2>>, "new", "PHB"),
          Table(c2, <<g1, nic, g2>>, "SYS", "PHB"),
          [cluster |-> c1, header |-> <<g1, g2>>, rows |-> <<TableRow(g1, <<"X", "SYS">>)>>],
          [cluster |-> c1, header |-> <<g1, g2>>,
           rows |-> <<TableRow(g1, <<"X">>), TableRow(g2, <<"SYS", "X">>)>>],
          [cluster |-> c1, header |-> <<>>, rows |-> <<>>]}

MCClusterOf == (p1 :> c1) @@ (p2 :> c2) @@ (p3 :> c3)

MCInternals == {[p \in Pools |-> 1], (p1 :> 2) @@ (p2 :> 3) @@ (p3 :> 1)}

\* Any set of links between clusters, with any of the costs, besides a link to
\* the ingress, which builds no edge.
GatewayPairs == {l \in Clusters \X Clusters : l[1] # l[2]}

MCNetworks == {f @@ (<<c1, Ingress>> :> 1) :
                  f \in UNION {[s -> LinkCosts] : s \in SUBSET GatewayPairs}}

MCQueries == {<<Gateway(c1), PoolNode(p1)>>, <<Gateway(c1), PoolNode(p2)>>}

=============================================================================
