CONSTANTS
    c1 = c1
    c2 = c2
    c3 = c3
    p1 = p1
    p2 = p2
    p3 = p3
    Ingress = Ingress
    LinkCosts = {1, 3}
    Clusters = {c1, c2, c3}
    Pools = {p1, p2, p3}
    ClusterOf <- MCClusterOf
    Internals <- MCInternals
    Names = {c1, c2, c3, Ingress}
    Networks <- MCNetworks
    Queries <- MCQueries
    g1 = g1
    g2 = g2
    nic = nic
    Gpus = {g1, g2}
    Bandwidth <- MCBandwidth
    Latency <- MCLatency
    Texts <- MCTexts
SPECIFICATION ProbedSpec
INVARIANTS
    TypeOK
    AnswerIsShortest
    RouteCostOfProbe
PROPERTIES
    SettledFinal
    Terminates
CHECK_DEADLOCK FALSE
