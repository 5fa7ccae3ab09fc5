SPECIFICATION Spec
CONSTANTS
    d1 = d1
    d2 = d2
    k1 = k1
    k2 = k2
    p1 = p1
    p2 = p2
    p3 = p3
    c1 = c1
    c2 = c2
    Procs = {d1}
    Keys = {k1, k2}
    Pools = {p1, p2, p3}
    FirstPool = p1
    ClusterOf <- MCClusterOf
    ModelScale <- MCModelScale
    Ttl = 1
    BucketCap = 2
    MaxEntries = 2
    RedisEnabled = FALSE
    Prompts = {2}
    GenTokens = 1
    Delays = {1, 2}
    MaxTime = 3
    MaxRequests = 3
    MaxRuns = 1
INVARIANTS
    TypeOK
    HitsFresh
    TotalBounded
    BucketShape
PROPERTIES
    LossJustified
SYMMETRY Symmetry
CHECK_DEADLOCK FALSE
