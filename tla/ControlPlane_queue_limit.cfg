SPECIFICATION Spec
CONSTANTS
    k1 = k1
    k2 = k2
    p1 = p1
    p2 = p2
    c1 = c1
    c2 = c2
    t1 = t1
    t2 = t2
    FirstPool = p1
    ClusterOf <- MCClusterOf
    ModelScale <- MCModelScale
    TenantOf <- MCTenantOf
    Supports <- MCSupports
    Slots <- MCSlots
    Keys = {k1}
    Pools = {p1, p2}
    Ttl = 2
    BucketCap = 2
    MaxEntries = 2
    Tenants = {t1, t2}
    QueueLimit <- ShortQueues
    MemoryGb <- AmpleMemory
    FailureWindows <- NoFailures
    ServiceTimes = {1, 3}
    Prompts = {2}
    GenTokens = 1
    MaxLatency = 3
    RemoteChooser = FALSE
    Ordered = TRUE
    MaxTime = 1
    MaxRequests = 5
INVARIANTS
    OutstandingWithinLimit
CHECK_DEADLOCK FALSE
