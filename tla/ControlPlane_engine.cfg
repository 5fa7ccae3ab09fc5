SPECIFICATION TimedSpec
CONSTANTS
    k1 = k1
    k2 = k2
    p1 = p1
    p2 = p2
    c1 = c1
    c2 = c2
    t1 = t1
    t2 = t2
    FirstPool = p1
    ClusterOf <- MCClusterOf
    ModelScale <- MCModelScale
    TenantOf <- MCTenantOf
    Supports <- MCSupports
    Slots <- MCSlots
    Keys = {k1, k2}
    Pools = {p1, p2}
    Ttl = 1
    BucketCap = 2
    MaxEntries = 2
    Tenants = {t1, t2}
    QueueLimit <- MixedQueues
    MemoryGb <- MixedMemory
    FailureWindows <- MCFailureWindows
    ServiceTimes = {1, 3}
    Prompts = {4}
    GenTokens = 1
    MaxLatency = 3
    RemoteChooser = TRUE
    Ordered = TRUE
    MaxTime = 3
    MaxRequests = 4
INVARIANTS
    TypeOK
    MemoryWithinPool
    CacheOvercommitBounded
    SlotExclusive
    NoOvertaking
    WorkConserving
    AccountingBalanced
    OutstandingWithinLimit
PROPERTIES
    ImplementsQueues
    NoSpuriousReject
CHECK_DEADLOCK FALSE
