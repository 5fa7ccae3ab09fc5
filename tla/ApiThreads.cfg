CONSTANTS
    k1 = k1
    k2 = k2
    t1 = t1
    t2 = t2
    h1 = h1
    h2 = h2
    Handlers = {h1, h2}
    Keys = {k1, k2}
    Tenants = {t1, t2}
    TenantOf <- MCTenantOf
    PoolCount = 2
    Buckets <- MCBuckets
    Ttl = 1
    Times = {2, 3}
    MaxWrites = 1
SPECIFICATION Spec
INVARIANTS
    LoneHandlersSucceed
    NeverMixed
    SubmissionsCounted
    MirroredIsHit
SYMMETRY Symmetry
CHECK_DEADLOCK FALSE
