CONSTANTS
    r1 = r1
    r2 = r2
    v1 = v1
    Nobody = Nobody
    Requests <- TwoRequests
    Variants <- OneVariant
    MaxRevision = 1
    MaxTasks = 1
    Offered <- PagesAndStatus
    MaxAges <- AgeOne
    WaitTimeout = 1
    LockTtl = 2
    BackendLag = 1
    StoreLag = 1
    AgeCap = 3
    MaxFaults = 1
SPECIFICATION FairSpec
INVARIANTS
    TypeOK
PROPERTIES
    EveryRequestAnswered
    AbandonedLockFreed
    LockFreedByOwner
    ServedWithinAge
