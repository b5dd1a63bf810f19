CONSTANTS
    r1 = r1
    r2 = r2
    v1 = v1
    Nobody = Nobody
    Requests <- TwoRequests
    Variants <- OneVariant
    MaxRevision = 2
    MaxTasks = 2
    Offered <- PageAndRefresh
    MaxAges <- AnyAge
    WaitTimeout = 1
    LockTtl = 8
    BackendLag = 1
    StoreLag = 1
    AgeCap = 0
    MaxFaults = 0
SPECIFICATION Spec
INVARIANTS
    ForcedRunIsNewer
    ServedRunMatches
    ExclusiveGeneration
    NothingLeftToJoin
PROPERTIES
    KeepsRegister
    
