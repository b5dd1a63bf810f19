CONSTANTS
    r1 = r1
    r2 = r2
    v1 = v1
    Nobody = Nobody
    Requests <- TwoRequests
    Variants <- OneVariant
    MaxRevision = 1
    MaxTasks = 2
    Offered <- Pages
    MaxAges <- AnyAge
    WaitTimeout = 1
    LockTtl = 4
    BackendLag = 5
    StoreLag = 1
    AgeCap = 0
    MaxFaults = 0
SPECIFICATION Spec
INVARIANTS
    OneGenerationPerReport
