CONSTANTS
    p1 = p1
    p2 = p2
    q1 = q1
    q2 = q2
    q3 = q3
    Nobody = Nobody
    Pods <- OnePod
    Requests <- TwoRequests
    MaxLogins = 2
    SignedIn = TRUE
    Offered = {"login", "logout", "page", "admin", "settings"}
    MaxFaults = 1
SPECIFICATION FairSpec
CHECK_DEADLOCK FALSE
INVARIANTS
    TypeOK
    SignedOutOnlyIfRejected
    PendingIsRunning
    ClearedCookieMeansGone
    RefusedLoginUnusable
PROPERTIES
    EveryRequestAnswered
