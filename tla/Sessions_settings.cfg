CONSTANTS
    p1 = p1
    p2 = p2
    q1 = q1
    q2 = q2
    q3 = q3
    Nobody = Nobody
    Pods <- OnePod
    Requests <- TwoRequests
    MaxLogins = 1
    SignedIn = TRUE
    Offered = {"settings"}
    MaxFaults = 1
SPECIFICATION Spec
CHECK_DEADLOCK FALSE
INVARIANTS
    OtherStatusKeepsSession
