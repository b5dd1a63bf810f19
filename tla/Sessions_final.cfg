CONSTANTS
    p1 = p1
    p2 = p2
    q1 = q1
    q2 = q2
    q3 = q3
    Nobody = Nobody
    Pods <- TwoPods
    Requests <- ThreeRequests
    MaxLogins = 1
    SignedIn = TRUE
    Offered = {"logout", "page", "status", "proxy", "settings"}
    MaxFaults = 0
SPECIFICATION HistorySpec
CHECK_DEADLOCK FALSE
SYMMETRY SymmetryTwoPods
INVARIANTS
    LogoutIsFinal
    NoValidationOutlivesSession
PROPERTIES
    NeverResurrected
