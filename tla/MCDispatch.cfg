SPECIFICATION FairSpec
CONSTANTS
    Requests = {r1}
    Workers = {w1, w2, w3}
    NoWorker = NoWorker
    Modes = {"rest", "raw", "tunnel"}
    WireCodes = {"UpstreamReset", "TimeoutExceeded", "RouteUnavailable", "AssignmentTimeout", "Unspecified"}
INVARIANTS
    SingleStart
    ChargedOnce
    AbortIsTold
PROPERTIES
    AttemptsFollowLifecycle
    FallbackWithinLifecycle
    EveryRequestEnds
CHECK_DEADLOCK FALSE
