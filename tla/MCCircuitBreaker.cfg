SPECIFICATION FairSpec
CONSTANTS
    Callers = {c1, c2, c3}
    FailureThreshold = 2
    SuccessThreshold = 2
    HalfOpenMaxRequests = 2
    MinimumRequestCount = 2
    RateNum = 2
    RateDen = 3
    EnableHealthCheck = TRUE
    MaxCommands = 1
    CountCap = 3
INVARIANTS HalfOpenAdmits HalfOpenCount ClosedBelowThreshold
PROPERTIES HalfOpenOnlyAfterTimeout Recovers
