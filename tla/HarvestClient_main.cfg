SPECIFICATION FairSpec
CONSTANTS
    Call = {c1, c2}
    Full = 4
    Cost = 2
    RetryAfter = {2, 3}
    MaxRetries = 3
    Window = 4
INVARIANTS
    RateBound
    VerdictTrue
PROPERTIES
    PenaltyHolds
    CallsReturn
CHECK_DEADLOCK FALSE
