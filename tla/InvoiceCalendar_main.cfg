SPECIFICATION Spec
CONSTANTS
    Entry = {e1, e2}
    Line = {l1, l2}
    LastMonth = 2
    FirstDay <- ShortMonths
    MonthOf <- MonthOfShort
    NetDays = {0, 2}
    Lookback = 2
    None = None
SYMMETRY Symmetric
INVARIANTS
    PeriodsTile
    LeftBehindAnnounced
    BilledAsEstimated
    DueInFull
CHECK_DEADLOCK FALSE
