SPECIFICATION Spec
CONSTANTS
    Draw = {d1}
    Click = {c1}
    Terms = {t1, t2}
    OperatorWaits = TRUE
    None = None
INVARIANTS
    LedgerMatchesSchedule
CHECK_DEADLOCK FALSE
