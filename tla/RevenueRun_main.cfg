SPECIFICATION Spec
CONSTANTS
    Run = {r1, r2}
    Project = {q1}
    Planner = {p1, p2}
    LastMonth = 2
    Figure = {0, 1}
SYMMETRY Symmetric
INVARIANTS
    RetainersDecided
    LedgerAddsUp
PROPERTIES
    RefinesLedger
CHECK_DEADLOCK FALSE
