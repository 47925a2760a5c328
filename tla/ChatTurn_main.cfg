SPECIFICATION Spec
CONSTANTS
    Turn = {t1, t2, t3}
    Session = {s1}
    Process = {p1, p2}
    Limit = 2
    None = None
SYMMETRY Symmetric
INVARIANTS
    Serial
    NoOrphans
    HistoryComplete
PROPERTIES
    FinalRowStands
CHECK_DEADLOCK FALSE
