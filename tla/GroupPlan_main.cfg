SPECIFICATION Spec
CONSTANTS
    Group = {g1, g2, g3}
    Manual = {g3}
    Project = {p1}
    Client = {c1, c2}
    Line = {l1}
    Editor = {e1, e2}
    MaxEdits = 3
    None = None
SYMMETRY Symmetric
INVARIANTS
    OneActiveGroup
    RemovedStaysRemoved
    EveryProjectAccounted
    RowsAnnounced
PROPERTIES
    SavesKeepDecisions
CHECK_DEADLOCK FALSE
