SPECIFICATION Spec
CONSTANTS
    Draw = {d1, d2}
    Click = {c1, c2, c3}
    Terms = {t1, t2}
    OperatorWaits = TRUE
    None = None
SYMMETRY Symmetric
INVARIANTS
    OneInvoicePerDraw
    ConsumedTogether
PROPERTIES
    HistoryStands
    RefinesSlots
CHECK_DEADLOCK FALSE
