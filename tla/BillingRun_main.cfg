SPECIFICATION Spec
CONSTANTS
    Run = {r1, r2, r3}
    Group = {g1}
    Month = {m1}
    Worker = {w1, w2}
    PlaceholderGroup = {}
    Finding = {"clean"}
    OperatorWaits = {"failed"}
    LateReviews = TRUE
    None = None
SYMMETRY Symmetric
INVARIANTS
    OneInvoice
    InvoiceAccounted
PROPERTIES
    OutcomeIsFinal
    RefinesSlots
CHECK_DEADLOCK FALSE
