SPECIFICATION Spec
CONSTANTS
    Run = {r1, r2}
    Group = {g1}
    Month = {m1}
    Worker = {w1, w2}
    PlaceholderGroup = {g1}
    Finding = {"absent", "nothing", "clean", "error"}
    OperatorWaits = {}
    LateReviews = TRUE
    None = None
SYMMETRY SymmetricRuns
INVARIANTS
    WithheldNotSent
    OneLiveRow
CHECK_DEADLOCK FALSE
