SPECIFICATION Spec
CONSTANTS
    Run = {r1}
    Group = {g1, g2}
    Month = {m1}
    Worker = {w1}
    PlaceholderGroup = {}
    Finding = {"clean"}
    OperatorWaits = {"failed"}
    LateReviews = FALSE
    None = None
INVARIANTS
    OverMeansNothingLeft
CHECK_DEADLOCK FALSE
