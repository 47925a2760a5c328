SPECIFICATION FairSpec
CONSTANTS
    Run = {r1, r2}
    Group = {g1, g2}
    Month = {m1}
    Worker = {w1}
    PlaceholderGroup = {}
    Finding = {"clean"}
    OperatorWaits = {"created", "failed"}
    LateReviews = FALSE
    None = None
INVARIANTS
    AbandonedDraftedNothing
    OverMeansAccounted
PROPERTIES
    HaltedRunDraftsNothing
    ClickReturns
CHECK_DEADLOCK FALSE
