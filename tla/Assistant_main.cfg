CONSTANTS
    p1 = p1
    p2 = p2
    t1 = t1
    chief = chief
    ops = ops
    bdr = bdr
    Proposal = {p1, p2}
    Legacy = {p2}
    Batches <- MCBatches
    Turn = {t1}
    Agent = {chief, ops, bdr}
    FrontDoor = chief
    AskAgent = "ask_agent"
    Tools <- MCTools
    Delegates <- MCDelegates
    Level <- MCLevel
    MaxIterations = 2
    MaxCalls = 1
    MaxFaults = 1
SPECIFICATION FairAssistant
INVARIANTS ExecutedMeansWritten ApprovedIsHeld AuditBalances
PROPERTIES RefinesGate TasksReturn
CHECK_DEADLOCK FALSE
