----------------------------- MODULE AssistantProps -----------------------------
(***************************************************************************)
(* What the assistant promises beside the gate: its audit log is complete, *)
(* and an agent that was asked for something comes back.                   *)
(***************************************************************************)
EXTENDS Assistant, ApprovalsProps

LoopTypeOK ==
    /\ stack \in [Turn -> Seq([agent : Agent, round : 0 .. MaxIterations,
                               left : 0 .. MaxCalls, at : At,
                               tool : ToolName \cup {AskAgent}, out : Outcome])]
    /\ turn \in [Turn -> {"waiting", "running", "over", "cut"}]
    /\ open \in [Turn -> [Kind -> Int]]
    /\ faults \in [Turn -> 0 .. MaxFaults]

\* Invocations and calls that the frames of a turn are inside of.
InFrames(t, kind) ==
    LET inside == IF kind = "task"
                  THEN {i \in 2 .. Len(stack[t]) : stack[t][i].at # "invoking"}
                  ELSE {i \in 1 .. Len(stack[t]) :
                          stack[t][i].at \in {"executing", "delegated", "answering", "closing"}}
    IN  Cardinality(inside)

Gap(t, kind) == open[t][kind] - InFrames(t, kind)

\* Every AGENT_INVOKED and every TOOL_CALLED gets its closing event once the
\* agent or the tool is done, however it ended: answered, blocked, raised in a
\* task below, out of rounds.  Only a write to the audit log that itself
\* raises leaves a gap, one gap each (dispatch_tool, run_agent_task).
AuditBalances ==
    \A t \in Turn : turn[t] # "cut" =>
        /\ \A kind \in Kind : Gap(t, kind) >= 0
        /\ Gap(t, "task") + Gap(t, "call") <= faults[t]

\* An agent that was asked for something answers or fails, whatever the model
\* keeps calling: only the front door may go on for ever (run_agent_task).
TasksReturn == \A t \in Turn : Len(stack[t]) > 1 ~> Len(stack[t]) <= 1
=============================================================================
