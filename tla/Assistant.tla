------------------------------- MODULE Assistant -------------------------------
(***************************************************************************)
(* The assistant as a whole: the chat turns of AgentLoop beside the inbox, *)
(* the executors and Airtable of Approvals.  They run as tasks of one      *)
(* process and end with it; none of the tools an agent carries touches an  *)
(* approval (ADR-0004), so nothing else joins them.                        *)
(***************************************************************************)
EXTENDS AgentLoop, Approvals

assistantVars == <<loopVars, vars>>

AssistantInit == LoopInit /\ Init

\* The steps of a turn; a user starts one.
LoopAlone(t) ==
    /\ \/ StartTurn(t)
       \/ Thinks(t)
       \/ Delegation(t)
       \/ \E tool \in ToolName, w \in Write : CallTool(t, tool, w)
       \/ \E out \in {"done", "raised"} : ToolEnds(t, out)
       \/ \E w \in Write : CloseCall(t, w)
    /\ UNCHANGED vars

\* The turn's task is cancelled.
TurnCancelled(t) == TurnDies(t) /\ UNCHANGED vars

\* The process ends, and with it every turn and every background task.
AllDie ==
    /\ ProcessDies
    /\ stack' = [t \in Turn |-> << >>]
    /\ turn' = [t \in Turn |-> IF turn[t] = "running" THEN "cut" ELSE turn[t]]
    /\ UNCHANGED <<open, faults>>

\* The steps of the program in a turn.
TurnStep(t) == turn[t] = "running" /\ LoopAlone(t)

Approval(p) ==
    /\ Inbox(p) \/ Executor(p) \/ Airtable(p)
    /\ UNCHANGED loopVars

AssistantNext ==
    \/ \E t \in Turn : LoopAlone(t) \/ TurnCancelled(t)
    \/ \E p \in Proposal : Approval(p)
    \/ AllDie

AssistantSpec == AssistantInit /\ [][AssistantNext]_assistantVars

\* A turn that runs is scheduled, and its calls of the model, of vendors and
\* of the database end, in a timeout at the latest.  Nothing is assumed of the
\* user, of the inbox and of background tasks.
FairAssistant == AssistantSpec /\ \A t \in Turn : WF_assistantVars(TurnStep(t))
=============================================================================
