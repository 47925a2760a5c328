------------------------------- MODULE AgentLoop -------------------------------
(***************************************************************************)
(* Chat turns as the orchestrator runs them: the front door asks the model *)
(* and executes the tools it calls until it answers; the tool `ask_agent`  *)
(* runs a task of another agent, in the same way but for a limited number  *)
(* of rounds.  The calls of a turn nest, so a turn is a stack of frames    *)
(* and acts in its top frame.                                              *)
(*                                                                         *)
(* Every invocation of an agent and every tool call is bracketed in        *)
(* `audit_log`, each event a transaction of its own that may raise, before *)
(* its commit or after it.  What is said is left out: an answer of the     *)
(* model is how many tools it calls, one by one, and which.                *)
(***************************************************************************)
EXTENDS Integers, Sequences, FiniteSets

CONSTANTS
    Turn,           \* chat turns
    Agent,          \* the registry
    FrontDoor,      \* chief-of-staff
    AskAgent,       \* the tool that delegates
    Tools,          \* allowed_tools, by agent
    Delegates,      \* available_agents, by agent
    Level,          \* a rank of agents that delegation descends
    MaxIterations,  \* rounds of a delegated task
    MaxCalls,       \* tools the model calls in one answer (bound)
    MaxFaults       \* writes to the audit log that raise in a turn (bound)

ASSUME AgentLoopAssumption ==
    /\ FrontDoor \in Agent
    /\ Delegates \in [Agent -> SUBSET Agent]
    /\ Level \in [Agent -> Nat]
    /\ \A a \in Agent : \A b \in Delegates[a] : Level[b] < Level[a]
    /\ MaxIterations \in Nat \ {0}
    /\ MaxCalls \in Nat \ {0}
    /\ MaxFaults \in Nat

VARIABLES
    stack,   \* the frames of a turn, the front door first
    turn,    \* "waiting", "running", "over", or "cut" where it was not ended
    open,    \* events in audit_log without their closing event, by kind
    faults   \* writes to audit_log that raised

loopVars == <<stack, turn, open, faults>>

\* "invoking" to "failing": the statement a frame executes next.
At == {"invoking", "asking", "choosing", "executing", "delegated", "answering",
       "closing", "completing", "failing"}
Outcome == {"done", "blocked", "raised"}
Kind == {"task", "call"}

ToolName == UNION {Tools[a] : a \in Agent}

\* How a write ends: it is committed or not, and it raises or not.
Write == {"written", "raised", "committed"}

Fresh(a, at) ==
    [agent |-> a, round |-> 0, left |-> 0, at |-> at, tool |-> AskAgent, out |-> "done"]

LoopInit ==
    /\ stack = [t \in Turn |-> << >>]
    /\ turn = [t \in Turn |-> "waiting"]
    /\ open = [t \in Turn |-> [k \in Kind |-> 0]]
    /\ faults = [t \in Turn |-> 0]

Top(t) == stack[t][Len(stack[t])]
Stands(t, at) == turn[t] = "running" /\ Top(t).at = at
Delegated(t) == Len(stack[t]) > 1
Callers(t) == SubSeq(stack[t], 1, Len(stack[t]) - 1)

\* The top frame of t goes on as f.
Becomes(t, f) == stack' = [stack EXCEPT ![t] = Append(Callers(t), f)]

\* The top frame ends and its caller, which was executing ask_agent, goes on.
Returns(t) ==
    stack' = [stack EXCEPT ![t] =
                LET n == Len(stack[t]) - 1
                IN  Append(SubSeq(stack[t], 1, n - 1),
                           [stack[t][n] EXCEPT !.at = "answering"])]

Raises(t) ==
    stack' = [stack EXCEPT ![t] =
                LET n == Len(stack[t]) - 1
                IN  Append(SubSeq(stack[t], 1, n - 1),
                           [stack[t][n] EXCEPT !.at = "closing", !.out = "raised"])]

Ends(t, how) ==
    /\ stack' = [stack EXCEPT ![t] = << >>]
    /\ turn' = [turn EXCEPT ![t] = how]

\* The audit log after a write w of an event that adds `by` to what is open.
Audits(t, kind, by, w) ==
    /\ w \in Write
    /\ w # "written" => faults[t] < MaxFaults
    /\ open' = [open EXCEPT ![t][kind] = IF w = "raised" THEN @ ELSE @ + by]
    /\ faults' = [faults EXCEPT ![t] = IF w = "written" THEN @ ELSE @ + 1]

StartTurn(t) ==
    /\ turn[t] = "waiting"
    /\ turn' = [turn EXCEPT ![t] = "running"]
    /\ stack' = [stack EXCEPT ![t] = <<Fresh(FrontDoor, "asking")>>]
    /\ UNCHANGED <<open, faults>>

(***************************************************************************)
(* The model.                                                              *)
(***************************************************************************)
ModelFails(t) ==
    /\ Stands(t, "asking")
    /\ IF Delegated(t)
       THEN Becomes(t, [Top(t) EXCEPT !.at = "failing"]) /\ UNCHANGED turn
       ELSE Ends(t, "over")
    /\ UNCHANGED <<open, faults>>

ModelAnswers(t) ==
    /\ Stands(t, "asking")
    /\ IF Delegated(t)
       THEN Becomes(t, [Top(t) EXCEPT !.at = "completing"]) /\ UNCHANGED turn
       ELSE Ends(t, "over")
    /\ UNCHANGED <<open, faults>>

ModelCalls(t, n) ==
    /\ Stands(t, "asking")
    /\ Tools[Top(t).agent] # {}
    /\ Becomes(t, [Top(t) EXCEPT !.at = "choosing", !.left = n])
    /\ UNCHANGED <<turn, open, faults>>

(***************************************************************************)
(* A tool call.  A frame goes on with the next one, with the next round,   *)
(* or, where the rounds of a task are used up, raises.                     *)
(***************************************************************************)

\* Mutant: the rounds of a task are not counted.
NextCallForever(t, f) ==
    IF f.left > 1
    THEN [f EXCEPT !.at = "choosing", !.left = @ - 1]
    ELSE Fresh(f.agent, "asking")

NextCall(t, f) ==
    LET more == f.left > 1
        last == Delegated(t) /\ f.round + 1 >= MaxIterations
        at == CASE more -> "choosing" [] ~more /\ last -> "failing" [] OTHER -> "asking"
    IN  [Fresh(f.agent, at) EXCEPT
           !.left = IF more THEN f.left - 1 ELSE 0,
           !.round = IF more \/ ~Delegated(t) THEN f.round ELSE f.round + 1]

\* A tool that is not the agent's own is answered with an error.
UnknownTool(t) ==
    /\ Stands(t, "choosing")
    /\ Becomes(t, NextCall(t, Top(t)))
    /\ UNCHANGED <<turn, open, faults>>

\* dispatch_tool: TOOL_CALLED, outside the try.
CallTool(t, tool, w) ==
    /\ Stands(t, "choosing")
    /\ tool \in Tools[Top(t).agent]
    /\ Audits(t, "call", 1, w)
    /\ Becomes(t, IF w = "written"
                  THEN [Top(t) EXCEPT !.at = "executing", !.tool = tool]
                  ELSE NextCall(t, Top(t)))
    /\ UNCHANGED turn

ToolEnds(t, out) ==
    /\ Stands(t, "executing")
    /\ Top(t).tool # AskAgent
    /\ out \in {"done", "raised"}
    /\ Becomes(t, [Top(t) EXCEPT !.at = "closing", !.out = out])
    /\ UNCHANGED <<turn, open, faults>>

\* Mutant: what a tool raises is passed on without TOOL_FAILED.
CloseCallUnlessRaised(t, w) ==
    /\ Stands(t, "closing")
    /\ IF Top(t).out = "raised"
       THEN w = "written" /\ UNCHANGED <<open, faults>>
       ELSE Audits(t, "call", -1, w)
    /\ Becomes(t, NextCall(t, Top(t)))
    /\ UNCHANGED turn

\* The result of a tool of the task's own may be one that json.dumps does not
\* encode; the front door encodes every result, and so does ask_agent's.
Unencodable(t) == Delegated(t) /\ Top(t).out = "done" /\ Top(t).tool # AskAgent

\* dispatch_tool: TOOL_COMPLETED, TOOL_BLOCKED or TOOL_FAILED.  If that raises,
\* the model is told of an error.
CloseCall(t, w) ==
    /\ Stands(t, "closing")
    /\ Audits(t, "call", -1, w)
    /\ \/ Becomes(t, NextCall(t, Top(t)))
       \/ w = "written" /\ Unencodable(t) /\ Becomes(t, [Top(t) EXCEPT !.at = "failing"])
    /\ UNCHANGED turn

(***************************************************************************)
(* ask_agent and run_agent_task.                                           *)
(***************************************************************************)

MayAsk(a, target) == target \in Delegates[a]

RefuseTarget(t, target) ==
    /\ Stands(t, "executing")
    /\ Top(t).tool = AskAgent
    /\ ~MayAsk(Top(t).agent, target)
    /\ Becomes(t, [Top(t) EXCEPT !.at = "closing", !.out = "blocked"])
    /\ UNCHANGED <<turn, open, faults>>

\* The question is recorded in agent_messages and the task begins.
Delegate(t, target) ==
    /\ Stands(t, "executing")
    /\ Top(t).tool = AskAgent
    /\ MayAsk(Top(t).agent, target)
    /\ stack' = [stack EXCEPT ![t] =
                   Append(Append(Callers(t), [Top(t) EXCEPT !.at = "delegated"]),
                          Fresh(target, "invoking"))]
    /\ UNCHANGED <<turn, open, faults>>

\* Recording the question raises.
DelegateRaises(t) ==
    /\ Stands(t, "executing")
    /\ Top(t).tool = AskAgent
    /\ Becomes(t, [Top(t) EXCEPT !.at = "closing", !.out = "raised"])
    /\ UNCHANGED <<turn, open, faults>>

\* AGENT_INVOKED, outside the try.
Invoke(t, w) ==
    /\ Stands(t, "invoking")
    /\ Audits(t, "task", 1, w)
    /\ IF w = "written" THEN Becomes(t, [Top(t) EXCEPT !.at = "asking"]) ELSE Raises(t)
    /\ UNCHANGED turn

\* AGENT_COMPLETED, outside the try as well.
Complete(t, w) ==
    /\ Stands(t, "completing")
    /\ Audits(t, "task", -1, w)
    /\ IF w = "written" THEN Returns(t) ELSE Raises(t)
    /\ UNCHANGED turn

\* AGENT_FAILED, and the exception goes to the caller.
Fail(t, w) ==
    /\ Stands(t, "failing")
    /\ Audits(t, "task", -1, w)
    /\ Raises(t)
    /\ UNCHANGED turn

\* The answer is recorded in agent_messages, or that raises.
RecordAnswer(t, out) ==
    /\ Stands(t, "answering")
    /\ out \in {"done", "raised"}
    /\ Becomes(t, [Top(t) EXCEPT !.at = "closing", !.out = out])
    /\ UNCHANGED <<turn, open, faults>>

\* The process, or the task that runs the turn, ends.
TurnDies(t) ==
    /\ turn[t] = "running"
    /\ Ends(t, "cut")
    /\ UNCHANGED <<open, faults>>

Thinks(t) ==
    \/ ModelFails(t)
    \/ ModelAnswers(t)
    \/ \E n \in 1 .. MaxCalls : ModelCalls(t, n)
    \/ UnknownTool(t)

Delegation(t) ==
    \/ \E target \in Agent : RefuseTarget(t, target) \/ Delegate(t, target)
    \/ DelegateRaises(t)
    \/ \E w \in Write : Invoke(t, w) \/ Complete(t, w) \/ Fail(t, w)
    \/ \E out \in Outcome : RecordAnswer(t, out)

LoopNext ==
    \E t \in Turn :
        \/ StartTurn(t)
        \/ Thinks(t)
        \/ \E tool \in ToolName, w \in Write : CallTool(t, tool, w)
        \/ \E out \in Outcome : ToolEnds(t, out)
        \/ \E w \in Write : CloseCall(t, w)
        \/ Delegation(t)
        \/ TurnDies(t)

LoopSpec == LoopInit /\ [][LoopNext]_loopVars
=============================================================================
