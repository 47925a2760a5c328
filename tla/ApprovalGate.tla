----------------------------- MODULE ApprovalGate -----------------------------
(***************************************************************************)
(* What the inbox promises of a proposal: a human decides it once, nothing *)
(* is written before that, what is written is what the human granted, and  *)
(* no part of it is written twice.                                         *)
(***************************************************************************)
EXTENDS Integers

CONSTANTS
    Proposal,  \* proposals of the tools
    Version,   \* payloads a human may grant
    Part       \* parts in which a payload is written

VARIABLES
    decision,  \* "open", "refused" or the version granted
    written    \* records written, by proposal, version and part

vars == <<decision, written>>

Init ==
    /\ decision = [p \in Proposal |-> "open"]
    /\ written = [p \in Proposal |-> [x \in Version \X Part |-> 0]]

Grant(p, v) ==
    /\ decision[p] = "open"
    /\ decision' = [decision EXCEPT ![p] = v]
    /\ UNCHANGED written

Refuse(p) ==
    /\ decision[p] = "open"
    /\ decision' = [decision EXCEPT ![p] = "refused"]
    /\ UNCHANGED written

Write(p, v, b) ==
    /\ decision[p] = v
    /\ written[p][<<v, b>>] = 0
    /\ written' = [written EXCEPT ![p][<<v, b>>] = 1]
    /\ UNCHANGED decision

Next ==
    \E p \in Proposal :
        \/ Refuse(p)
        \/ \E v \in Version : Grant(p, v)
        \/ \E v \in Version, b \in Part : Write(p, v, b)

Spec == Init /\ [][Next]_vars
=============================================================================
