----------------------------- MODULE ApprovalsProps -----------------------------
(***************************************************************************)
(* What the approval gate promises.                                        *)
(***************************************************************************)
EXTENDS Approvals

TypeOK ==
    /\ status \in [Proposal -> Status]
    /\ payload \in [Proposal -> Payload]
    /\ granted \in [Proposal -> Version \cup {"none"}]
    /\ task \in [Proposal -> TaskState]
    /\ work \in [Proposal -> Version]
    /\ next \in [Proposal -> Nat \ {0}]
    /\ request \in [Proposal -> [Slot -> RequestState]]
    /\ records \in [Proposal -> [Slot -> Nat]]
    /\ lost \subseteq Proposal

(***************************************************************************)
(* The gate: the row's status and the human's click are the decision.      *)
(***************************************************************************)
Decision(p) ==
    CASE granted[p] # "none" -> granted[p]
      [] granted[p] = "none" /\ status[p] = "rejected" -> "refused"
      [] OTHER -> "open"

Gate == INSTANCE ApprovalGate WITH
    decision <- [p \in Proposal |-> Decision(p)],
    written <- records

\* A proposal is decided once, from pending; Airtable gets records of it only
\* after a grant, only of the payload the human granted, and no batch twice,
\* whatever times out, raises or dies on the way (approvals.py:158,
\* routers/approvals.py:97, airtable.py:132).
RefinesGate == Gate!Spec

\* A proposal shown as executed is in Airtable completely: every batch of the
\* payload the human granted has its records (_run_executor marks it only
\* after the executor has returned).
ExecutedMeansWritten ==
    \A p \in Proposal :
        status[p] = "executed" => \A s \in Parts(granted[p]) : records[p][s] = 1

\* A row that says approved is being worked on, or it was lost in one of three
\* ways: its process ended, recording its failure failed, or the approval was
\* committed and raised before its task was registered.  No other path of the
\* click and of the executor leaves a granted proposal without an outcome
\* (approve_approval, _run_executor).
ApprovedIsHeld ==
    \A p \in Proposal : status[p] = "approved" => task[p] # "none" \/ p \in lost
=============================================================================
