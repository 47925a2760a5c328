------------------------------- MODULE Approvals -------------------------------
(***************************************************************************)
(* Human approval of what a tool proposed: the inbox grants or rejects a   *)
(* row of `approvals`, and a granted one is written to Airtable by a       *)
(* background task of the process that took the click, in batches of ten.  *)
(*                                                                         *)
(* Nothing inserts rows today: since ADR-0004 no agent carries the tool    *)
(* that proposes, so the rows are those that were pending by then.  A      *)
(* database transaction is one action; the POST of a batch is a request    *)
(* that Airtable answers, refuses, or works on after the caller has given  *)
(* up.  Vendors, entries and amounts are left out: a payload is a number   *)
(* of batches and who wrote it.                                            *)
(***************************************************************************)
EXTENDS Integers, FiniteSets

CONSTANTS
    Proposal,  \* the rows of `approvals`
    Legacy,    \* rows from before executors had names: theirs is not registered
    Batches    \* batches in a payload, by version

Version == {"proposed", "edited"}

ASSUME ApprovalsAssumption ==
    /\ Legacy \subseteq Proposal
    /\ Batches \in [Version -> Nat]

VARIABLES
    status,   \* approvals.status
    payload,  \* approvals.executed_payload
    granted,  \* the version the human granted, "none" before (history)
    task,     \* what the background task of a grant is doing
    work,     \* the payload the task was given
    next,     \* the batch the task writes next
    request,  \* what the network and Airtable did with a batch
    records,  \* how often the records of a batch were created in Airtable
    lost      \* grants that nothing will record an outcome of (history)

row == <<status, payload, granted>>
executor == <<task, work, next>>
airtable == <<request, records>>
vars == <<status, payload, granted, task, work, next, request, records, lost>>

Status == {"pending", "approved", "rejected", "executed", "failed"}
Payload == {"none", "edited", "result"}
TaskState == {"none", "running", "waiting", "failing"}
RequestState == {"none", "sent", "landed", "refused"}

Part == 1 .. (Batches["proposed"] + Batches["edited"])
Slot == Version \X Part

Parts(v) == {v} \X (1 .. Batches[v])

Init ==
    /\ status = [p \in Proposal |-> "pending"]
    /\ payload = [p \in Proposal |-> "none"]
    /\ granted = [p \in Proposal |-> "none"]
    /\ task = [p \in Proposal |-> "none"]
    /\ work = [p \in Proposal |-> "proposed"]
    /\ next = [p \in Proposal |-> 1]
    /\ request = [p \in Proposal |-> [s \in Slot |-> "none"]]
    /\ records = [p \in Proposal |-> [s \in Slot |-> 0]]
    /\ lost = {}

(***************************************************************************)
(* The inbox.                                                              *)
(***************************************************************************)

\* EXECUTORS_BY_NAME has nothing for the row's executor.
Unregistered(p) == p \in Legacy

\* `executed_payload or proposed_payload`: an edit to {} counts as none.
Effective(e) == IF e = "edited" THEN "edited" ELSE "proposed"

\* Mutant: the row is not locked and its status not read again.
ApproveUnchecked(p, e) ==
    /\ status' = [status EXCEPT ![p] = "approved"]
    /\ payload' = [payload EXCEPT ![p] = IF e THEN "edited" ELSE @]
    /\ granted' = [granted EXCEPT ![p] = IF e THEN "edited" ELSE "proposed"]
    /\ work' = [work EXCEPT ![p] = Effective(payload'[p])]
    /\ next' = [next EXCEPT ![p] = 1]
    /\ task' = [task EXCEPT ![p] = IF Unregistered(p) THEN "failing" ELSE "running"]
    /\ UNCHANGED <<airtable, lost>>

\* approve under a row lock, then approve_approval: the executor runs after
\* the response, in this process; one that is not registered is marked failed
\* by the same request.
Approve(p, e) ==
    /\ status[p] = "pending"
    /\ status' = [status EXCEPT ![p] = "approved"]
    /\ payload' = [payload EXCEPT ![p] = IF e THEN "edited" ELSE @]
    /\ granted' = [granted EXCEPT ![p] = IF e THEN "edited" ELSE "proposed"]
    /\ work' = [work EXCEPT ![p] = Effective(payload'[p])]
    /\ next' = [next EXCEPT ![p] = 1]
    /\ task' = [task EXCEPT ![p] = IF Unregistered(p) THEN "failing" ELSE "running"]
    /\ UNCHANGED <<airtable, lost>>

\* approve raises after its commit: the click is answered with an error, the
\* executor is not started, and a second click finds no pending row.
ApproveRaises(p, e) ==
    /\ status[p] = "pending"
    /\ status' = [status EXCEPT ![p] = "approved"]
    /\ payload' = [payload EXCEPT ![p] = IF e THEN "edited" ELSE @]
    /\ granted' = [granted EXCEPT ![p] = IF e THEN "edited" ELSE "proposed"]
    /\ lost' = lost \cup {p}
    /\ UNCHANGED <<executor, airtable>>

Reject(p) ==
    /\ status[p] = "pending"
    /\ status' = [status EXCEPT ![p] = "rejected"]
    /\ UNCHANGED <<payload, granted, executor, airtable, lost>>

(***************************************************************************)
(* The executor: write_rev_rec_entries, create_revenue_records.            *)
(***************************************************************************)
Batch(p) == <<work[p], next[p]>>

SendBatch(p) ==
    /\ task[p] = "running"
    /\ next[p] <= Batches[work[p]]
    /\ task' = [task EXCEPT ![p] = "waiting"]
    /\ request' = [request EXCEPT ![p][Batch(p)] = "sent"]
    /\ UNCHANGED <<row, work, next, records, lost>>

\* Airtable creates the records of a batch, whoever is still waiting for them.
AirtableCreates(p, s) ==
    /\ request[p][s] = "sent"
    /\ request' = [request EXCEPT ![p][s] = "landed"]
    /\ records' = [records EXCEPT ![p][s] = @ + 1]
    /\ UNCHANGED <<row, executor, lost>>

AirtableRefuses(p, s) ==
    /\ request[p][s] = "sent"
    /\ request' = [request EXCEPT ![p][s] = "refused"]
    /\ UNCHANGED <<row, executor, records, lost>>

BatchAnswered(p) ==
    /\ task[p] = "waiting"
    /\ request[p][Batch(p)] = "landed"
    /\ task' = [task EXCEPT ![p] = "running"]
    /\ next' = [next EXCEPT ![p] = @ + 1]
    /\ UNCHANGED <<row, work, airtable, lost>>

\* Mutant: a batch that failed is passed over.
BatchFailsGoesOn(p) ==
    /\ task[p] = "waiting"
    /\ task' = [task EXCEPT ![p] = "running"]
    /\ next' = [next EXCEPT ![p] = @ + 1]
    /\ UNCHANGED <<row, work, airtable, lost>>

\* A refusal, a timeout or a lost answer ends the executor where it stands.
BatchFails(p) ==
    /\ task[p] = "waiting"
    /\ task' = [task EXCEPT ![p] = "failing"]
    /\ UNCHANGED <<row, work, next, airtable, lost>>

\* mark_executed, by the row's id alone; the result replaces the payload.
MarkExecuted(p) ==
    /\ task[p] = "running"
    /\ next[p] > Batches[work[p]]
    /\ status' = [status EXCEPT ![p] = "executed"]
    /\ payload' = [payload EXCEPT ![p] = "result"]
    /\ task' = [task EXCEPT ![p] = "none"]
    /\ UNCHANGED <<granted, work, next, airtable, lost>>

\* mark_executed raises, before its commit or after it: _run_executor takes
\* this for a failure of the executor.
MarkExecutedRaises(p, committed) ==
    /\ task[p] = "running"
    /\ next[p] > Batches[work[p]]
    /\ IF committed
       THEN /\ status' = [status EXCEPT ![p] = "executed"]
            /\ payload' = [payload EXCEPT ![p] = "result"]
       ELSE UNCHANGED <<status, payload>>
    /\ task' = [task EXCEPT ![p] = "failing"]
    /\ UNCHANGED <<granted, work, next, airtable, lost>>

\* Mutant: the failure is logged and not recorded.
MarkFailedForgets(p) ==
    /\ task[p] = "failing"
    /\ task' = [task EXCEPT ![p] = "none"]
    /\ UNCHANGED <<row, work, next, airtable, lost>>

\* mark_failed, by the row's id alone.
MarkFailed(p) ==
    /\ task[p] = "failing"
    /\ status' = [status EXCEPT ![p] = "failed"]
    /\ task' = [task EXCEPT ![p] = "none"]
    /\ UNCHANGED <<payload, granted, work, next, airtable, lost>>

\* mark_failed raises, and nothing is left to catch it.
MarkFailedRaises(p) ==
    /\ task[p] = "failing"
    /\ task' = [task EXCEPT ![p] = "none"]
    /\ lost' = lost \cup {p}
    /\ UNCHANGED <<row, work, next, airtable>>

\* The process ends: its background tasks are gone, and nothing takes them up
\* again.
ProcessDies ==
    /\ task' = [p \in Proposal |-> "none"]
    /\ lost' = lost \cup {p \in Proposal : task[p] # "none"}
    /\ UNCHANGED <<row, work, next, airtable>>

Inbox(p) == Reject(p) \/ \E e \in BOOLEAN : Approve(p, e) \/ ApproveRaises(p, e)

Executor(p) ==
    \/ SendBatch(p)
    \/ BatchAnswered(p)
    \/ BatchFails(p)
    \/ MarkExecuted(p)
    \/ \E committed \in BOOLEAN : MarkExecutedRaises(p, committed)
    \/ MarkFailed(p)
    \/ MarkFailedRaises(p)

Airtable(p) == \E s \in Slot : AirtableCreates(p, s) \/ AirtableRefuses(p, s)

Next ==
    \/ \E p \in Proposal : Inbox(p) \/ Executor(p) \/ Airtable(p)
    \/ ProcessDies

Spec == Init /\ [][Next]_vars
=============================================================================
