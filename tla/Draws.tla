--------------------------------- MODULE Draws ---------------------------------
(***************************************************************************)
(* Fixed-fee draws: the payment schedule of one billing group, edited and  *)
(* released by operators and invoiced in Harvest one draw at a time.       *)
(*                                                                         *)
(* A click is one call of `invoice_draw`.  It writes at most one billing   *)
(* run with one ledger row, so run and row are identified by their click.  *)
(*                                                                         *)
(* `save_draws` is two actions, what it reads and what it writes.  It      *)
(* holds the lock of the group meanwhile, which a new ledger row and       *)
(* another edit wait for; `set_release` and the recording of an outcome    *)
(* lock no more than the draw, and come in between.  `set_release` reads   *)
(* and writes under the draw's own lock, and is one action.  A click is    *)
(* many: it computes the preview with nothing locked, commits its row,     *)
(* sends the POST, and records the outcome.                                *)
(***************************************************************************)
EXTENDS Naturals

CONSTANTS
    Draw,           \* identities a draw of the schedule may have
    Click,          \* calls of invoice_draw
    Terms,          \* amount, description, kind and project of a draw
    OperatorWaits,  \* TRUE: nobody marks a row failed while its POST runs
    None            \* no draw, no click, no terms

ASSUME DrawsAssumption ==
    /\ None \notin Draw \cup Click \cup Terms
    /\ OperatorWaits \in BOOLEAN

VARIABLES
    terms,      \* the schedule: terms of each draw in it, None of the others
    retired,    \* draws deleted from the schedule
    edit,       \* the schedule a save_draws has checked and not yet written
    released,   \* draws with released_at set
    invoiced,   \* fixed_fee_schedule_items.invoiced_run_id
    active,     \* billing_groups.is_active
    row,        \* billing_run_items.status of the click's row
    runStatus,  \* billing_runs.status of the click's run
    post,       \* what the network and Harvest did with the click's POST
    invoices,   \* invoices that exist in Harvest because of the click
    pc,         \* where each click is
    target,     \* the draw a click is for, kept by its ledger row
    body        \* the terms in the click's payload, kept by its ledger row

schedule == <<terms, retired, edit, released, active>>
ledger == <<row, runStatus, invoiced>>
harvest == <<post, invoices>>
click == <<pc, target, body>>
vars == <<terms, retired, edit, released, invoiced, active, row, runStatus, post,
          invoices, pc, target, body>>

RowStatus == {"none", "in_flight", "created", "failed"}
RunStatus == {"none", "executing", "completed", "failed"}
PostState == {"none", "sent", "accepted", "refused"}
ClickState == {"idle", "quoted", "locked", "waiting", "done"}

Live == {"in_flight", "created"}

Scheduled(d) == terms[d] # None

RowsOf(d) == {c \in Click : target[c] = d /\ row[c] # "none"}

HasLiveRow(d) == \E c \in RowsOf(d) : row[c] \in Live

\* The derived state `ready`, in an active group: what preview calls billable.
Billable(d) ==
    /\ Scheduled(d)
    /\ invoiced[d] = None
    /\ ~HasLiveRow(d)
    /\ d \in released
    /\ active

\* Mutant: no unique index.
SlotFreeAlways(c) == TRUE

\* billing_run_items_one_live_per_draw lets the click's row be live.
SlotFree(c) == \A x \in RowsOf(target[c]) \ {c} : row[x] \notin Live

Init ==
    /\ terms = [d \in Draw |-> None]
    /\ retired = {}
    /\ edit = {}
    /\ released = {}
    /\ invoiced = [d \in Draw |-> None]
    /\ active = TRUE
    /\ row = [c \in Click |-> "none"]
    /\ runStatus = [c \in Click |-> "none"]
    /\ post = [c \in Click |-> "none"]
    /\ invoices = [c \in Click |-> 0]
    /\ pc = [c \in Click |-> "idle"]
    /\ target = [c \in Click |-> None]
    /\ body = [c \in Click |-> None]

(***************************************************************************)
(* Configuration and release.                                              *)
(***************************************************************************)

\* Mutant: a live row does not hold its draw.
AcceptableUnlessInvoiced(submitted) ==
    /\ \A d \in Draw : Scheduled(d) /\ invoiced[d] # None => submitted[d] = terms[d]
    /\ \A d \in retired : submitted[d] = None

\* What a schedule may be that replaces the present one: a draw that is
\* invoiced or has a live row is resubmitted as it is, and a deleted draw never
\* comes back under its id.
Acceptable(submitted) ==
    /\ \A d \in Draw :
          Scheduled(d) /\ (invoiced[d] # None \/ HasLiveRow(d)) => submitted[d] = terms[d]
    /\ \A d \in retired : submitted[d] = None

\* save_draws locks the group, and reads and checks the schedule.
BeginEdit(submitted) ==
    /\ edit = {}
    /\ Acceptable(submitted)
    /\ edit' = {submitted}
    /\ UNCHANGED <<terms, retired, released, active, ledger, harvest, click>>

\* It writes what it checked, all or nothing, and looks at no draw again; only
\* a draw that some row references cannot be deleted.
SaveEdit ==
    \E submitted \in edit :
        LET dropped == {d \in Draw : Scheduled(d) /\ submitted[d] = None}
        IN  /\ \A d \in dropped : RowsOf(d) = {}
            /\ terms' = submitted
            /\ retired' = retired \cup dropped
            /\ released' = released \ dropped
            /\ edit' = {}
            /\ UNCHANGED <<active, ledger, harvest, click>>

\* The edit is refused by a foreign key, or its connection is lost.
DropEdit ==
    /\ edit # {}
    /\ edit' = {}
    /\ UNCHANGED <<terms, retired, released, active, ledger, harvest, click>>

\* set_release(released=True): the client has accepted the milestone.
Release(d) ==
    /\ Scheduled(d)
    /\ invoiced[d] = None
    /\ released' = released \cup {d}
    /\ UNCHANGED <<terms, retired, edit, active, ledger, harvest, click>>

\* set_release(released=False).
Withdraw(d) ==
    /\ Scheduled(d)
    /\ invoiced[d] = None
    /\ ~HasLiveRow(d)
    /\ released' = released \ {d}
    /\ UNCHANGED <<terms, retired, edit, active, ledger, harvest, click>>

\* deactivate_group updates the group, and so waits for an edit of it.
Deactivate ==
    /\ edit = {}
    /\ active' = FALSE
    /\ UNCHANGED <<terms, retired, edit, released, ledger, harvest, click>>

(***************************************************************************)
(* invoice_draw.                                                           *)
(***************************************************************************)

\* The operator clicks: the preview is computed again, whatever was looked at
\* before, on a connection that is given back before transaction A.
Quote(c, d) ==
    /\ pc[c] = "idle"
    /\ Billable(d)
    /\ pc' = [pc EXCEPT ![c] = "quoted"]
    /\ target' = [target EXCEPT ![c] = d]
    /\ body' = [body EXCEPT ![c] = terms[d]]
    /\ UNCHANGED <<schedule, ledger, harvest>>

\* Transaction A: run and row are inserted and committed, unless the unique
\* index finds another live row, or the foreign key no draw.  Its foreign key to
\* the group waits for an edit of it.
LockDraw(c) ==
    /\ pc[c] = "quoted"
    /\ edit = {}
    /\ Scheduled(target[c])
    /\ SlotFree(c)
    /\ row' = [row EXCEPT ![c] = "in_flight"]
    /\ runStatus' = [runStatus EXCEPT ![c] = "executing"]
    /\ pc' = [pc EXCEPT ![c] = "locked"]
    /\ UNCHANGED <<schedule, invoiced, harvest, target, body>>

\* The call ends where it stands: refused before or by transaction A, or the
\* process died.  What it committed stays, and so does a POST it has sent.
GiveUp(c) ==
    /\ pc[c] \notin {"idle", "done"}
    /\ pc' = [pc EXCEPT ![c] = "done"]
    /\ UNCHANGED <<schedule, ledger, harvest, target, body>>

\* The POST leaves, after transaction A.
SendPost(c) ==
    /\ pc[c] = "locked"
    /\ post' = [post EXCEPT ![c] = "sent"]
    /\ pc' = [pc EXCEPT ![c] = "waiting"]
    /\ UNCHANGED <<schedule, ledger, invoices, target, body>>

HarvestCreates(c) ==
    /\ post[c] = "sent"
    /\ post' = [post EXCEPT ![c] = "accepted"]
    /\ invoices' = [invoices EXCEPT ![c] = @ + 1]
    /\ UNCHANGED <<schedule, ledger, click>>

HarvestRefuses(c) ==
    /\ post[c] = "sent"
    /\ post' = [post EXCEPT ![c] = "refused"]
    /\ UNCHANGED <<schedule, ledger, invoices, click>>

\* The row becomes created and its draw invoiced, together.
Consume(c) ==
    /\ row' = [row EXCEPT ![c] = "created"]
    /\ invoiced' = [invoiced EXCEPT ![target[c]] = c]
    /\ runStatus' = [runStatus EXCEPT ![c] = "completed"]

\* Transaction B.  It asks nothing of the row's status; only the unique index
\* can make it fail, and then the call ends like any other.
RecordCreated(c) ==
    /\ pc[c] = "waiting"
    /\ post[c] = "accepted"
    /\ SlotFree(c)
    /\ Consume(c)
    /\ pc' = [pc EXCEPT ![c] = "done"]
    /\ UNCHANGED <<schedule, harvest, target, body>>

\* record_failure with fail_run=True: Harvest has refused.
RecordFailure(c) ==
    /\ pc[c] = "waiting"
    /\ post[c] = "refused"
    /\ row' = [row EXCEPT ![c] = "failed"]
    /\ runStatus' = [runStatus EXCEPT ![c] = "failed"]
    /\ pc' = [pc EXCEPT ![c] = "done"]
    /\ UNCHANGED <<schedule, invoiced, harvest, target, body>>

\* Mutant: no verdict is recorded as a failure.
RecordUnknownFails(c) ==
    /\ pc[c] = "waiting"
    /\ row' = [row EXCEPT ![c] = "failed"]
    /\ runStatus' = [runStatus EXCEPT ![c] = "failed"]
    /\ pc' = [pc EXCEPT ![c] = "done"]
    /\ UNCHANGED <<schedule, invoiced, harvest, target, body>>

\* record_unknown: no verdict in time.  Nothing is written, and the operator is
\* told that the draw is locked.
RecordUnknown(c) ==
    /\ pc[c] = "waiting"
    /\ pc' = [pc EXCEPT ![c] = "done"]
    /\ UNCHANGED <<schedule, ledger, harvest, target, body>>

(***************************************************************************)
(* resolve_item on a draw's row.                                           *)
(***************************************************************************)

\* Mutant: linking settles the row and the run and forgets the draw.
ResolveLinkForgets(c) ==
    /\ row[c] = "in_flight"
    /\ invoices[c] > 0
    /\ row' = [row EXCEPT ![c] = "created"]
    /\ runStatus' = [runStatus EXCEPT ![c] = "completed"]
    /\ UNCHANGED <<schedule, invoiced, harvest, click>>

\* The operator found the invoice in Harvest.
ResolveLink(c) ==
    /\ row[c] = "in_flight"
    /\ invoices[c] > 0
    /\ Consume(c)
    /\ UNCHANGED <<schedule, harvest, click>>

\* The operator found none, perhaps looking too soon.
ResolveFailed(c) ==
    /\ row[c] = "in_flight"
    /\ invoices[c] = 0
    /\ OperatorWaits => pc[c] \notin {"locked", "waiting"} /\ post[c] # "sent"
    /\ row' = [row EXCEPT ![c] = "failed"]
    /\ runStatus' = [runStatus EXCEPT ![c] = "failed"]
    /\ UNCHANGED <<schedule, invoiced, harvest, click>>

Invoice(c) ==
    \/ \E d \in Draw : Quote(c, d)
    \/ LockDraw(c)
    \/ GiveUp(c)
    \/ SendPost(c)
    \/ RecordCreated(c)
    \/ RecordFailure(c)
    \/ RecordUnknown(c)

Next ==
    \/ \E submitted \in [Draw -> Terms \cup {None}] : BeginEdit(submitted)
    \/ SaveEdit
    \/ DropEdit
    \/ \E d \in Draw : Release(d) \/ Withdraw(d)
    \/ Deactivate
    \/ \E c \in Click :
          \/ Invoice(c)
          \/ HarvestCreates(c)
          \/ HarvestRefuses(c)
          \/ ResolveLink(c)
          \/ ResolveFailed(c)

Spec == Init /\ [][Next]_vars
=============================================================================
