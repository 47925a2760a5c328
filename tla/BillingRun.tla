------------------------------ MODULE BillingRun ------------------------------
(***************************************************************************)
(* The monthly billing run: the ledger in Postgres, the planner that       *)
(* writes it, the operators who review it, the clicks that draft invoices  *)
(* in Harvest one row at a time, and Harvest itself.                       *)
(*                                                                         *)
(* A ledger row is identified by its run and its billing group: the        *)
(* planner writes at most one row per active group per run.  A database    *)
(* transaction is one action, taking effect where it commits; a handler    *)
(* that uses several transactions, or that waits for Harvest, is several.  *)
(* So are the statements of one transaction where another may commit       *)
(* between them and what was read decides what is written: the counts      *)
(* behind a run's status, and the checks before a run is closed or         *)
(* abandoned.  Such a transaction holds the locks the code takes, its      *)
(* writes show when it commits, and one that is rolled back (or that       *)
(* Postgres picks as the victim of a deadlock) is one that never began.    *)
(*                                                                         *)
(* A worker is one call of `execute_run`: one click on "Create drafts in   *)
(* Harvest".  Names of actions follow the functions of                     *)
(* app/services/billing.                                                   *)
(***************************************************************************)
EXTENDS Integers, FiniteSets

CONSTANTS
    Run,              \* identities of the monthly runs that may be planned
    Group,            \* billing groups
    Month,            \* run months
    Worker,           \* concurrent calls of execute_run
    PlaceholderGroup, \* recurring groups that carry a placeholder line
    Finding,          \* what the planner may find about a group (see Plan)
    OperatorWaits,    \* resolutions nobody enters while the row's click or POST runs
    LateReviews,      \* TRUE: a call about a row may act on an old run status
    None              \* no run, no group, no month

ASSUME BillingAssumption ==
    /\ None \notin Run \cup Group \cup Month
    /\ PlaceholderGroup \subseteq Group
    /\ Finding \subseteq {"absent", "nothing", "clean", "error"}
    /\ OperatorWaits \subseteq {"created", "failed"}
    /\ LateReviews \in BOOLEAN

VARIABLES
    runStatus,  \* billing_runs.status, "none" before the run is planned
    runMonth,   \* billing_runs.run_month
    item,       \* billing_run_items.status, "none" where there is no row
    rejected,   \* groups whose row has rejected_by set
    override,   \* groups whose row has error_override set on an error flag
    flag,       \* worst flag on the row: "none", "error" or "blocking"
    undecided,  \* groups whose row shows an unresolved placeholder line
    resolved,   \* recurring_line_item_resolutions, keyed by month
    post,       \* what the network and Harvest did with the row's POST
    invoices,   \* invoices that exist in Harvest because of the row
    pc,         \* where each worker is
    at,         \* the run a worker executes
    todo,       \* rest of the worker's work list
    cur,        \* the group a worker is drafting
    derived,    \* run status a worker has counted and not yet written
    desk,       \* what the transaction that locked the run has come to (see Desk)
    closing,    \* rows a closing transaction has rejected and not yet committed
    resolving   \* outcomes entered by hand and not yet committed

ledger == <<runStatus, runMonth, item, rejected, override, flag, undecided,
            resolved>>
harvest == <<post, invoices>>
worker == <<pc, at, todo, cur, derived>>
open == <<desk, closing, resolving>>
vars == <<runStatus, runMonth, item, rejected, override, flag, undecided,
          resolved, post, invoices, pc, at, todo, cur, derived, desk, closing,
          resolving>>

RunStatus == {"planning", "awaiting_approval", "executing", "completed",
              "failed", "abandoned"}
ItemStatus == {"planned", "approved", "skipped", "in_flight", "created",
               "failed", "abandoned"}

ReviewableRun == {"planning", "awaiting_approval"}
RejectableRun == {"planning", "awaiting_approval", "executing"}
CloseableRun == {"awaiting_approval", "executing"}
StartableRun == {"awaiting_approval", "executing"}
ReviewableItem == {"planned", "approved"}

\* _load_item: a call about one row locks the row, not its run, and goes by the
\* status the run had when the call looked; it commits later.
SeenIn(r, statuses) ==
    \/ runStatus[r] \in statuses
    \/ LateReviews /\ runStatus[r] # "none"

\* Statuses that occupy the group's slot in billing_run_items_one_live_per_month.
Live == ItemStatus \ {"failed", "skipped", "abandoned"}

\* Statuses of a row that was attempted in Harvest.
Attempted == {"created", "in_flight", "failed"}

\* Post states: nothing was sent; the request is on its way or being worked on;
\* Harvest has created the invoice; Harvest has refused it.
PostState == {"none", "sent", "accepted", "refused"}

WorkerState == {"idle", "loop", "locked", "waiting", "write"}

\* A run's row is free, or locked by a transaction that has found the run fit
\* to be abandoned or closed, or has closed it and counted a status to write.
Desk == {"free", "abandoning", "closing"} \cup RunStatus

\* The outcome a resolution gives a row, and the status it counted for the run.
Resolution == [row : {"created", "failed"}, run : RunStatus]

(***************************************************************************)
(* Operators on the ledger.                                                *)
(***************************************************************************)

\* Mutant: rows in flight are forgotten.
SettleStatusBlind(row) ==
    LET has(S) == \E g \in Group : row[g] \in S
    IN  IF has({"approved"}) THEN "executing"
        ELSE IF has({"planned"}) THEN "awaiting_approval"
        ELSE IF has({"failed"}) THEN "failed"
        ELSE "completed"

\* The status settle_run_status derives from the statuses of a run's rows.
SettleStatus(row) ==
    LET has(S) == \E g \in Group : row[g] \in S
    IN  IF has({"in_flight", "approved"}) THEN "executing"
        ELSE IF has({"planned"}) THEN "awaiting_approval"
        ELSE IF has({"failed"}) THEN "failed"
        ELSE "completed"

\* Mutant: no unique index on the slot.
SlotFreeAlways(r, g) == TRUE

\* No other row of the month is live for the group, so the unique index lets
\* this one become live.
SlotFree(r, g) ==
    \A x \in Run \ {r} : runMonth[x] = runMonth[r] => item[x][g] \notin Live

UnresolvedInFlight(g) == \E x \in Run : item[x][g] = "in_flight"

CreatedThisMonth(g, m) ==
    \E x \in Run : runMonth[x] = m /\ item[x][g] = "created"

\* What the gate of approval asks of a row, given the override it would have.
Approvable(r, g, over) ==
    /\ flag[r][g] # "blocking"
    /\ g \notin undecided[r]
    /\ flag[r][g] = "error" => over

\* A click holds the row: it has taken its lock and has not recorded an outcome.
Holds(w, r, g) == pc[w] \in {"locked", "waiting"} /\ at[w] = r /\ cur[w] = g

\* A transaction that has not committed has updated the row: whoever wants to
\* write it waits.
Locked(r, g) == g \in closing[r] \/ resolving[r][g] # None

Init ==
    /\ runStatus = [r \in Run |-> "none"]
    /\ runMonth = [r \in Run |-> None]
    /\ item = [r \in Run |-> [g \in Group |-> "none"]]
    /\ rejected = [r \in Run |-> {}]
    /\ override = [r \in Run |-> {}]
    /\ flag = [r \in Run |-> [g \in Group |-> "none"]]
    /\ undecided = [r \in Run |-> {}]
    /\ resolved = [m \in Month |-> {}]
    /\ post = [r \in Run |-> [g \in Group |-> "none"]]
    /\ invoices = [r \in Run |-> [g \in Group |-> 0]]
    /\ pc = [w \in Worker |-> "idle"]
    /\ at = [w \in Worker |-> None]
    /\ todo = [w \in Worker |-> {}]
    /\ cur = [w \in Worker |-> None]
    /\ derived = [w \in Worker |-> None]
    /\ desk = [r \in Run |-> "free"]
    /\ closing = [r \in Run |-> {}]
    /\ resolving = [r \in Run |-> [g \in Group |-> None]]

(***************************************************************************)
(* Planning.                                                               *)
(***************************************************************************)

\* Mutant: a re-plan also sweeps the rows that failed.
SweptWithFailed(x, m) ==
    [g \in Group |->
       IF runMonth[x] = m /\ item[x][g] \in ReviewableItem \cup {"failed"}
       THEN "abandoned" ELSE item[x][g]]

\* A re-plan abandons the undecided and the approved rows of the month.
Swept(x, m) ==
    [g \in Group |-> IF runMonth[x] = m /\ item[x][g] \in ReviewableItem
                     THEN "abandoned" ELSE item[x][g]]

\* Mutant: a run that lost rows is abandoned whatever it attempted.
SweptStatusForgetful(x, m) ==
    IF Swept(x, m) = item[x] THEN runStatus[x]
    ELSE IF runStatus[x] \in {"planning", "awaiting_approval"} THEN "abandoned"
    ELSE SettleStatus(Swept(x, m))

\* A run that lost rows to the sweep is abandoned if it never attempted
\* anything, and settled from what is left otherwise.
SweptStatus(x, m) ==
    IF Swept(x, m) = item[x] THEN runStatus[x]
    ELSE IF /\ runStatus[x] \in {"planning", "awaiting_approval"}
            /\ \A g \in Group : item[x][g] \notin Attempted
    THEN "abandoned"
    ELSE SettleStatus(Swept(x, m))

\* The row written for a group: none for a manual group, a skipped one when
\* there is nothing to bill or the ledger forbids billing it, else a planned one.
PlannedRow(g, m, found) ==
    IF found = "absent" THEN "none"
    ELSE IF /\ found \in {"clean", "error"}
            /\ ~UnresolvedInFlight(g)
            /\ ~CreatedThisMonth(g, m)
    THEN "planned"
    ELSE "skipped"

PlannedFlag(g, found) ==
    IF found \in {"clean", "error"} /\ UnresolvedInFlight(g) THEN "blocking"
    ELSE IF found = "error" THEN "error"
    ELSE "none"

\* plan_run: sweep the month, insert a run, write one row per active group.
\* "absent" is an inactive or manual group, "nothing" a group with nothing to
\* bill on a monthly run, "error" one with an error-severity flag.
Plan(r, m, found) ==
    /\ runStatus[r] = "none"
    /\ \A x \in Run : Swept(x, m) # item[x] => desk[x] = "free"
    /\ runStatus' = [x \in Run |-> IF x = r THEN "awaiting_approval"
                                   ELSE SweptStatus(x, m)]
    /\ runMonth' = [runMonth EXCEPT ![r] = m]
    /\ item' = [x \in Run |->
                  IF x = r THEN [g \in Group |-> PlannedRow(g, m, found[g])]
                  ELSE Swept(x, m)]
    /\ flag' = [flag EXCEPT ![r] = [g \in Group |-> PlannedFlag(g, found[g])]]
    /\ undecided' = [undecided EXCEPT ![r] =
                       {g \in PlaceholderGroup \ resolved[m] :
                           PlannedRow(g, m, found[g]) = "planned"}]
    /\ UNCHANGED <<rejected, override, resolved, harvest, worker, open>>

\* abandon_run up to its check: the run is locked, and no row was attempted.
AbandonCheck(r) ==
    /\ desk[r] = "free"
    /\ runStatus[r] \in {"planning", "awaiting_approval"}
    /\ \A g \in Group : item[r][g] \notin Attempted
    /\ desk' = [desk EXCEPT ![r] = "abandoning"]
    /\ UNCHANGED <<ledger, harvest, worker, closing, resolving>>

\* Its updates: the plan is thrown away with the rows still open in it.  The
\* rows were not locked, so one may have been taken since the check.
AbandonWrite(r) ==
    /\ desk[r] = "abandoning"
    /\ item' = [item EXCEPT ![r] =
                  [g \in Group |-> IF item[r][g] \in ReviewableItem
                                   THEN "abandoned" ELSE item[r][g]]]
    /\ runStatus' = [runStatus EXCEPT ![r] = "abandoned"]
    /\ desk' = [desk EXCEPT ![r] = "free"]
    /\ UNCHANGED <<runMonth, rejected, override, flag, undecided, resolved,
                   harvest, worker, closing, resolving>>

(***************************************************************************)
(* Review.                                                                 *)
(***************************************************************************)

\* set_item_approval.  `approve` and `over` are what the call leaves the row
\* with: the value the row already has stands for an argument not given.  Only
\* the override of an error flag is recorded; on a row without one it has no
\* effect, and on a blocking flag it is refused.
SetItemApproval(r, g, approve, over) ==
    /\ ~Locked(r, g)
    /\ SeenIn(r, ReviewableRun)
    /\ item[r][g] \in ReviewableItem
    /\ over => flag[r][g] = "error"
    /\ approve /\ item[r][g] = "planned" => Approvable(r, g, over)
    /\ item' = [item EXCEPT ![r][g] = IF approve THEN "approved" ELSE "planned"]
    /\ override' = [override EXCEPT ![r] = IF over THEN @ \cup {g} ELSE @ \ {g}]
    /\ UNCHANGED <<runStatus, runMonth, rejected, flag, undecided, resolved,
                   harvest, worker, open>>

\* set_item_rejection(rejected=True): decided against, and out of the slot.
RejectItem(r, g) ==
    /\ ~Locked(r, g)
    /\ SeenIn(r, RejectableRun)
    /\ item[r][g] \in ReviewableItem
    /\ item' = [item EXCEPT ![r][g] = "skipped"]
    /\ rejected' = [rejected EXCEPT ![r] = @ \cup {g}]
    /\ UNCHANGED <<runStatus, runMonth, override, flag, undecided, resolved,
                   harvest, worker, open>>

\* set_item_rejection(rejected=False): only of an operator's own rejection,
\* and only while the unique index finds the slot free.
UnrejectItem(r, g) ==
    /\ SeenIn(r, RejectableRun)
    /\ item[r][g] = "skipped"
    /\ g \in rejected[r]
    /\ SlotFree(r, g)
    /\ item' = [item EXCEPT ![r][g] = "planned"]
    /\ rejected' = [rejected EXCEPT ![r] = @ \ {g}]
    /\ UNCHANGED <<runStatus, runMonth, override, flag, undecided, resolved,
                   harvest, worker, open>>

\* set_all_approvals(approved=True): approve whatever is approvable as it is.
ApproveAll(r) ==
    /\ desk[r] = "free"
    /\ runStatus[r] \in ReviewableRun
    /\ item' = [item EXCEPT ![r] =
                  [g \in Group |->
                     IF item[r][g] = "planned" /\ Approvable(r, g, g \in override[r])
                     THEN "approved" ELSE item[r][g]]]
    /\ UNCHANGED <<runStatus, runMonth, rejected, override, flag, undecided,
                   resolved, harvest, worker, open>>

\* set_all_approvals(approved=False).
ClearApprovals(r) ==
    /\ desk[r] = "free"
    /\ runStatus[r] \in ReviewableRun
    /\ item' = [item EXCEPT ![r] =
                  [g \in Group |-> IF item[r][g] = "approved" THEN "planned"
                                   ELSE item[r][g]]]
    /\ UNCHANGED <<runStatus, runMonth, rejected, override, flag, undecided,
                   resolved, harvest, worker, open>>

\* close_run up to its checks: the run is locked, has drafted something, and
\* no row of it is in flight.
CloseCheck(r) ==
    /\ desk[r] = "free"
    /\ runStatus[r] \in CloseableRun
    /\ \A g \in Group : item[r][g] # "in_flight"
    /\ \E g \in Group : item[r][g] \in {"created", "failed"}
    /\ desk' = [desk EXCEPT ![r] = "closing"]
    /\ UNCHANGED <<ledger, harvest, worker, closing, resolving>>

\* It rejects the remainder, whatever that is by now, and counts the rows.
CloseCount(r) ==
    LET rest == {g \in Group : item[r][g] \in ReviewableItem}
    IN  /\ desk[r] = "closing"
        /\ closing' = [closing EXCEPT ![r] = rest]
        /\ desk' = [desk EXCEPT ![r] =
                      SettleStatus([g \in Group |-> IF g \in rest THEN "skipped"
                                                    ELSE item[r][g]])]
        /\ UNCHANGED <<ledger, harvest, worker, resolving>>

\* It writes the status the count called for, and commits.
CloseWrite(r) ==
    /\ desk[r] \in RunStatus
    /\ item' = [item EXCEPT ![r] = [g \in Group |-> IF g \in closing[r] THEN "skipped"
                                                    ELSE item[r][g]]]
    /\ rejected' = [rejected EXCEPT ![r] = @ \cup closing[r]]
    /\ runStatus' = [runStatus EXCEPT ![r] = desk[r]]
    /\ closing' = [closing EXCEPT ![r] = {}]
    /\ desk' = [desk EXCEPT ![r] = "free"]
    /\ UNCHANGED <<runMonth, override, flag, undecided, resolved, harvest, worker,
                   resolving>>

\* placeholders._guard.
PlaceholderEditable(r, g) ==
    /\ g \in PlaceholderGroup
    /\ ~Locked(r, g)
    /\ SeenIn(r, ReviewableRun)
    /\ item[r][g] \in ReviewableItem

\* set_resolution: price the line or omit it for the month.  The payload has
\* changed, so an approval of the old one is withdrawn.
SetResolution(r, g) ==
    /\ PlaceholderEditable(r, g)
    /\ resolved' = [resolved EXCEPT ![runMonth[r]] = @ \cup {g}]
    /\ undecided' = [undecided EXCEPT ![r] = @ \ {g}]
    /\ item' = [item EXCEPT ![r][g] = "planned"]
    /\ UNCHANGED <<runStatus, runMonth, rejected, override, flag, harvest, worker, open>>

\* Mutant: withdrawing a decision leaves the approval standing.
ClearResolutionKeeps(r, g) ==
    /\ PlaceholderEditable(r, g)
    /\ resolved' = [resolved EXCEPT ![runMonth[r]] = @ \ {g}]
    /\ undecided' = [undecided EXCEPT ![r] = @ \cup {g}]
    /\ UNCHANGED <<runStatus, runMonth, item, rejected, override, flag,
                   harvest, worker, open>>

\* clear_resolution: the line is undecided again.
ClearResolution(r, g) ==
    /\ PlaceholderEditable(r, g)
    /\ resolved' = [resolved EXCEPT ![runMonth[r]] = @ \ {g}]
    /\ undecided' = [undecided EXCEPT ![r] = @ \cup {g}]
    /\ item' = [item EXCEPT ![r][g] = "planned"]
    /\ UNCHANGED <<runStatus, runMonth, rejected, override, flag, harvest, worker, open>>

(***************************************************************************)
(* Execution: one worker per click.                                        *)
(***************************************************************************)

\* _start: the preconditions of a click, and its work list.
Start(w, r) ==
    /\ pc[w] = "idle"
    /\ desk[r] = "free"
    /\ runStatus[r] \in StartableRun
    /\ \A g \in Group : item[r][g] # "in_flight"
    /\ \E g \in Group : item[r][g] = "approved"
    /\ runStatus' = [runStatus EXCEPT ![r] = "executing"]
    /\ pc' = [pc EXCEPT ![w] = "loop"]
    /\ at' = [at EXCEPT ![w] = r]
    /\ todo' = [todo EXCEPT ![w] = {g \in Group : item[r][g] = "approved"}]
    /\ UNCHANGED <<runMonth, item, rejected, override, flag, undecided,
                   resolved, harvest, cur, derived, open>>

\* Mutant: the row is locked without asking again whether it is approved.
TakeLockStale(w, g) ==
    /\ pc[w] = "loop"
    /\ g \in todo[w]
    /\ ~Locked(at[w], g)
    /\ item' = [item EXCEPT ![at[w]][g] = "in_flight"]
    /\ pc' = [pc EXCEPT ![w] = "locked"]
    /\ cur' = [cur EXCEPT ![w] = g]
    /\ todo' = [todo EXCEPT ![w] = @ \ {g}]
    /\ UNCHANGED <<runStatus, runMonth, rejected, override, flag, undecided,
                   resolved, harvest, at, derived, open>>

\* _take_lock, transaction A: the row is re-read under its lock and must still
\* be approved.  The order of the work list is left open.
TakeLock(w, g) ==
    /\ pc[w] = "loop"
    /\ g \in todo[w]
    /\ ~Locked(at[w], g)
    /\ item[at[w]][g] = "approved"
    /\ item' = [item EXCEPT ![at[w]][g] = "in_flight"]
    /\ pc' = [pc EXCEPT ![w] = "locked"]
    /\ cur' = [cur EXCEPT ![w] = g]
    /\ todo' = [todo EXCEPT ![w] = @ \ {g}]
    /\ UNCHANGED <<runStatus, runMonth, rejected, override, flag, undecided,
                   resolved, harvest, at, derived, open>>

\* _take_lock finds the row no longer approved: not an error, just not ours.
SkipItem(w, g) ==
    /\ pc[w] = "loop"
    /\ g \in todo[w]
    /\ ~Locked(at[w], g)
    /\ item[at[w]][g] # "approved"
    /\ todo' = [todo EXCEPT ![w] = @ \ {g}]
    /\ UNCHANGED <<ledger, harvest, pc, at, cur, derived, open>>

\* create_invoice: the POST leaves, after transaction A has committed.
SendPost(w) ==
    /\ pc[w] = "locked"
    /\ post' = [post EXCEPT ![at[w]][cur[w]] = "sent"]
    /\ pc' = [pc EXCEPT ![w] = "waiting"]
    /\ UNCHANGED <<ledger, invoices, at, todo, cur, derived, open>>

\* Harvest creates the invoice: perhaps long after the caller gave up.
HarvestCreates(r, g) ==
    /\ post[r][g] = "sent"
    /\ post' = [post EXCEPT ![r][g] = "accepted"]
    /\ invoices' = [invoices EXCEPT ![r][g] = @ + 1]
    /\ UNCHANGED <<ledger, worker, open>>

\* Harvest refuses the request, or the request never reaches it.
HarvestRefuses(r, g) ==
    /\ post[r][g] = "sent"
    /\ post' = [post EXCEPT ![r][g] = "refused"]
    /\ UNCHANGED <<ledger, invoices, worker, open>>

\* The worker is done with the row it held and goes on with what is left.
NextItem(w, rest) ==
    /\ pc' = [pc EXCEPT ![w] = "loop"]
    /\ cur' = [cur EXCEPT ![w] = None]
    /\ todo' = [todo EXCEPT ![w] = rest]
    /\ UNCHANGED <<at, derived>>

\* execute_run has ended, by its return or by an exception.
Leave(w) ==
    /\ pc' = [pc EXCEPT ![w] = "idle"]
    /\ at' = [at EXCEPT ![w] = None]
    /\ cur' = [cur EXCEPT ![w] = None]
    /\ todo' = [todo EXCEPT ![w] = {}]
    /\ derived' = [derived EXCEPT ![w] = None]

\* _record_created, transaction B.  The update looks at nothing but the id.
RecordCreated(w) ==
    /\ pc[w] = "waiting"
    /\ ~Locked(at[w], cur[w])
    /\ post[at[w]][cur[w]] = "accepted"
    /\ SlotFree(at[w], cur[w])
    /\ item' = [item EXCEPT ![at[w]][cur[w]] = "created"]
    /\ NextItem(w, todo[w])
    /\ UNCHANGED <<runStatus, runMonth, rejected, override, flag, undecided,
                   resolved, harvest, open>>

\* The same update when the slot has been taken meanwhile: the unique index
\* raises, and nothing between here and the router catches it.
RecordCreatedRaises(w) ==
    /\ pc[w] = "waiting"
    /\ ~Locked(at[w], cur[w])
    /\ post[at[w]][cur[w]] = "accepted"
    /\ ~SlotFree(at[w], cur[w])
    /\ Leave(w)
    /\ UNCHANGED <<ledger, harvest, open>>

\* record_failure with fail_run=False: a refusal is a verdict, the loop goes on.
RecordFailure(w) ==
    /\ pc[w] = "waiting"
    /\ ~Locked(at[w], cur[w])
    /\ post[at[w]][cur[w]] = "refused"
    /\ item' = [item EXCEPT ![at[w]][cur[w]] = "failed"]
    /\ NextItem(w, todo[w])
    /\ UNCHANGED <<runStatus, runMonth, rejected, override, flag, undecided,
                   resolved, harvest, open>>

\* Mutant: an unknown outcome is recorded as a failure.
RecordUnknownFails(w) ==
    /\ pc[w] = "waiting"
    /\ ~Locked(at[w], cur[w])
    /\ item' = [item EXCEPT ![at[w]][cur[w]] = "failed"]
    /\ NextItem(w, {})
    /\ UNCHANGED <<runStatus, runMonth, rejected, override, flag, undecided,
                   resolved, harvest, open>>

\* Mutant: the loop goes on after an unknown outcome.
RecordUnknownContinues(w) ==
    /\ pc[w] = "waiting"
    /\ NextItem(w, todo[w])
    /\ UNCHANGED <<ledger, harvest, open>>

\* Mutant: the HTTP client has no timeout.
RecordUnknownPatient(w) ==
    /\ pc[w] = "waiting"
    /\ post[at[w]][cur[w]] # "sent"
    /\ NextItem(w, {})
    /\ UNCHANGED <<ledger, harvest, open>>

\* record_unknown: a timeout, a lost connection or a 5xx.  Nothing is written
\* to the row and the loop stops, whatever Harvest did or will do.
RecordUnknown(w) ==
    /\ pc[w] = "waiting"
    /\ NextItem(w, {})
    /\ UNCHANGED <<ledger, harvest, open>>

\* _finalize, first statement: count the rows, with nothing locked.
FinalizeCount(w) ==
    /\ pc[w] = "loop"
    /\ todo[w] = {}
    /\ derived' = [derived EXCEPT ![w] = SettleStatus(item[at[w]])]
    /\ pc' = [pc EXCEPT ![w] = "write"]
    /\ UNCHANGED <<ledger, harvest, at, todo, cur, open>>

\* _finalize, second statement: write the status the count called for, once
\* nobody has the run locked.
FinalizeWrite(w) ==
    /\ pc[w] = "write"
    /\ desk[at[w]] = "free"
    /\ runStatus' = [runStatus EXCEPT ![at[w]] = derived[w]]
    /\ Leave(w)
    /\ UNCHANGED <<runMonth, item, rejected, override, flag, undecided,
                   resolved, harvest, open>>

\* The process dies, or the database refuses the next statement: the call ends
\* where it stands.  What it committed stays, and so does a POST it has sent.
Die(w) ==
    /\ pc[w] # "idle"
    /\ Leave(w)
    /\ UNCHANGED <<ledger, harvest, open>>

(***************************************************************************)
(* Resolving an in-flight row by hand.                                     *)
(***************************************************************************)

\* The row's POST has been answered, or will never be sent.
PostSettled(r, g) ==
    /\ post[r][g] # "sent"
    /\ \A w \in Worker : ~Holds(w, r, g)

\* resolve_item up to its count: the row is locked and updated, and the run's
\* status derived from the rows as they stand.
Resolve(r, g, outcome) ==
    /\ item[r][g] = "in_flight"
    /\ ~Locked(r, g)
    /\ outcome \in OperatorWaits => PostSettled(r, g)
    /\ resolving' = [resolving EXCEPT ![r][g] =
                       [row |-> outcome,
                        run |-> SettleStatus([item[r] EXCEPT ![g] = outcome])]]
    /\ UNCHANGED <<ledger, harvest, worker, desk, closing>>

\* The operator found the invoice in Harvest.
ResolveLink(r, g) == invoices[r][g] > 0 /\ Resolve(r, g, "created")

\* The operator found none, perhaps looking too soon.
ResolveFailed(r, g) == invoices[r][g] = 0 /\ Resolve(r, g, "failed")

\* It writes the status it counted, which waits for a locked run, and commits.
ResolveWrite(r, g) ==
    /\ resolving[r][g] # None
    /\ desk[r] = "free"
    /\ item' = [item EXCEPT ![r][g] = resolving[r][g].row]
    /\ runStatus' = [runStatus EXCEPT ![r] = resolving[r][g].run]
    /\ resolving' = [resolving EXCEPT ![r][g] = None]
    /\ UNCHANGED <<runMonth, rejected, override, flag, undecided, resolved,
                   harvest, worker, desk, closing>>

Execute(w) ==
    \/ \E g \in Group : TakeLock(w, g) \/ SkipItem(w, g)
    \/ SendPost(w)
    \/ RecordCreated(w)
    \/ RecordCreatedRaises(w)
    \/ RecordFailure(w)
    \/ RecordUnknown(w)
    \/ FinalizeCount(w)
    \/ FinalizeWrite(w)

Review(r, g) ==
    \/ \E approve, over \in BOOLEAN : SetItemApproval(r, g, approve, over)
    \/ RejectItem(r, g)
    \/ UnrejectItem(r, g)
    \/ SetResolution(r, g)
    \/ ClearResolution(r, g)
    \/ ResolveLink(r, g)
    \/ ResolveFailed(r, g)
    \/ ResolveWrite(r, g)

Next ==
    \/ \E r \in Run, m \in Month, found \in [Group -> Finding] : Plan(r, m, found)
    \/ \E r \in Run :
          \/ ApproveAll(r) \/ ClearApprovals(r)
          \/ AbandonCheck(r) \/ AbandonWrite(r)
          \/ CloseCheck(r) \/ CloseCount(r) \/ CloseWrite(r)
    \/ \E r \in Run, g \in Group : Review(r, g)
    \/ \E r \in Run, g \in Group : HarvestCreates(r, g) \/ HarvestRefuses(r, g)
    \/ \E w \in Worker, r \in Run : Start(w, r)
    \/ \E w \in Worker : Execute(w) \/ Die(w)

Spec == Init /\ [][Next]_vars

\* A transaction about a run goes on to its commit.
Commit(r) ==
    \/ AbandonWrite(r) \/ CloseCount(r) \/ CloseWrite(r)
    \/ \E g \in Group : ResolveWrite(r, g)

\* A call of execute_run is never left waiting: every POST is bounded by the
\* HTTP client's timeout, and the rest are local database statements, which
\* wait for no lock but that of a transaction made of such statements.
FairSpec ==
    /\ Spec
    /\ \A w \in Worker : WF_vars(Execute(w))
    /\ \A r \in Run : WF_vars(Commit(r))
=============================================================================
