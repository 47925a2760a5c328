# Verification of the revenue agent

TLA+ specifications, TLC model checks and TLAPS proofs for the parts of the
revenue agent that move money (the monthly billing run and the configuration it
is planned from, fixed-fee draws, the Harvest client they share, the dates of an
invoice, revenue recognition) and for the assistant beside them: chat turns,
agents with tools, and the approvals that stand between a tool and Airtable.

The program is a FastAPI service (`app/`) over Postgres (`supabase/migrations`)
that plans invoices from Harvest time, has people review them, drafts them in
Harvest one at a time, and books revenue month by month. A chat with agents sits
beside it. It runs as one process with one event loop, but not alone: two
operators click at once, a deploy overlaps the old process with the new one, and
Harvest, Airtable and the language model answer late, twice or not at all.

## 1. Inventory

| Part (source) | State | Operations | What makes it correct |
|---|---|---|---|
| Monthly billing run (`services/billing/planner, review, execute, write_protocol, inflight, duplicate_guard`) | `billing_runs`, `billing_run_items`, invoices in Harvest | plan, abandon, approve, override, reject, un-reject, approve all, close, execute (lock, POST, record, finalize), resolve | at most one invoice per group and month, none that no row accounts for, a run's status says what its rows say |
| Placeholder resolutions (`placeholders.py`) | `recurring_line_item_resolutions` | set, clear | an undecided amount is never sent |
| Fixed-fee draws (`draws.py`) | `fixed_fee_schedule_items`, and an off-cycle run and row per click | save schedule, release, withdraw, invoice, resolve | a milestone is billed once, with the terms in the schedule, and consumed together with its row |
| Revenue runs (`revenue_run, revenue_ledger, revenue_config, revenue`) | `revenue_runs`, `revenue_entries`, `project_revenue_config` | plan, override, finalize, abandon, delete, configure | each month is closed once and the ledger adds up to the cumulative figure |
| Client exclusions (`client_exclusions.py`) | `excluded_harvest_clients` | exclude, include | an excluded client that is billed all the same is announced |
| Billing groups (`groups.py`, `recurring.py`) | groups, projects, recurring lines | create, update, deactivate | one active group per project; a removed line stays removed; the decisions about the others survive a save |
| Reconciliation (`reconcile.py`) | none of its own | the report that a plan and the config screen show | every live project is billed or reported |
| Harvest snapshot (`harvest_snapshot.py`) | `harvest_projects` and other reference tables | refresh | never deletes, so the planners see archived and moved projects |
| Invoice arithmetic (`dates, rates, estimator, payload`, `revenue.calc_revenue`) | none of its own; time entries in Harvest, the dates of a row | estimate, import, date, date again at the draft | periods tile the calendar, no time lost silently or billed unseen, the client has the agreed days, rounding adds up |
| Harvest client (`integrations/harvest*.py`) | two token buckets | acquire, penalize, GET, POST | budgets respected, a POST is repeated only after a 429 |
| Chat (`chat_turn.py`, `chat_sessions.py`, `routers/chat.py`) | `chat_messages`, in-memory turns | send, stream, finalize, delete session, start-up cleanup | a turn ends in one final row that stays; no turn is let in beside one at work; the model is given the end of the conversation |
| Approvals (`approvals.py`, `routers/approvals.py`, `executors/`) | `approvals`, records in Airtable | approve, reject, execute (no agent carries the tool that proposes) | nothing is written without a human, as the human granted it, and no part twice |
| Agents and tools (`orchestrator/`, `agents/`) | calls in progress, `audit_log`, `agent_messages` | loop around a model, dispatch a tool, delegate | a delegated task comes back; what the audit log opens it closes |
| Language model, Forecast, Airtable sync, contracts, settings, catalog, audit, auth, UI, scripts | snapshots and logs | I/O and formatting | not modelled, see section 8 |


### How the parts meet

- The planner and the operators write `billing_run_items`; a click on "Create
  drafts in Harvest" (`execute_run`) reads the approved ones and takes them one
  by one: transaction A marks the row `in_flight` and commits, the invoice is
  POSTed with nothing locked, transaction B records the outcome. `invoice_draw`
  does the same for one draw.
- Both POST through `integrations/harvest.py`, which retries on 429 and on
  nothing else, and waits for a token of the limiter before every attempt. What
  the two writers believe about a row (failed, created, unknown) is what that
  client tells them.
- The partial unique indexes on live rows and live runs are the only thing two
  transactions agree on without a lock.
- The revenue planner reads vendors outside its transaction and the ledger, the
  configuration and the roster inside it, statement by statement.
- `plan_run` reads the configuration in a series of statements on the pool, with
  a sweep of Harvest among them, while groups are saved and deactivated.
- A chat turn runs in a task detached from its request; the two share a row and
  a queue. Inside it the front door calls tools; `ask_agent` runs another agent
  in the same way, one level down.
- What a tool once proposed is a row of `approvals`: a person grants it in the
  inbox, and a background task of that request writes to Airtable. Since
  ADR-0004 no agent carries a tool that proposes (`tests/test_no_agent_approval_tools.py`),
  so agents and the inbox share the process they run in and nothing else.

### What is hard

Two clicks that overlap; an operator who resolves a row while the click that
wrote it still waits; a process that dies between transaction A, the POST and
transaction B; an answer that never comes; a month planned again in between;
statements of one transaction that see different commits; a form that was open
while somebody else saved; half of a proposal in Airtable when the other half
times out; a start-up that runs while the previous process still works; a count
of rows that decides a status after the rows have moved on. `PROJECT.json` lists
each hazard at its line with the properties that would catch it.

## 2. Modules

| Module | Models | Proofs |
|---|---|---|
| `InvoiceSlot` | what the ledger promises of one slot (a group's month, a draw): claimed, created in Harvest, billed, released; never two invoices | |
| `BillingRun`, `BillingRunProps`, `MCBillingRun` | planner, review, execution and resolution of monthly runs, with Harvest | `BillingRunProof` |
| `Draws`, `DrawsProps`, `MCDraws` | schedule, release and invoicing of fixed-fee draws | `DrawsProof` |
| `HarvestClient`, `HarvestClientProps` | token bucket, penalties, POST with retries | `HarvestClientProof` |
| `BillingGroups` | groups, their projects, lines and decisions; the snapshot and the exclusions | in `GroupPlanProof` |
| `GroupPlan`, `GroupPlanProps`, `MCGroupPlan` | a plan that reads all that statement by statement while people edit it | `GroupPlanProof` |
| `InvoiceCalendar`, `InvoiceCalendarProps`, `MCInvoiceCalendar` | periods, dates, time and recurring lines of one group over its months | `InvoiceCalendarProof` |
| `RevenueLedger` | what the revenue ledger promises its readers: months are closed once and stand | |
| `RevenueRun`, `RevenueRunProps`, `MCRevenueRun` | configuration, planning, override, finalizing and deletion of revenue runs | `RevenueRunProof` |
| `ChatTurn`, `ChatTurnProps`, `MCChatTurn` | posts, detached turns, histories, processes that overlap, start-up cleanup, crashes | `ChatTurnProof` |
| `ApprovalGate` | what the inbox promises: decided once, written only as granted, no part twice | |
| `Approvals`, `ApprovalsProps` | the inbox, the executor and its batches to Airtable | `ApprovalsProof` |
| `AgentLoop` | the tool loop of a chat turn and of a delegated task, with its audit events | |
| `Assistant`, `AssistantProps`, `MCAssistant` | `AgentLoop` and `Approvals` composed | in `ApprovalsProof` |

A component's module holds its state and actions, `...Props` its properties and
the parts of its inductive invariant, `MC...` its symmetry sets. The operators
commented "Mutant" are plausible bugs of the definition that follows them; they
are used to show that a property can fail.

### Correspondence to the code

A database transaction is one action that takes effect where it commits; a
handler with several transactions, or with an await between a read and a write,
is several actions; so are statements of one transaction where another may
commit between them and the first decides what the second writes. A row lock
held from read to write makes them one again.
`map` in `PROJECT.json` names the lines of every definition.

**BillingRun.** A row is identified by run and group. `Plan` is `plan_run`'s one
transaction with its sweep of older open runs (`Swept`, `SweptStatus`), the
duplicate guard (`UnresolvedInFlight`, `CreatedThisMonth`) and the planner's
findings; `SetItemApproval`, `RejectItem`, `UnrejectItem`, `ApproveAll`,
`SetResolution`, `ClearResolution` are the handlers of `review.py` and
`placeholders.py`. `abandon_run` is `AbandonCheck` and `AbandonWrite`,
`close_run` is `CloseCheck`, `CloseCount` and `CloseWrite`: they lock the run
(`desk`) and look at its rows, which clicks, decisions and resolutions change
without that lock, before they write. A worker is one call of
`execute_run`: `Start`, then `TakeLock` or `SkipItem` per row, `SendPost`,
`HarvestCreates` or `HarvestRefuses` (external), the recorders, and
`FinalizeCount` and `FinalizeWrite`, which are two actions because `_finalize`
is two statements with nothing locked. `Die` drops a worker at any point;
`ResolveLink` and `ResolveFailed` are the human's verdicts on a row in flight up
to the status they count for the run, `ResolveWrite` writes it. What a
transaction holds meanwhile (`closing`, `resolving`) shows when it commits and
keeps others from the rows it has written (`Locked`). Abstractions: a run is
never seen as `planning` (planning is one transaction); the planner's reads take
effect at its commit; the order of the work list is open; an override is
remembered only where an action reads it; the unbilled-time check after a write
and payloads are left out; a linked invoice is assumed to exist. `_load_item`
locks the row (`FOR UPDATE OF i`) and reads the status of its run beside it
unlocked: with `LateReviews`, a decision about one row may act on any status the
run has had or may have had by then (`SeenIn`), as if the run had moved on
between that read and the write.

**Draws.** A click is one call of `invoice_draw`: `Quote` (the preview, on its
own connection), `LockDraw` (transaction A), `SendPost`, the recorders.
`save_draws` is `BeginEdit`, which locks the group, reads the draws and checks
the form, and `SaveEdit`, which writes it. The lock keeps out what inserts a row
(its foreign key waits) and a deactivation, not transaction B or a resolution:
they update a row and its draw, and may commit in between. `set_release` locks
the draw it reads. A click's run has this one row, so the status that a
resolution counts for it is the row's outcome, and the resolution one action.
Terms are the fields `_differs` compares. One group, since draws of two groups
share nothing.

**HarvestClient.** One bucket: the two share only a lock that is never held over
an await. Time is relative: `lag` is now minus `updated_at`, and a tick refills
one grain of the bucket. `Spend` and `Doze` are the two ways through the lock in
`acquire`, `Throttled` is a 429 within the cap (`penalize`, sleep, acquire
again), `GivesUp` one past it. `penalty` is what is left of the Retry-After of
the latest 429. That a 429 means that nothing was created is
Harvest's word (`End` and `Throttled` leave `landed` alone), as the code says.

**BillingGroups.** An editor is one `create_group` or `update_group`: `BeginSave`
is what it reads and checks with the group locked (`ProjectsValid`,
`LinesKnown`), `CommitSave` what becomes visible, where the unique index on
active projects decides (`IndexHolds`, `SaveCollides`). `ClaimsAfter` and
`ClaimsWhenInactive` are the two triggers that keep `group_is_active`;
`Cascade` is the foreign key of the decisions. A form may carry the id of any
line somebody has ever been shown. A refresh replaces the facts of the projects
that Harvest lists and keeps the others. No operation activates a group again.

**GroupPlan.** `FindUnmapped` to `FindHidden` are the queries of
`reconcile_config` in their order, `ListGroups` and `PlanRun` the rest of
`plan_run` (the projects of a group are a second statement, taken with the
plan). `touched` remembers the projects for which anything a query looks at
changed while the plan was read.

**InvoiceCalendar.** One group, days as numbers, any calendar: `Period` is
`resolve_period`, `DraftDue` is `resolve_draft_dating`, `Estimate`, `Stragglers`
and `Imported` are the two queries of the estimator and the `from` and `to` of
the import, `InForce` is the query of `load_active_items`. `Plan` is
`_plan_group` past the duplicate guard; `Draft` is `_take_lock` with the dating
of the click and the import that Harvest makes of the body. What happens to a
row between the two (approval, locks, failures) is `BillingRun`'s, and a row
planned again replaces the one that the sweep abandons. `known`, `timing`,
`days` and `drafted` of a row are not columns: they remember what there was at
the plan. Hours, rates and amounts are reduced to whether a rate is found; a
draft that carries an unpriced hour needs an override, which is `BillingRun`'s.
Assumed of Harvest: an entry keeps its day, and an import takes the billable
entries of its days that are not invoiced. `Supersede` is the edit of the lines
that the form suggests, one fee ending in a month and another starting in the
next; other edits may leave a month with no fee or with two, as asked.

**RevenueRun.** `plan_run` is `PlanRead` (roster and vendors), `PlanGate`,
`PlanInsert` (project list and run row, which blocks on another planner's
uncommitted row of the month), one `PlanEntry` per project and `PlanCommit`:
each statement of a READ COMMITTED transaction sees what is committed by then.
A project's cumulative figure is one number and its computation an input. Months
may be planned and closed in any order. `against` of an entry is no column: it
remembers which closed months its figure was differenced against. A deleted run
stays as "deleted" so that its identity is not used again.

**Approvals.** The rows are there from the start, since nothing inserts any
more. `Approve` is the locked transaction and what `approve_approval` does with
its result (`Effective`: the edited payload or the proposed one); in
`ApproveRaises` the commit succeeds and the click is answered 500 with no
executor started. The executor sends one batch at a time; a request is answered,
refused, or lands after the executor gave up (`AirtableCreates` asks nobody).
`MarkExecutedRaises` and `MarkFailedRaises` are the two writes of
`_run_executor` failing, `ProcessDies` loses every task. `Legacy` rows are those
whose executor a migration named `unknown_legacy`, which is not registered.
`lost` is no column: it remembers the grants that nothing will record an
outcome of.

**AgentLoop.** A turn is a stack of frames, the front door at the bottom, one for
each task that `ask_agent` runs. `NextCall` is the end of a round in both loops:
the front door's is unbounded, a task's ends after `max_iterations`. Every event
of the audit log is a transaction of its own that may raise before or after its
commit (`Audits`). A result that `json.dumps` cannot encode ends a task
(`Unencodable`, in `CloseCall`). A model's answer is how many tools it calls and
which. Delegation descends (`Level`), as `available_agents` in the registry does.

**Assistant.** The two beside each other in one process: `TurnCancelled` ends a
turn, `AllDie` everything.

**ChatTurn.** `Admit` is the check of `send_message`, `Prepare` the transaction
that inserts the question and the placeholder, `LoadHistory` the rest of
`start_turn` up to the subscription (no await in between), `EndTurn` and
`Finalize` the task. The history is the last `Limit` messages (30 in the code)
of those that are complete and not empty (`Newest`, `Complete`). Posts are in
their order of admission where their rows tell it (`Older`); ids of posts that
were admitted side by side may interleave. Any number of posts may be past the
check at once, and a process may start while another is up. A process starts
once; `StopProcess` is a crash or a stop at any point. `passed` and `born` are
no columns: they remember which turns had their rows when this one was admitted
and which processes had started when its rows were inserted.

### Composition

`BillingRun` and `Draws` include the behaviour of Harvest; each is shown to
implement `InvoiceSlot` under a refinement mapping (`SlotState`, `SlotInvoiced`
in the Props modules), once with a group and month as the slot and once with a
draw, so both keep one promise through different indexes. They take the outcome
of a POST as created, refused or unknown; `VerdictTrue` of `HarvestClient` is
the guarantee that this is what the retrying client yields: over all attempts at
most one invoice, and none behind a refusal. `InvoiceCalendar` takes the month's
one live row that `BillingRun` guarantees and says what is on it. `RevenueRun`
implements `RevenueLedger`. `GroupPlan` is the plan of `BillingRun` seen from
the configuration: which groups get a row. `Approvals` implements
`ApprovalGate`, and `Assistant`, with its turns and the deaths of its process,
takes only steps of `Approvals`, so it implements the gate as well (both
proved). A turn of `AgentLoop` is what `ChatTurn` sees as a running task.

## 3. Runs

| Run | Instance | What it shows |
|---|---|---|
| `billing_main` | 3 runs of one month, 1 group, 2 clicks, late reviews, nobody settles a row as failed while its POST runs | no duplicate or lost invoice, outcomes are final, the slot is refined |
| `billing_review` | 2 runs of one month, a placeholder group, every finding, 2 clicks, impatient operators, late reviews | blocked rows stay out and undecided amounts are never sent (`WithheldNotSent`), one live row |
| `billing_halt` | 2 runs, 2 groups, 1 click at a time, no late reviews, nobody settles a row whose click or POST still runs, fairness | statuses of runs are true, a halt stops the run, a click returns |
| `billing_stranded_row` | 1 run, 2 groups | violation: a row un-rejected inside `_finalize` is left planned in a completed run |
| `draws_main` | 2 draws, 3 clicks, 2 terms, edits that read and write in two steps, nobody settles a row as failed while its POST runs | a draw is billed once and consumed together with its row; history stands; the slot is refined |
| `draws_stale_terms` | 1 draw, 1 click, 2 terms | violation: an edit between preview and lock leaves a live row with other terms |
| `revenue_main` | 2 runs, 2 months in any order, 1 project, 2 planners | retainers are decided, a closed month and the months it was differenced against add up, closed months stand |
| `chat_main` | 3 posts to 1 session, 2 processes that may overlap, histories of 2 messages | no turn is let in beside one at work unless that was written off, final rows stand with the same exception, nothing is orphaned, the end of the conversation is complete |
| `calendar_main` | 2 run months over 3 months of 1 or 2 days, 2 entries, 2 lines, 2 terms, look-back of 2 days | periods tile, time left behind was announced, no surprise on an invoice, the agreed days |
| `groups_main` | 3 groups of which 1 manual, 1 project, 2 clients, 1 line, 2 editors, 3 edits | one active group per project, removed lines stay removed, decisions survive, every project is billed or reported, wrong rows are announced |
| `assistant_main` | 1 turn with a delegation, 2 proposals (1 with an executor of before), payloads of 2 and 1 batches, 2 rounds, 1 failed audit write | the gate is refined, executed means written, no grant without an outcome but in three ways, audit events close, tasks return |
| `harvest_main` | 2 calls, 3 retries, 2 tokens, a token per 2 ticks, penalties of 2 or 3 ticks in any order, windows up to 4 ticks | the rate holds, the latest penalty holds, verdicts are true, calls end |

### Why the bounds are enough

*Billing.* A duplicate needs two rows of one group and month, and what frees the
slot for the second (a sweep, a failure, a resolution) takes a second plan; the
third run lets a plan happen after that. `billing_review` needs no third: what a
decision withholds is between a row and the one that replaces it. Two workers
give every overlap of two clicks on one row; rows of different groups share only
the run's status, which `billing_halt` covers with two groups. *Draws.* Two
clicks race; the third comes after a resolution; the second draw makes edits of
the schedule that move terms between draws possible. *Revenue.* Differencing
relates a month to those before it, so two months show a wrong prior; two
planners give the race for a month; projects are computed independently (with
one project, LedgerAddsUp is the statement for each). *Chat.* A session is held
up by one turn and freed by another; the third post checks that what the second
leaves behind is clean, and two posts may be past the check beside a third that
is at work; the second process is the restart, or the revision that takes over
while the first still runs. A history of two messages is exceeded by the five
that three turns can show their last. Sessions share nothing but the start-up,
which acts on each row alike. *Harvest.* Capacity is smaller than the number of
requests two calls can make, so the bucket runs dry and a penalty meets a
sleeper; retries have the value of the code. Retry-After is 2 or 3 ticks, that
is as long as the refill of a token or longer.

*Calendar.* Two months give every order of two runs and both moves between the
timings; months of one and of two days put every boundary next to another and
make the first day of a month differ from its last or not; a look-back of two
days reaches past the month before. Two entries can be on two invoices or on
both sides of an edge. Terms of no days and of more days than the longest month
put a due date before and after the draft. The theorems remove these bounds.

*Groups.* Two editors race for one project, and a third group is the home it had
or gets; a manual group excuses a project from billing; two clients make a
mismatch; three edits let a save, a deactivation and a second save fall between
two statements of a plan. Projects are billed and reported one by one, and a
line's history (added, removed, sent again) needs one id. *Assistant.* Two
proposals are what a duplicate month takes; two batches give a write that stops
half-way, one batch an edit that changes the payload; one turn has at most two
frames in this registry, and a task of two rounds of one call meets its limit. A
second turn shares nothing with the first but the proposals, which the theorems
cover for any number of turns.

Constants that stand for an assumption:

- `OperatorWaits`: nobody settles a row by hand while it is still being worked
  on. In `BillingRun` it is the set of resolutions that wait: `"failed"` (the
  UI's wording asks for a look into Harvest, the code does not enforce it) in
  `billing_main`; also `"created"` in `billing_halt`, where linking the invoice
  a click is about to record would settle the run under that click; none in
  `billing_review`. In `Draws` it is about `"failed"` alone.
- `LateReviews`: where it is FALSE (`billing_halt`), decisions about a row see
  the status the run has at their commit.
- `RetryAfter` (`harvest_main`): as long as the refill of a token or longer,
  which only `RateBound` needs.

Section 5 says what each of them hides. That clicks of one run do not overlap
in `billing_halt` is its single worker; section 4 says where the theorems need
it.

Deadlock checking is off: every one of these systems may stop when its bounded
set of runs, clicks, posts or processes is used up.

### Fairness

`billing_halt` assumes weak fairness of each worker's next step: the event loop
runs a ready task, and the HTTP client's timeout (`harvest.py`, 30 s) turns an
answer that never comes into an exception, which is the "unknown" outcome. It
also assumes that a transaction which has locked a run goes on to its commit
(`Commit`): what follows are local statements. No fairness is assumed of
operators, of Harvest's answers as such, or of planning. `harvest_main` assumes
that time passes, that a task that can run does, and that a request ends within
that timeout. `assistant_main` assumes weak fairness of each running turn's next
step: the event loop runs it, and its calls of the model, of vendors and of the
database return or raise; nothing is assumed of the model's answers, of the
inbox or of executors. All other properties are safety properties and are
checked without fairness.

## 4. Proofs

Each theorem holds for every value of the constants that meets the named
assumption of its module. They all follow one pattern: an inductive invariant
with one lemma for the initial states, one lemma or step per action, and a last
temporal step.

| Theorem | Needs | Argument |
|---|---|---|
| `BillingRunProof`: TypeCorrect, OneLiveRowCorrect | | types, and that a worker holds a real row; the index guard is in every action that makes a row live |
| ProtocolCorrect, InvoiceAccountedCorrect, OneInvoiceCorrect | `"failed" \in OperatorWaits` | `ProtocolInv`: row, POST and click agree, and what a transaction holds uncommitted (`LocksHold`, `ResolvedRight`) still fits the rows. OneInvoice alone is not inductive: the late answer of a POST creates an invoice for a row, so the invariant has to know that a row whose POST is under way is in flight, that one worker holds it, and that live rows are unique |
| OutcomeIsFinalCorrect, RefinesSlotsCorrect | `"failed" \in OperatorWaits` | from the same invariant: a recorder writes only to the row its click holds, which is in flight or was linked meanwhile; for the mapping, a slot shows its one live row, so a step on that row is a step of its slot and planning and review are stutters |
| WithheldNotSentCorrect | | `ReviewInv` with the types: a blocked row is never approved, a row with an open placeholder is not approved, and a row that was ever attempted was approved when a click took it (`HeldAttempted`), however late the decision read the run |
| AbandonedDraftedNothingCorrect | `[]OneClick` | `Thrown`: from the count of `abandon_run` to its write no click may take a row of the run. A click starts only on a free run, and one that was in its loop before has either started the run, so that the check refuses it, or would have left an attempt that the count finds. Decisions may come as late as they like |
| OverMeansAccountedCorrect | `~LateReviews`, `{"created", "failed"} \subseteq OperatorWaits`, `[]OneClick` | `Accounted`: beside the property, a click in its loop works on a run in which nothing is approved once it is over or about to be (`Calm`), nobody's resolution of it is uncommitted, and a status that a click, a close or a resolution has counted as over was counted with nothing in flight (`Tidy`). Each of them writes what it counted earlier, so the property alone is lost between the two statements |
| HaltedRunDraftsNothingCorrect | `[]OneClick` | `Halts`: a click that may take another row has left none in flight, and one that waits has the only row in flight of its run |
| `DrawsProof`: TypeCorrect, OneLiveRowCorrect, ConsumedTogetherCorrect | | RowHasDraw, Answered, OneLiveRow, ConsumedTogether: a row becomes created only of an invoice, and both writers of "created" also write the draw |
| DrawsInvCorrect, OneInvoicePerDrawCorrect, InvoiceAccountedCorrect, HistoryStandsCorrect, RefinesSlotsCorrect | `OperatorWaits` | the same with `Held`: a row is failed only when no POST can create its invoice any more; and `EditFits`: what an edit has read and is about to write still fits every draw that is invoiced or being invoiced, since no row is inserted meanwhile and a row that could become created was live when the edit looked |
| `HarvestClientProof`: TypeOKCorrect, VerdictTrueCorrect | | `Counted`, `Untouched`: what may have created an invoice is the last attempt of its call |
| RateBoundCorrect | `LongRetry` | `Budget`: spent plus left never exceeds capacity plus elapsed time |
| PenaltyHoldsCorrect | | `Drained`: during a penalty the bucket stays below one token by as much as the penalty has left |
| `InvoiceCalendarProof`: TypeOKCorrect, PeriodsTileCorrect | `CalendarAssumption` | the month of a day is the only one that contains it (`DayBefore`), so an arrears period is a whole month; rows keep the period of their month and timing (`PeriodKept`) |
| LeftBehindAnnouncedCorrect, BilledAsEstimatedCorrect, DueInFullCorrect | `CalendarAssumption`, `NoneAssumption` | `CalendarInv`: what a plan saw was counted, flagged or out of reach (`Shown`), what an invoice took is marked (`Marked`), a drafted period has nothing left that it knew of (`Cleared`). None is inductive without the others: the draft takes what is unmarked then, not what was estimated |
| OneFeeInForceCorrect | the same | inductive with the types: before the change the old fee is in force in every later month, hence alone |
| `RevenueRunProof`: TypeCorrect | `RevenueAssumption` | what was booked before a month is a number, because runs are the rows of a table: the sum lemmas below |
| LedgerAddsUpCorrect, ClosedInTurn | | `AllExact`: an entry that a planner holds, that is under review or that was recognized adds up with the entries it was differenced against, and those are closed months before its own. It is inductive because a closed month never changes and is never deleted; which months are closed later does not matter to it. ClosedInTurn adds: if every month before it that is closed now was closed when the entry was computed, the whole ledger up to the month adds up to its figure |
| RetainersDecidedCorrect, OneLiveRunCorrect | | drafted and committed entries keep the decision with the amount; a planner that has inserted claims its month |
| RefinesLedgerCorrect | | the mapping of section 2; every step but `FinalizeRun` is a stutter, and `FinalizeRun` closes a month that is not closed because the month has one live run |
| `GroupPlanProof`: ProjectsClaimedOnce, LinesStayRemoved, DecisionsSurvive | `GroupsAssumption` | `SavesHold`: what a transaction read under the group's lock is still so when it commits, and no two mint one id; `ClaimsApart`: claims are the members of active groups, which the index keeps apart |
| PlanAccounts, PlanAnnounces | the same | `AnswersStand`: every answer a statement gave about a project that nobody touched is true now. The properties are not inductive without it: a plan's result is assembled from answers of six moments |
| `ApprovalsProof`: Executed, Held, GateHolds | `ApprovalsAssumption` | one invariant per proposal: row, task and requests agree, the batches before `next` have landed, each once, and a granted row has a task or is among the lost |
| AssistantApproves, AssistantKeepsGate | and `AgentLoopAssumption` | every step of the assistant is a step of `Approvals` or a stutter of it |
| LoopTypes, AuditBalancesCorrect | `AgentLoopAssumption` | `LoopInv`: all frames below the top wait for the one above (`Nested`), so that what a stack is inside of depends on its length and its top frame only (`CallsCounted`, `TasksCounted`); and the log has that open, plus a gap for each fault (`Balanced`). Every statement pays for what its frame is newly inside of (`Pays`), whether it replaces the top frame, pushes one or pops one |
| DelegationDescends | the same | `Falls`: the rank of the registry descends along a stack, and depth plus rank never exceeds the front door's |
| `ChatTurnProof`: SerialCorrect, NoOrphansCorrect, HistoryCompleteCorrect, FinalRowStandsCorrect | `ChatAssumption` | `TurnInv`: a turn at work has a streaming row, or was written off, or lost its session (`WorkingStreams`); a turn that was passed was final then, and stays so unless it was written off (`PassedFinal`); so the last messages of the session at the load are, up to answers of turns written off, all that is above the turn or a full history of the newest. Posts may race and processes overlap |

TLC finds the inductive invariants (`ProtocolInv`, `DrawsInv`, `TurnInv`,
`CalendarInv`) to hold in the instances of the runs above; the runs themselves
list the properties that follow from them.

Proved and no longer run, because the theorem says it for every instance and a
run of another property covers the same states: `OneFeeInForce`, `OneLiveRun`,
`InvoiceAccounted` of draws, the type invariants.

Every safety property that a run checks and that holds is stated by a theorem.
One hypothesis is about behaviours rather than about constants: `[]OneClick`
(`BillingRunProof`) restricts a theorem to the behaviours in which no two clicks
work at one run at the same moment. The run's page disables the button while its
own request is pending or a row is in flight; the server (`_start`) refuses only
while a row is in flight, and with two clicks the properties fail (section 5).
`billing_halt` has one worker and so only such behaviours. `OperatorWaits` and
`~LateReviews` are the constants of section 3. `RevenueAssumption` says that
runs are finitely many, as rows of a table are. The theorems about chat turns,
revenue and penalties assume nothing of the users.

A sum over a set (`PriorRecognized`) is a recursive function, and the library's
induction theorems, which take an operator, are of no use to the prover here.
`RevenueRunProof` argues by a smallest counterexample instead: among the subsets
of a finite set on which two such functions differ there would be one that is
minimal under strict inclusion (the library's theorem that this order is well
founded is about sets, not operators), and the equation that unfolds the
function refutes it (`SumExists`, `UnfoldsAgree`). The definition of the sum
itself is the one TLC evaluates.

The formula of `DelegationDescends` is no property of a run. TLC found it to hold
in the instance of `assistant_main`.

Only model-checked: liveness (`ClickReturns`, `CallsReturn`, `TasksReturn`), as
the prover has no rules for fairness and `ENABLED`. Of `TasksReturn` the part
that is safety is proved: a task has no more than `MaxIterations` rounds
(LoopTypes), and delegation below it is of bounded depth (DelegationDescends).

## 5. Where code and documents disagree

With a run each (the `findings` of `PROJECT.json`):

1. `_finalize` counts and then updates without a lock (`execute.py:462`):
   `billing_stranded_row`.
2. `invoice_draw` bills terms that the schedule no longer has
   (`draws.py:675`): `draws_stale_terms`.

Met while modelling, without a run of their own (where a constant or a number of
workers is named, setting it so makes TLC find the counterexample):

- `OperatorWaits` without `"failed"`: a row can be settled as failed while its
  POST runs (`inflight.py:92-93`), and the group be invoiced a second time in the
  month, although the refusal says that only a write that never returned can be
  resolved and `docs/ARCHITECTURE.md:418` that a group cannot be invoiced twice
  in a month. `OneInvoice` fails.
- `OperatorWaits` without `"created"`, with three groups: the invoice of a row is
  linked by hand while the click on it still waits for Harvest, which takes the
  run out of "executing"; a close counts, a row is un-rejected and approved, the
  close writes "completed", and the click takes that row. `OverMeansAccounted`
  fails with one click and no late reviews; with both resolutions waiting it
  holds.
- Two workers: `abandon_run` counts the attempted rows (`planner.py:562`) and
  withdraws the open ones later (573-580); it has locked the run, but a click
  that started before takes its next row without that lock.
  `AbandonedDraftedNothing` fails, against the refusal at 567-572.
- `OperatorWaits = FALSE` in `Draws`: a row is marked failed while its POST runs,
  an edit reads its draw as not live, the late answer invoices the draw, and the
  edit overwrites its terms (`draws.py:201-254`), although an invoiced draw may
  not be modified (`draws.py:185-187`). `HistoryStands` fails.
- Months out of turn: a month planned while one before it is a draft, or not yet
  planned, is differenced without it (`revenue_run.py:285`), and when that one is
  closed afterwards what it books is in the ledger twice, although
  `override_entry` says that every period is computed against the sum of the
  ones before it. Nothing in `revenue_run.py` keeps months in turn. `LedgerAddsUp`
  says what does hold: a month and those closed when it was computed add up, so
  the excess is exactly what the months closed behind its back book, and
  `ClosedInTurn` that there is none when they are closed in turn.
- `LateReviews = TRUE`: a decision about a row that read the run's status before
  the run ended is still written after it (`review.py:117-131` locks the row
  only). A late un-reject and a late approval put an approved row into a run
  that a re-plan has completed, and a click that still has it in its list drafts
  it: `OverMeansAccounted` fails, which is why `billing_halt` runs without.
- The revenue planner's gate and its list of projects are two statements with
  two snapshots (`revenue_run.py:230`, `234`): a configuration removed in
  between drops its project from the month, against `docs/ARCHITECTURE.md:591`.
- `plan_run` reads its configuration statement by statement: a project moved
  between two listings is billed on two rows, and a group deactivated between
  `reconcile_config` and `list_groups` leaves its projects neither billed nor
  reported. `EveryProjectAccounted` therefore speaks of projects that nobody
  touched meanwhile.
- A save that loses the race for a project fails with the database's own
  exception: the router catches `BillingConfigError` only, so it is answered 500
  (rolled back all the same), though `groups.py:107-108` wants a useful message.
- A form that does not know a line somebody added since deletes it
  (`groups.py:344`): absence means removal.
- An edit to `{}` in the inbox counts as no edit (`routers/approvals.py:92` uses
  `or`, `docs/SCHEMA.md:99` says `??`).
- After a batch failed, what was written stays and nothing takes up the rest of
  the month, which has to be entered by hand. A grant
  whose process dies stays `approved` for ever. A row marked failed may be in
  Airtable completely (`mark_executed` raised).
- An approval whose commit succeeds and whose answer raises is answered 500
  (`routers/approvals.py:68-73`): the row is approved, no executor is started,
  and a second click finds nothing pending. `ApprovedIsHeld` names it as one of
  three ways in which a granted row loses its task.
- `trigger_revenue_recognition` compares the date asked for with the last date in
  Airtable (`trigger_revenue_recognition.py:82-83`), so a later date of the same
  month passes. No agent carries the tool since ADR-0004, so it is not modelled.
- Start-up marks turns of a process that is still up as failed
  (`chat_sessions.py:112`, against lines 103-104): `DEPLOY.md:515-518` says that
  two revisions overlap during a swap. The old process then overwrites the
  failed row with its answer, a second turn may run beside it, and the turns
  after it may miss its answer. `FinalRowStands`, `Serial` and `HistoryComplete`
  have that exception (`WrittenOff`) and hold with overlapping processes.
- Two posts to one chat session at the same moment both pass the check for a
  turn in progress (`routers/chat.py:103`) and run side by side. `Serial` says
  that this is the only other way: no post is let in beside a turn that already
  has its rows.
- A group moved from advance to arrears between two consecutive months bills
  the same period in both, and one moved the other way leaves a month out: the
  duplicate guard counts run months, not periods. For time nothing is taken
  twice, since Harvest marks what it imports; recurring fees are charged twice.
  `PeriodsTile` states the exception.
- `update_group` validates projects only when the edit names them
  (`groups.py:467`): a change of client alone leaves the projects of the old
  one, although `_validate_projects` says of such a pair that it can never reach
  a run. Only a flag of the run reports it.
- `harvest_limiter.py:107` replaces the end of a penalty instead of taking the
  later one: a second 429 with an earlier end lets every caller start before the
  Retry-After of the first is over, against "every concurrent caller on this
  bucket waits out the penalty" (lines 98-100). The run has such 429s;
  `PenaltyHolds` is about the latest one.
- Time logged into the period after the plan is imported without having been
  counted or flagged. `BilledAsEstimated` speaks of the entries that were there.
- With a Retry-After below the refill time of a token, `penalize` credits time
  that had already been spent; `RateBound` then fails by less than a token per
  429. The 429 past the cap of retries is raised without telling the bucket.
- The bucket allows its capacity plus a window's refill in one window (up to
  199 requests in 15 s after an idle time), not the 100 that Harvest counts;
  Harvest's 429 closes the difference.
- A run whose rows were all rejected after it started is settled as completed
  (`write_protocol.py:104`) although nothing was produced (lines 97-98).
- A run left executing with nothing attempted can be neither closed nor
  abandoned (`planner.py:557`, `review.py:510-514`).
- The override of an error flag can be withdrawn while the row stays approved
  (`review.py:166`, against lines 20-21).
- Two workers: a second click that is already past its checks keeps drafting after
  another click of the run has halted (`execute.py:139`). `HaltedRunDraftsNothing`
  is therefore checked with one click at a time.
- A draw can be withdrawn while a click on it is between preview and lock
  (`draws.py:697`, against lines 433-434); the operator may never have seen the
  terms that are sent (`draws.py:675-677`).
- `mark_executed` overwrites the human-edited `executed_payload` with the
  executor's result (`approvals.py`, against `docs/SCHEMA.md:87,97`).

## 6. Plan

Done, in this order: BillingRun with InvoiceSlot; Draws; RevenueRun with
RevenueLedger; ChatTurn; HarvestClient; InvoiceCalendar; their proofs; the
unlocked read of a run's status; Approvals with ApprovalGate, AgentLoop and
Assistant; BillingGroups and GroupPlan; their proofs; the counts and checks that
decide a write later (resolving, closing, abandoning, editing a schedule) as
steps of their own; chat histories with their limit and overlapping processes;
months closed in any order.

What would come next, most important first:

1. Amounts: rounding of hours and lines, the rate ladder, the unbilled-time
   check after a write, and `calc_revenue` with hours lost to months that were
   never recognized.
2. The project a recurring line targets, against the projects of its group.

## 7. Running

`tlc -config BillingRun_main.cfg MCBillingRun.tla` and likewise for the other
configurations (`PROJECT.json` names the module of each); each takes from a few
seconds to about three minutes on two workers. `tlapm BillingRunProof.tla` checks
the proofs of a component.

## 8. Not modelled

- Amounts: hours, rates, rounding, expenses (cut by the same dates as time),
  the percent-of-completion formula. They are arithmetic on decimals without
  state, which unit tests reach well.
- Of reconciliation: currencies, a group's type against Harvest's, exhausted
  schedules, and the pricing of unmapped time. Each is one more query of the
  same kind that changes nothing. Of a group: line targets and kinds, edits of
  the type, templates.
- What the model says and what tools return:
  arbitrary in `AgentLoop`. A generator closed early is not told apart from a
  cancelled turn.
- The tool that proposed revenue entries (`trigger_revenue_recognition`) and the
  insert of its proposals: no agent reaches them since ADR-0004.
- Provider I/O (`integrations/llm.py`), read models (Forecast, projects, catalog,
  invoice index, the readers of the ledger): copies of external tables or
  queries; their values are inputs of the planners.
- Post-write verification: it reports and decides nothing. Contracts: text
  substitution. Audit events other than those of tools and tasks: inserts in the
  transaction of the change they describe.
- HTTP decoding, authentication, UI, scripts, typing in the schema.
