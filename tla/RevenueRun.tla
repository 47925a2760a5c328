------------------------------ MODULE RevenueRun ------------------------------
(***************************************************************************)
(* The monthly revenue recognition run: planned from Harvest, Forecast and *)
(* the ledger's own history, adjusted by operators, and finalized into the *)
(* ledger.                                                                 *)
(*                                                                         *)
(* `plan_run` refreshes the roster and reads the vendors outside any       *)
(* transaction, and then runs one long READ COMMITTED transaction in which *)
(* every statement sees what has been committed by then: it is one action  *)
(* per statement whose reads can differ, and the run and its entries stay  *)
(* with the planner until the commit.  The other operations lock the run   *)
(* first and are one action each.                                          *)
(*                                                                         *)
(* A project's cumulative figure (percent complete of its contract, or     *)
(* what was invoiced to date) is one number, which the entry keeps as its  *)
(* evidence columns do.                                                    *)
(***************************************************************************)
EXTENDS Integers, FiniteSets, FiniteSetsExt, Functions

CONSTANTS
    Run,        \* identities of revenue runs
    Project,    \* Harvest projects
    Planner,    \* concurrent calls of plan_run
    LastMonth,  \* the months are 1 .. LastMonth
    Figure      \* cumulative figures a project may have, and overrides

\* Run is finite because it is the rows of a table: what was booked is summed.
ASSUME RevenueAssumption ==
    /\ IsFiniteSet(Run)
    /\ LastMonth \in Nat
    /\ Figure \subseteq Int

VARIABLES
    roster,     \* harvest_projects: "active", "archived", or "out" of scope
    config,     \* revenue_project_config: how a project recognizes, or "none"
    status,     \* revenue_runs.status
    month,      \* revenue_runs.period_month
    entries,    \* revenue_entries of the run, by project
    pc,         \* where each planner is
    period,     \* the month a planner plans
    listed,     \* roster and config of the projects a planner has still to do
    drafted     \* entries a planner has inserted and not committed

ledger == <<status, month, entries>>
planner == <<pc, period, listed, drafted>>
vars == <<roster, config, status, month, entries, pc, period, listed, drafted>>

Month == 1 .. LastMonth

RosterState == {"active", "archived", "out"}

\* The five revenue types by what plan_run does with them: fixed_fee,
\* time_and_materials, msf and hosting are computed.
RevenueType == {"computed", "retainer"}

\* revenue_entries: `target` stands for the evidence columns, `amount` is
\* recognized_amount, `overridden` says whether overridden_at is set.  `against`
\* is history: the runs the amount was differenced against, those finalized for
\* months before when it was computed.
Entry == [type : RevenueType, target : Int, amount : Int, overridden : BOOLEAN,
          against : SUBSET Run]

\* An empty table.
NoEntries == [q \in {} |-> q]

PlannerState == {"idle", "read", "gated", "inserted"}

Recognized == {r \in Run : status[r] = "recognized"}

Booked(r, q) == IF q \in DOMAIN entries[r] THEN entries[r][q].amount ELSE 0

\* What a set of runs booked for a project.
BookedBy(runs, q) == MapThenSumSet(LAMBDA r : Booked(r, q), runs)

\* The runs finalized for the months before m.
PriorRuns(m) == {r \in Recognized : month[r] < m}

\* Mutant: drafts count as history too.
PriorRecognizedDrafts(q, m) ==
    BookedBy({r \in Run : status[r] \in {"draft", "recognized"} /\ month[r] < m}, q)

\* prior_recognized: what the finalized months before m booked for the project.
PriorRecognized(q, m) == BookedBy(PriorRuns(m), q)

\* revenue_runs_one_live_per_month lets a run of month m be inserted.
MonthFree(m) ==
    \A r \in Run : month[r] = m => status[r] \notin {"draft", "recognized"}

Init ==
    /\ roster = [q \in Project |-> "out"]
    /\ config = [q \in Project |-> "none"]
    /\ status = [r \in Run |-> "none"]
    /\ month = [r \in Run |-> 0]
    /\ entries = [r \in Run |-> NoEntries]
    /\ pc = [p \in Planner |-> "idle"]
    /\ period = [p \in Planner |-> 0]
    /\ listed = [p \in Planner |-> NoEntries]
    /\ drafted = [p \in Planner |-> NoEntries]

(***************************************************************************)
(* Configuration.                                                          *)
(***************************************************************************)

\* A refresh of the snapshot, or a client excluded or included again.
ChangeRoster(q, s) ==
    /\ roster' = [roster EXCEPT ![q] = s]
    /\ UNCHANGED <<config, ledger, planner>>

\* set_config and remove_config.
SetConfig(q, t) ==
    /\ config' = [config EXCEPT ![q] = t]
    /\ UNCHANGED <<roster, ledger, planner>>

RemoveConfig(q) ==
    /\ config[q] # "none"
    /\ config' = [config EXCEPT ![q] = "none"]
    /\ UNCHANGED <<roster, ledger, planner>>

(***************************************************************************)
(* plan_run.                                                               *)
(***************************************************************************)

\* The planner is back where it was before the call; its transaction, if it had
\* begun one, is rolled back.
Reset(p) ==
    /\ pc' = [pc EXCEPT ![p] = "idle"]
    /\ period' = [period EXCEPT ![p] = 0]
    /\ listed' = [listed EXCEPT ![p] = NoEntries]
    /\ drafted' = [drafted EXCEPT ![p] = NoEntries]

\* The roster is refreshed, then Harvest and Forecast are read.  What they say of
\* a project is any figure, and named where the loop uses it.
PlanRead(p, m, fresh) ==
    /\ pc[p] = "idle"
    /\ roster' = fresh
    /\ period' = [period EXCEPT ![p] = m]
    /\ pc' = [pc EXCEPT ![p] = "read"]
    /\ UNCHANGED <<config, ledger, listed, drafted>>

\* unconfigured_projects finds nothing.
PlanGate(p) ==
    /\ pc[p] = "read"
    /\ \A q \in Project : roster[q] = "active" => config[q] # "none"
    /\ pc' = [pc EXCEPT ![p] = "gated"]
    /\ UNCHANGED <<roster, config, ledger, period, listed, drafted>>

\* _recognizable_projects, and the insert of the run.  The unique index makes
\* the insert wait for another planner's of the same month.
PlanInsert(p) ==
    LET found == {q \in Project : roster[q] # "out" /\ config[q] # "none"}
    IN  /\ pc[p] = "gated"
        /\ found # {}
        /\ MonthFree(period[p])
        /\ \A o \in Planner \ {p} : pc[o] = "inserted" => period[o] # period[p]
        /\ listed' = [listed EXCEPT ![p] =
                        [q \in found |-> [roster |-> roster[q], type |-> config[q]]]]
            /\ pc' = [pc EXCEPT ![p] = "inserted"]
        /\ UNCHANGED <<roster, config, ledger, period, drafted>>

\* Mutant: a retainer's zero is differenced like a cumulative figure.
NewEntryDifferenced(type, target, prior, runs) ==
    LET figure == IF type = "retainer" THEN 0 ELSE target
    IN  [type |-> type, overridden |-> FALSE, target |-> figure, amount |-> figure - prior,
         against |-> runs]

\* The period amount of a computed figure is the cumulative one minus what the
\* months before, finalized by now, have booked; a retainer has neither figure
\* nor history, but a zero to be decided.
NewEntry(type, target, prior, runs) ==
    IF type = "retainer"
    THEN [type |-> type, overridden |-> FALSE, target |-> 0, amount |-> 0, against |-> {}]
    ELSE [type |-> type, overridden |-> FALSE, target |-> target, amount |-> target - prior,
          against |-> runs]

\* One turn of the loop over the projects.  An archived project with nothing
\* left to say gets no row.  `figure` is its cumulative figure, and `worked` says
\* that it has hours in the period.
PlanEntry(p, q, figure, worked) ==
    LET new == NewEntry(listed[p][q].type, figure,
                        PriorRecognized(q, period[p]), PriorRuns(period[p]))
        silent == listed[p][q].roster = "archived" /\ new.amount = 0 /\ ~worked
    IN  /\ pc[p] = "inserted"
        /\ q \in DOMAIN listed[p]
        /\ listed' = [listed EXCEPT ![p] = Restrict(@, DOMAIN @ \ {q})]
        /\ drafted' = IF silent THEN drafted
                      ELSE [drafted EXCEPT ![p] =
                              [x \in DOMAIN @ \cup {q} |-> IF x = q THEN new ELSE @[x]]]
        /\ UNCHANGED <<roster, config, ledger, pc, period>>

\* The transaction commits, unless it has written no entry.
PlanCommit(p, r) ==
    /\ pc[p] = "inserted"
    /\ DOMAIN listed[p] = {}
    /\ DOMAIN drafted[p] # {}
    /\ status[r] = "none"
    /\ status' = [status EXCEPT ![r] = "draft"]
    /\ month' = [month EXCEPT ![r] = period[p]]
    /\ entries' = [entries EXCEPT ![r] = drafted[p]]
    /\ Reset(p)
    /\ UNCHANGED <<roster, config>>

\* The call raises: an unconfigured project, no project at all, a live run of
\* the month, no entry written, or any failure of a vendor or the database.
PlanRaises(p) ==
    /\ pc[p] # "idle"
    /\ Reset(p)
    /\ UNCHANGED <<roster, config, ledger>>

(***************************************************************************)
(* Review.                                                                 *)
(***************************************************************************)

\* Mutant: overriding is allowed in every run that was not thrown away.
OverrideEntryLate(r, q, amount) ==
    /\ status[r] \in {"draft", "recognized"}
    /\ q \in DOMAIN entries[r]
    /\ entries' = [entries EXCEPT ![r][q].amount = amount,
                                  ![r][q].overridden = TRUE]
    /\ UNCHANGED <<roster, config, status, month, planner>>

\* override_entry.
OverrideEntry(r, q, amount) ==
    /\ status[r] = "draft"
    /\ q \in DOMAIN entries[r]
    /\ entries' = [entries EXCEPT ![r][q].amount = amount,
                                  ![r][q].overridden = TRUE]
    /\ UNCHANGED <<roster, config, status, month, planner>>

\* Retainers of the run that nobody has put a number to.
Undecided(r) ==
    {q \in DOMAIN entries[r] : /\ entries[r][q].type = "retainer"
                               /\ entries[r][q].amount = 0
                               /\ ~entries[r][q].overridden}

\* finalize_run.
FinalizeRun(r) ==
    /\ status[r] = "draft"
    /\ Undecided(r) = {}
    /\ status' = [status EXCEPT ![r] = "recognized"]
    /\ UNCHANGED <<roster, config, month, entries, planner>>

\* abandon_run.
AbandonRun(r) ==
    /\ status[r] = "draft"
    /\ status' = [status EXCEPT ![r] = "abandoned"]
    /\ UNCHANGED <<roster, config, month, entries, planner>>

\* delete_run: the entries go with the run.
DeleteRun(r) ==
    /\ status[r] = "abandoned"
    /\ status' = [status EXCEPT ![r] = "deleted"]
    /\ month' = [month EXCEPT ![r] = 0]
    /\ entries' = [entries EXCEPT ![r] = NoEntries]
    /\ UNCHANGED <<roster, config, planner>>

Configure ==
    \E q \in Project :
        \/ \E s \in RosterState : ChangeRoster(q, s)
        \/ \E t \in RevenueType : SetConfig(q, t)
        \/ RemoveConfig(q)

Plan(p) ==
    \/ \E m \in Month, fresh \in [Project -> RosterState] : PlanRead(p, m, fresh)
    \/ PlanGate(p)
    \/ PlanInsert(p)
    \/ \E q \in Project, figure \in Figure, worked \in BOOLEAN :
          PlanEntry(p, q, figure, worked)
    \/ \E r \in Run : PlanCommit(p, r)
    \/ PlanRaises(p)

Review(r) ==
    \/ \E q \in Project, amount \in Figure : OverrideEntry(r, q, amount)
    \/ FinalizeRun(r)
    \/ AbandonRun(r)
    \/ DeleteRun(r)

Next ==
    \/ Configure
    \/ \E p \in Planner : Plan(p)
    \/ \E r \in Run : Review(r)

Spec == Init /\ [][Next]_vars
=============================================================================
