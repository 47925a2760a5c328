------------------------------- MODULE GroupPlan -------------------------------
(***************************************************************************)
(* Planning a run over a configuration that people are editing.            *)
(*                                                                         *)
(* plan_run reads the configuration in a series of statements on the pool, *)
(* each of which sees what is committed when it starts: the queries of     *)
(* reconcile_config, with a sweep of Harvest after the first, and the two  *)
(* of list_groups.  Only then does it open the transaction that writes     *)
(* the run.  The flags are kept as what the queries returned; amounts and  *)
(* everything else that _plan_group adds to a row are left out.            *)
(***************************************************************************)
EXTENDS BillingGroups

VARIABLES
    step,      \* the last statement of plan_run that has been answered
    report,    \* rows of the queries of reconcile_config
    listed,    \* groups that the first statement of list_groups returned
    billed,    \* group and project of the rows of the run, once it is written
    touched    \* projects that an edit concerned since planning began (history)

planVars == <<step, report, listed, billed>>
vars == <<status, client, members, claims, lines, decided, gone, snapshot,
          excluded, pc, form, edits, step, report, listed, billed, touched>>

NoReport == [unmapped |-> {}, mismatched |-> {}, archived |-> {}, hidden |-> {}]

Init ==
    /\ GroupsInit
    /\ step = "idle"
    /\ report = NoReport
    /\ listed = {}
    /\ billed = {}
    /\ touched = {}

(***************************************************************************)
(* The statements.                                                         *)
(***************************************************************************)
Known == {p \in Project : snapshot[p] # None}
Live == {p \in Known : snapshot[p].active /\ snapshot[p].billable}

\* not_excluded_sql, of the project's client.
Excused == {p \in Known : snapshot[p].client \in excluded}

ActiveGroups == {g \in Group : status[g] = "active"}

\* Mutant: a row of a deactivated group counts as a home.
UnmappedNever == {p \in Live \ Excused : \A g \in Group : p \notin members[g]}

\* _unmapped_candidates.
Unmapped == {p \in Live \ Excused : \A g \in Group : p \notin claims[g]}

\* _client_mismatches.
Mismatched ==
    {gp \in ActiveGroups \X Known :
        gp[2] \in members[gp[1]] /\ snapshot[gp[2]].client # client[gp[1]]}

\* _inactive_with_grouping.
Archived ==
    {p \in Known : ~snapshot[p].active /\ \E g \in Group : p \in claims[g]}

\* Mutant: looks at the clients of the projects, not at the group's.
HiddenByProject ==
    {g \in ActiveGroups :
        \E p \in members[g] \cap Known : snapshot[p].client \in excluded}

\* _excluded_with_active_group.
Hidden == {g \in ActiveGroups : client[g] \in excluded}

Listed == ActiveGroups

\* The second statement of list_groups, and _plan_group: manual groups get no
\* row, every other group bills the projects it has now.
Rows == {gp \in (listed \ Manual) \X Project : gp[2] \in members[gp[1]]}

Statement(from, to) == step \in from /\ step' = to

FindUnmapped ==
    /\ Statement({"idle", "planned"}, "unmapped")
    /\ report' = [NoReport EXCEPT !.unmapped = Unmapped]
    /\ listed' = {}
    /\ billed' = {}

FindMismatched ==
    /\ Statement({"unmapped"}, "mismatched")
    /\ report' = [report EXCEPT !.mismatched = Mismatched]
    /\ UNCHANGED <<listed, billed>>

FindArchived ==
    /\ Statement({"mismatched"}, "archived")
    /\ report' = [report EXCEPT !.archived = Archived]
    /\ UNCHANGED <<listed, billed>>

FindHidden ==
    /\ Statement({"archived"}, "hidden")
    /\ report' = [report EXCEPT !.hidden = Hidden]
    /\ UNCHANGED <<listed, billed>>

ListGroups ==
    /\ Statement({"hidden"}, "listed")
    /\ listed' = Listed
    /\ UNCHANGED <<report, billed>>

PlanRun ==
    /\ Statement({"listed"}, "planned")
    /\ billed' = Rows
    /\ UNCHANGED <<report, listed>>

PlannerStep ==
    /\ FindUnmapped \/ FindMismatched \/ FindArchived \/ FindHidden
          \/ ListGroups \/ PlanRun
    /\ touched' = IF step \in {"idle", "planned"} THEN {} ELSE touched
    /\ UNCHANGED groupVars

(***************************************************************************)
(* Edits while a plan reads.                                               *)
(***************************************************************************)

Homes(p) == {g \in Group : p \in members[g]}

\* Everything in the tables that decides where a project is billed and what
\* is said about it.
Standing(p) ==
    [facts |-> snapshot[p],
     homes |-> Homes(p),
     active |-> Homes(p) \cap ActiveGroups,
     claimed |-> {g \in Group : p \in claims[g]},
     foreign |-> {g \in Homes(p) : <<g, p>> \in Mismatched},
     hidden |-> Homes(p) \cap Hidden,
     excused |-> {p} \cap Excused]

EditStep ==
    /\ GroupsNext
    /\ touched' = IF step = "idle" THEN touched
                  ELSE touched \cup {p \in Project : Standing(p)' # Standing(p)}
    /\ UNCHANGED planVars

Next == PlannerStep \/ EditStep

Spec == Init /\ [][Next]_vars
=============================================================================
