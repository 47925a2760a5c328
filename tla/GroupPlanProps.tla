----------------------------- MODULE GroupPlanProps ----------------------------
(***************************************************************************)
(* What the configuration of billing groups promises, and what a plan says *)
(* about a configuration that changes while it is read.                    *)
(***************************************************************************)
EXTENDS GroupPlan

ConfigTypeOK ==
    /\ status \in [Group -> {"none", "active", "inactive"}]
    /\ client \in [Group -> Client \cup {None}]
    /\ members \in [Group -> SUBSET Project]
    /\ claims \in [Group -> SUBSET Project]
    /\ lines \in [Group -> SUBSET Line]
    /\ decided \subseteq Line
    /\ gone \subseteq Line
    /\ snapshot \in [Project -> Facts \cup {None}]
    /\ excluded \subseteq Client
    /\ pc \in [Editor -> {"idle", "saving"}]
    /\ form \in [Editor -> [group : Group \cup {None}, client : Client \cup {None},
                            sent : SUBSET Part, projects : SUBSET Project,
                            kept : SUBSET Line, new : SUBSET Line, counts : BOOLEAN]]
    /\ edits \in 0 .. MaxEdits

PlanTypeOK ==
    /\ step \in {"idle", "unmapped", "mismatched", "archived", "hidden",
                 "listed", "planned"}
    /\ report \in [unmapped : SUBSET Project, mismatched : SUBSET (Group \X Project),
                   archived : SUBSET Project, hidden : SUBSET Group]
    /\ listed \subseteq Group
    /\ billed \subseteq Group \X Project
    /\ touched \subseteq Project

TypeOK == ConfigTypeOK /\ PlanTypeOK

(***************************************************************************)
(* The configuration.                                                      *)
(***************************************************************************)

\* A project is in at most one active group, though two saves may both have
\* found it free; and group_is_active is what it copies, though saves and
\* deactivations overlap: so what claims a project is an active group.
OneActiveGroup ==
    /\ \A g, h \in Group :
          /\ g # h
          /\ status[g] = "active" /\ status[h] = "active"
          => members[g] \cap members[h] = {}
    /\ \A g \in Group :
          claims[g] = IF status[g] = "active" THEN members[g] ELSE {}

\* A line somebody removed does not come back when a form that was open
\* before is saved, and no line is in two groups (_save_recurring_items).
RemovedStaysRemoved ==
    /\ \A g \in Group : lines[g] \cap gone = {}
    /\ \A g, h \in Group : g # h => lines[g] \cap lines[h] = {}
    /\ decided \cap gone = {}

\* Saving a group keeps the decisions about every line that the form still
\* lists, and about every line of every other group.
SavesKeepDecisions ==
    [][\A e \in Editor : pc[e] = "saving" /\ pc'[e] = "idle" =>
          \A g \in Group : \A l \in lines[g] :
              \/ g = form[e].group /\ "lines" \in form[e].sent /\ l \notin form[e].kept
              \/ l \in lines'[g] /\ (l \in decided => l \in decided')]_vars

(***************************************************************************)
(* The plan.                                                               *)
(***************************************************************************)

BilledBy(p) == {g \in Group : <<g, p>> \in billed}

ByHand(p) == \E g \in Manual \cap ActiveGroups : p \in members[g]

\* Nothing falls between reconcile_config and list_groups: of the projects
\* that nobody touched while the plan was made, each is on one row, or billed
\* by hand, or reported as unmapped, unless it is excluded or not billable;
\* and none is on two rows, or both billed and reported.
EveryProjectAccounted ==
    step = "planned" => \A p \in Project \ touched :
        /\ \A g, h \in BilledBy(p) : g = h
        /\ p \in report.unmapped => BilledBy(p) = {}
        /\ p \in Live \ Excused =>
              p \in report.unmapped \/ BilledBy(p) # {} \/ ByHand(p)

\* A row that should not be there is announced: one that bills a project of
\* another client (Harvest answers 422), an archived project, or a client
\* that Settings calls excluded.
RowsAnnounced ==
    step = "planned" => \A gp \in billed : gp[2] \notin touched =>
        LET g == gp[1]
            p == gp[2]
        IN  /\ snapshot[p].client # client[g] => gp \in report.mismatched
            /\ ~snapshot[p].active => p \in report.archived
            /\ client[g] \in excluded => g \in report.hidden

(***************************************************************************)
(* The inductive invariant behind them.                                    *)
(***************************************************************************)

\* What a transaction read is still so when it commits, because it holds the
\* group; and no two transactions save one group or mint one id.
SavesHold ==
    /\ \A e \in Editor : pc[e] = "saving" =>
          /\ form[e].group \in Group
          /\ form[e].client \in Client
          /\ form[e].counts = (status[form[e].group] # "inactive")
          /\ form[e].kept \subseteq lines[form[e].group]
    /\ \A e \in Editor : form[e].new \cap Shown = {}
    /\ \A d, e \in Editor : d # e =>
          /\ form[d].new \cap form[e].new = {}
          /\ pc[d] = "saving" /\ pc[e] = "saving" => form[d].group # form[e].group

\* A group that does not exist claims nothing, and two groups claim apart.
ClaimsApart ==
    /\ \A g \in Group :
          /\ claims[g] = IF status[g] = "active" THEN members[g] ELSE {}
          /\ status[g] = "none" => members[g] = {}
    /\ \A g, h \in Group : g # h => claims[g] \cap claims[h] = {}

\* Only projects that the snapshot has are put into groups, and it keeps them.
MembersKnown ==
    /\ \A g \in Group : members[g] \subseteq Known
    /\ \A e \in Editor : form[e].projects \subseteq Known

Answered(name) ==
    CASE name = "unmapped" -> step # "idle"
      [] name = "mismatched" -> step \notin {"idle", "unmapped"}
      [] name = "archived" -> step \notin {"idle", "unmapped", "mismatched"}
      [] name = "hidden" -> step \in {"hidden", "listed", "planned"}
      [] name = "listed" -> step \in {"listed", "planned"}
      [] name = "planned" -> step = "planned"

\* Every answer that was given about a project is true now.
AnswersTrue(p) ==
    /\ Answered("unmapped") => (p \in report.unmapped <=> p \in Unmapped)
    /\ Answered("archived") => (p \in report.archived <=> p \in Archived)
    /\ \A g \in Homes(p) :
          /\ Answered("mismatched") =>
                (<<g, p>> \in report.mismatched <=> <<g, p>> \in Mismatched)
          /\ Answered("hidden") => (g \in report.hidden <=> g \in Hidden)
          /\ Answered("listed") => (g \in listed <=> g \in ActiveGroups)
    /\ Answered("planned") =>
          \A g \in Group : <<g, p>> \in billed <=> g \in Homes(p) \cap (listed \ Manual)

AnswersStand == \A p \in Project \ touched : AnswersTrue(p)
=============================================================================
