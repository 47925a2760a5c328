----------------------------- MODULE GroupPlanProof ----------------------------
(***************************************************************************)
(* Proofs about billing groups and the plan, for any number of groups,     *)
(* projects, clients, lines, editors and edits.                            *)
(***************************************************************************)
EXTENDS GroupPlanProps, TLAPS

ConfigInv ==
    ConfigTypeOK /\ SavesHold /\ ClaimsApart /\ MembersKnown /\ RemovedStaysRemoved

Inv == ConfigInv /\ PlanTypeOK /\ AnswersStand

(***************************************************************************)
(* The configuration.                                                      *)
(***************************************************************************)
LEMMA ConfigInit == GroupsInit => ConfigInv
  <1> SUFFICES ASSUME GroupsInit PROVE ConfigInv
    OBVIOUS
  <1> USE GroupsAssumption DEF GroupsInit, Blank
  <1>1. ConfigTypeOK
    BY DEF ConfigTypeOK
  <1>2. SavesHold
    BY DEF SavesHold
  <1>3. ClaimsApart /\ MembersKnown /\ RemovedStaysRemoved
    BY DEF ClaimsApart, MembersKnown, RemovedStaysRemoved
  <1> QED BY <1>1, <1>2, <1>3 DEF ConfigInv

LEMMA EditsType == ConfigTypeOK /\ Edits => edits' \in 0 .. MaxEdits
  BY GroupsAssumption DEF ConfigTypeOK, Edits

LEMMA BeginSaveKeeps ==
    ASSUME ConfigInv, NEW e \in Editor, NEW g \in Group, NEW c \in Client,
           NEW sent \in SUBSET Part, NEW ps \in SUBSET Project,
           NEW kept \in SUBSET Shown, NEW new \in SUBSET Unused,
           pc[e] = "idle", Edits, BeginSave(e, g, c, sent, ps, kept, new)
    PROVE  ConfigInv'
  <1> USE DEF ConfigInv, BeginSave, config, world
  <1>1. kept \in SUBSET Line /\ new \in SUBSET Line /\ new \cap Shown = {}
    BY DEF ConfigTypeOK, Shown, AllLines, Unused
  <1>2. ConfigTypeOK'
    BY <1>1, EditsType DEF ConfigTypeOK
  <1>3. /\ form'[e] = [group |-> g, client |-> c, sent |-> sent, projects |-> ps,
                       kept |-> kept, new |-> new, counts |-> (status[g] # "inactive")]
        /\ \A d \in Editor \ {e} : form'[d] = form[d] /\ pc'[d] = pc[d]
        /\ Shown' = Shown /\ Known' = Known
    BY DEF ConfigTypeOK, Shown, AllLines, Known
  <1>4. SavesHold'
    <2>1. \A d \in Editor : pc'[d] = "saving" =>
             /\ form'[d].group \in Group
             /\ form'[d].client \in Client
             /\ form'[d].counts = (status'[form'[d].group] # "inactive")
             /\ form'[d].kept \subseteq lines'[form'[d].group]
      BY <1>3 DEF SavesHold, Accepted, LinesKnown
    <2>2. \A d \in Editor : form'[d].new \cap Shown' = {}
      BY <1>1, <1>3 DEF SavesHold
    <2>3. \A d \in Editor \ {e} : form[d].new \cap new = {}
      BY DEF Unused
    <2>4. \A d \in Editor \ {e} : pc[d] = "saving" => form[d].group # g
      BY DEF Submits, Locked
    <2> QED BY <1>3, <2>1, <2>2, <2>3, <2>4 DEF SavesHold
  <1>5. MembersKnown'
    BY <1>3 DEF MembersKnown, Accepted, ProjectsValid, Known
  <1>6. ClaimsApart' /\ RemovedStaysRemoved'
    BY DEF ClaimsApart, RemovedStaysRemoved
  <1> QED BY <1>2, <1>4, <1>5, <1>6

LEMMA SaveInvalidKeeps ==
    ASSUME ConfigInv, NEW g \in Group, NEW c \in Client,
           NEW sent \in SUBSET Part, NEW ps \in SUBSET Project,
           NEW kept \in SUBSET Shown, NEW new \in SUBSET Unused,
           Edits, SaveInvalid(g, c, sent, ps, kept, new)
    PROVE  ConfigInv'
  BY EditsType DEF ConfigInv, SaveInvalid, config, world, editor, ConfigTypeOK, SavesHold,
     ClaimsApart, MembersKnown, RemovedStaysRemoved, Shown, AllLines, Known

\* What a committing save leaves in the lines of its group.
LEMMA CommittedLines ==
    ASSUME ConfigInv, NEW e \in Editor, CommitSave(e)
    PROVE  /\ form[e].group \in Group
           /\ LinesAfter(e) \subseteq lines[form[e].group] \cup form[e].new
           /\ Cascade(e) \subseteq lines[form[e].group]
           /\ Cascade(e) \cap LinesAfter(e) = {}
           /\ lines' = [lines EXCEPT ![form[e].group] = LinesAfter(e)]
           /\ gone' = gone \cup Cascade(e)
           /\ Shown' \subseteq Shown \cup form[e].new
  <1> DEFINE g == form[e].group
  <1> USE DEF ConfigInv, CommitSave
  <1>1. /\ g \in Group /\ form[e].kept \subseteq lines[g] /\ form[e].new \cap Shown = {}
        /\ lines[g] \subseteq Shown
    BY DEF SavesHold, Shown, AllLines
  <1>2. LinesAfter(e) \subseteq lines[g] \cup form[e].new
    BY <1>1 DEF LinesAfter
  <1>3. lines[g] \ LinesAfter(e) = Cascade(e)
    BY <1>1 DEF LinesAfter, Cascade
  <1>4. lines' = [lines EXCEPT ![g] = LinesAfter(e)] /\ gone' = gone \cup Cascade(e)
    BY <1>3
  <1>5. AllLines' \subseteq AllLines \cup form[e].new
    BY <1>1, <1>2, <1>4 DEF AllLines, ConfigTypeOK
  <1>6. Shown' \subseteq Shown \cup form[e].new
    BY <1>1, <1>4, <1>5 DEF Shown, Cascade
  <1> HIDE DEF ConfigInv, CommitSave
  <1> QED BY <1>1, <1>2, <1>3, <1>4, <1>6

LEMMA CommitSaveKeeps ==
    ASSUME ConfigInv, NEW e \in Editor, CommitSave(e)
    PROVE  ConfigInv'
  <1> DEFINE g == form[e].group
  <1> USE DEF ConfigInv, CommitSave, world
  <1>1. g \in Group /\ form[e].client \in Client
    BY DEF SavesHold
  <1>2. ConfigTypeOK'
    <2>1. /\ MembersAfter(e) \in SUBSET Project /\ ClaimsAfter(e) \in SUBSET Project
          /\ LinesAfter(e) \in SUBSET Line
      BY <1>1 DEF ConfigTypeOK, MembersAfter, ClaimsAfter, LinesAfter
    <2>2. gone' \subseteq Line /\ decided' \subseteq Line
      BY <1>1, <2>1 DEF ConfigTypeOK
    <2>3. /\ status' \in [Group -> {"none", "active", "inactive"}]
          /\ client' \in [Group -> Client \cup {None}]
          /\ members' \in [Group -> SUBSET Project]
          /\ claims' \in [Group -> SUBSET Project]
          /\ lines' \in [Group -> SUBSET Line]
      BY <1>1, <2>1 DEF ConfigTypeOK
    <2>4. form' \in [Editor -> [group : Group \cup {None}, client : Client \cup {None},
                                sent : SUBSET Part, projects : SUBSET Project,
                                kept : SUBSET Line, new : SUBSET Line, counts : BOOLEAN]]
      BY DEF ConfigTypeOK, Blank
    <2> QED BY <2>2, <2>3, <2>4 DEF ConfigTypeOK
  <1>3. /\ form'[e] = Blank /\ pc'[e] = "idle"
        /\ \A d \in Editor \ {e} : form'[d] = form[d] /\ pc'[d] = pc[d]
        /\ Known' = Known
    BY DEF ConfigTypeOK, Known
  <1>4. SavesHold'
    <2>1. \A d \in Editor : pc'[d] = "saving" =>
             d # e /\ form[d].group \in Group \ {g}
      BY <1>3 DEF SavesHold
    <2>2. \A d \in Editor : pc'[d] = "saving" =>
             /\ form'[d].group \in Group
             /\ form'[d].client \in Client
             /\ form'[d].counts = (status'[form'[d].group] # "inactive")
             /\ form'[d].kept \subseteq lines'[form'[d].group]
      BY <1>1, <1>2, <1>3, <2>1 DEF SavesHold, ConfigTypeOK
    <2>3. \A d \in Editor \ {e} : form[d].new \cap form[e].new = {}
      BY DEF SavesHold
    <2>4. \A d \in Editor : form'[d].new \cap Shown' = {}
      <3>1. \A d \in Editor : form[d].new \cap Shown = {}
        BY DEF SavesHold
      <3>2. Shown' \subseteq Shown \cup form[e].new
        BY CommittedLines
      <3>3. form'[e].new = {} /\ \A d \in Editor \ {e} : form'[d].new = form[d].new
        BY <1>3 DEF Blank
      <3> HIDE DEF ConfigInv, CommitSave
      <3> QED BY <2>3, <3>1, <3>2, <3>3
    <2>5. \A d, f \in Editor : d # f =>
             /\ form'[d].new \cap form'[f].new = {}
             /\ pc'[d] = "saving" /\ pc'[f] = "saving" => form'[d].group # form'[f].group
      BY <1>3, <2>1 DEF SavesHold, Blank
    <2> QED BY <2>2, <2>4, <2>5 DEF SavesHold
  <1>5. ClaimsApart'
    <2>1. status[g] = "none" => form[e].counts
      BY <1>1 DEF SavesHold
    <2>2. claims'[g] = IF status'[g] = "active" THEN members'[g] ELSE {}
      <3>1. /\ claims'[g] = ClaimsAfter(e) /\ members'[g] = MembersAfter(e)
            /\ status'[g] = IF status[g] = "none" THEN "active" ELSE status[g]
            /\ status[g] \in {"none", "active", "inactive"}
        BY <1>1 DEF ConfigTypeOK
      <3>2. form[e].counts = (status[g] # "inactive")
        BY DEF SavesHold
      <3>3. /\ claims[g] = IF status[g] = "active" THEN members[g] ELSE {}
            /\ status[g] = "none" => members[g] = {}
        BY <1>1 DEF ClaimsApart
      <3>4. CASE "projects" \in form[e].sent
        BY <3>1, <3>2, <3>4 DEF MembersAfter, ClaimsAfter
      <3>5. CASE "projects" \notin form[e].sent
        BY <3>1, <3>3, <3>5 DEF MembersAfter, ClaimsAfter
      <3> QED BY <3>4, <3>5
    <2>3. \A h \in Group \ {g} : claims'[g] \cap claims[h] = {}
      BY <1>1 DEF ConfigTypeOK, IndexHolds, ClaimedElsewhere
    <2>4. \A h \in Group \ {g} : /\ claims'[h] = claims[h] /\ members'[h] = members[h]
                                 /\ status'[h] = status[h]
      BY <1>1 DEF ConfigTypeOK
    <2>5. status'[g] # "none"
      BY <1>1 DEF ConfigTypeOK
    <2> QED BY <1>1, <2>2, <2>3, <2>4, <2>5 DEF ClaimsApart
  <1>6. MembersKnown'
    BY <1>1, <1>3 DEF MembersKnown, MembersAfter, ConfigTypeOK, Blank
  <1>7. RemovedStaysRemoved'
    <2>1. form[e].new \cap Shown = {}
      BY DEF SavesHold
    <2>2. \A h \in Group : lines[h] \subseteq Shown /\ gone \subseteq Shown
      BY DEF Shown, AllLines
    <2>3. lines'[g] = LinesAfter(e) /\ \A h \in Group \ {g} : lines'[h] = lines[h]
      BY <1>1, CommittedLines DEF ConfigTypeOK
    <2>4. /\ LinesAfter(e) \subseteq lines[g] \cup form[e].new
          /\ Cascade(e) \subseteq lines[g] /\ Cascade(e) \cap LinesAfter(e) = {}
          /\ gone' = gone \cup Cascade(e) /\ decided' = decided \ Cascade(e)
      BY CommittedLines
    <2>5. /\ decided \cap gone = {} /\ lines[g] \cap gone = {}
          /\ \A h \in Group : lines[h] \cap gone = {}
          /\ \A h, k \in Group : h # k => lines[h] \cap lines[k] = {}
      BY <1>1 DEF RemovedStaysRemoved
    <2> HIDE DEF ConfigInv, CommitSave, g
    <2>6. lines'[g] \cap gone' = {}
      BY <1>1, <2>1, <2>2, <2>3, <2>4, <2>5
    <2>7. \A h \in Group \ {g} : lines'[h] \cap gone' = {} /\ lines'[h] \cap lines'[g] = {}
      BY <1>1, <2>1, <2>2, <2>3, <2>4, <2>5
    <2>8. decided' \cap gone' = {}
      BY <2>4, <2>5
    <2>9. ASSUME NEW h \in Group, NEW k \in Group, h # k
          PROVE  lines'[h] \cap lines'[k] = {}
      BY <2>3, <2>5, <2>7, <2>9
    <2> QED BY <2>3, <2>6, <2>7, <2>8, <2>9 DEF RemovedStaysRemoved
  <1> QED BY <1>2, <1>4, <1>5, <1>6, <1>7

LEMMA SaveCollidesKeeps ==
    ASSUME ConfigInv, NEW e \in Editor, SaveCollides(e)
    PROVE  ConfigInv'
  <1> USE DEF ConfigInv, SaveCollides, config, world
  <1>1. ConfigTypeOK'
    BY DEF ConfigTypeOK, Blank
  <1>2. /\ form'[e] = Blank /\ pc'[e] = "idle"
        /\ \A d \in Editor \ {e} : form'[d] = form[d] /\ pc'[d] = pc[d]
        /\ Known' = Known /\ Shown' = Shown
    BY DEF ConfigTypeOK, Known, Shown, AllLines
  <1>3. SavesHold'
    <2>1. \A d \in Editor : pc'[d] = "saving" => d # e
      BY <1>2
    <2>2. \A d \in Editor : pc'[d] = "saving" =>
             /\ form'[d].group \in Group
             /\ form'[d].client \in Client
             /\ form'[d].counts = (status'[form'[d].group] # "inactive")
             /\ form'[d].kept \subseteq lines'[form'[d].group]
      BY <1>2, <2>1 DEF SavesHold
    <2>3. \A d \in Editor : form'[d].new \cap Shown' = {}
      BY <1>2 DEF SavesHold, Blank
    <2>4. \A d, f \in Editor : d # f =>
             /\ form'[d].new \cap form'[f].new = {}
             /\ pc'[d] = "saving" /\ pc'[f] = "saving" => form'[d].group # form'[f].group
      BY <1>2, <2>1 DEF SavesHold, Blank
    <2> QED BY <2>2, <2>3, <2>4 DEF SavesHold
  <1>4. ClaimsApart' /\ RemovedStaysRemoved'
    BY DEF ClaimsApart, RemovedStaysRemoved
  <1>5. MembersKnown'
    BY <1>2 DEF MembersKnown, Blank
  <1> QED BY <1>1, <1>3, <1>4, <1>5
LEMMA DeactivateKeeps ==
    ASSUME ConfigInv, NEW g \in Group, Deactivate(g)
    PROVE  ConfigInv'
  <1> USE DEF ConfigInv, Deactivate, Deactivatable, ClaimsWhenInactive, world, editor
  <1>1. ConfigTypeOK'
    BY EditsType DEF ConfigTypeOK
  <1>2. /\ status'[g] = "inactive" /\ claims'[g] = {}
        /\ \A h \in Group \ {g} : status'[h] = status[h] /\ claims'[h] = claims[h]
        /\ Shown' = Shown /\ Known' = Known
    BY DEF ConfigTypeOK, Shown, AllLines, Known
  <1>3. SavesHold'
    BY <1>2 DEF SavesHold, Locked
  <1>4. ClaimsApart'
    BY <1>2 DEF ClaimsApart
  <1>5. MembersKnown' /\ RemovedStaysRemoved'
    BY <1>2 DEF MembersKnown, RemovedStaysRemoved
  <1> QED BY <1>1, <1>3, <1>4, <1>5

LEMMA DecisionsKeep ==
    ASSUME ConfigInv, NEW l \in Line, Decide(l) \/ Withdraw(l)
    PROVE  ConfigInv'
  <1> USE DEF ConfigInv, Decide, Withdraw, world, editor
  <1>1. ConfigTypeOK'
    BY DEF ConfigTypeOK
  <1>2. Shown' = Shown /\ Known' = Known
    BY DEF Shown, AllLines, Known
  <1>3. SavesHold' /\ ClaimsApart' /\ MembersKnown'
    BY <1>2 DEF SavesHold, ClaimsApart, MembersKnown
  <1>4. decided' \cap gone' = {}
    BY DEF RemovedStaysRemoved, AllLines
  <1>5. RemovedStaysRemoved'
    BY <1>4 DEF RemovedStaysRemoved
  <1> QED BY <1>1, <1>3, <1>5

LEMMA WorldKeeps ==
    ASSUME ConfigInv,
           \/ \E listing \in [Project -> Facts \cup {None}] : RefreshSnapshot(listing)
           \/ \E c \in Client : AddExclusion(c) \/ RemoveExclusion(c)
    PROVE  ConfigInv'
  <1> USE DEF ConfigInv, config, editor
  <1>1. UNCHANGED <<config, editor>> /\ Edits
    BY DEF RefreshSnapshot, AddExclusion, RemoveExclusion
  <1>2. snapshot' \in [Project -> Facts \cup {None}] /\ excluded' \subseteq Client
    BY DEF ConfigTypeOK, RefreshSnapshot, AddExclusion, RemoveExclusion
  <1>3. Known \subseteq Known'
    BY DEF Known, RefreshSnapshot, AddExclusion, RemoveExclusion
  <1>4. ConfigTypeOK'
    BY <1>1, <1>2, EditsType DEF ConfigTypeOK
  <1>5. SavesHold' /\ ClaimsApart' /\ RemovedStaysRemoved'
    BY <1>1 DEF SavesHold, ClaimsApart, RemovedStaysRemoved, Shown, AllLines
  <1>6. MembersKnown'
    BY <1>1, <1>3 DEF MembersKnown
  <1> QED BY <1>4, <1>5, <1>6

LEMMA ConfigStep == ConfigInv /\ [GroupsNext]_groupVars => ConfigInv'
  <1> SUFFICES ASSUME ConfigInv, [GroupsNext]_groupVars PROVE ConfigInv'
    OBVIOUS
  <1>1. ASSUME NEW e \in Editor, Save(e) PROVE ConfigInv'
    BY <1>1, BeginSaveKeeps, SaveInvalidKeeps DEF Save
  <1>2. ASSUME NEW e \in Editor, CommitSave(e) \/ SaveCollides(e) PROVE ConfigInv'
    BY <1>2, CommitSaveKeeps, SaveCollidesKeeps
  <1>3. CASE UNCHANGED groupVars
    BY <1>3 DEF groupVars, ConfigInv, ConfigTypeOK, SavesHold, ClaimsApart, MembersKnown,
       RemovedStaysRemoved, Shown, AllLines, Known
  <1> QED BY <1>1, <1>2, <1>3, DeactivateKeeps, DecisionsKeep, WorldKeeps DEF GroupsNext

(***************************************************************************)
(* The plan.                                                               *)
(***************************************************************************)
LEMMA PlanInit == Init => Inv
  BY ConfigInit DEF Init, Inv, PlanTypeOK, AnswersStand, AnswersTrue, Answered, NoReport

LEMMA PlanTyped == Inv /\ Next => PlanTypeOK'
  <1> SUFFICES ASSUME Inv, Next PROVE PlanTypeOK'
    OBVIOUS
  <1> USE DEF Inv, PlanTypeOK, ConfigInv, ConfigTypeOK
  <1>1. CASE EditStep
    BY <1>1 DEF EditStep, planVars
  <1>2. CASE PlannerStep
    <2>1. touched' \subseteq Project
      BY <1>2 DEF PlannerStep
    <2>2. /\ Unmapped \in SUBSET Project /\ Mismatched \in SUBSET (Group \X Project)
          /\ Archived \in SUBSET Project /\ Hidden \in SUBSET Group
          /\ Listed \in SUBSET Group /\ Rows \in SUBSET (Group \X Project)
      BY DEF Unmapped, Mismatched, Archived, Hidden, Listed, Rows, Live, Known, ActiveGroups
    <2>3. CASE FindUnmapped
      BY <2>1, <2>2, <2>3 DEF FindUnmapped, Statement, NoReport
    <2>4. CASE FindMismatched \/ FindArchived \/ FindHidden
      BY <2>1, <2>2, <2>4 DEF FindMismatched, FindArchived, FindHidden, Statement
    <2>5. CASE ListGroups \/ PlanRun
      BY <2>1, <2>2, <2>5 DEF ListGroups, PlanRun, Statement
    <2> QED BY <1>2, <2>3, <2>4, <2>5 DEF PlannerStep
  <1> QED BY <1>1, <1>2 DEF Next

\* Where the standing of a project is the same, so is every answer about it.
LEMMA StandingDecides ==
    ASSUME NEW p \in Project, Standing(p)' = Standing(p)
    PROVE  /\ Homes(p)' = Homes(p)
           /\ p \in Unmapped' <=> p \in Unmapped
           /\ p \in Archived' <=> p \in Archived
           /\ \A g \in Homes(p) :
                 /\ <<g, p>> \in Mismatched' <=> <<g, p>> \in Mismatched
                 /\ g \in Hidden' <=> g \in Hidden
                 /\ g \in ActiveGroups' <=> g \in ActiveGroups
  <1>1. /\ snapshot'[p] = snapshot[p]
        /\ Homes(p)' = Homes(p)
        /\ (Homes(p) \cap ActiveGroups)' = Homes(p) \cap ActiveGroups
        /\ {g \in Group : p \in claims[g]}' = {g \in Group : p \in claims[g]}
        /\ {g \in Homes(p) : <<g, p>> \in Mismatched}' = {g \in Homes(p) : <<g, p>> \in Mismatched}
        /\ (Homes(p) \cap Hidden)' = Homes(p) \cap Hidden
        /\ ({p} \cap Excused)' = {p} \cap Excused
    BY DEF Standing
  <1>2. \A g \in Group : p \in claims'[g] <=> p \in claims[g]
    BY <1>1
  <1>3. p \in Live' <=> p \in Live
    BY <1>1 DEF Live, Known
  <1>4. p \in Excused' <=> p \in Excused
    BY <1>1
  <1>5. p \in Unmapped' <=> p \in Unmapped
    BY <1>2, <1>3, <1>4 DEF Unmapped
  <1>6. p \in Archived' <=> p \in Archived
    BY <1>1, <1>2 DEF Archived, Known
  <1>7. ASSUME NEW g \in Homes(p)
        PROVE  /\ <<g, p>> \in Mismatched' <=> <<g, p>> \in Mismatched
               /\ g \in Hidden' <=> g \in Hidden
               /\ g \in ActiveGroups' <=> g \in ActiveGroups
    BY <1>1
  <1> QED BY <1>1, <1>5, <1>6, <1>7

LEMMA EditKeepsAnswers == Inv /\ EditStep => AnswersStand'
  <1> SUFFICES ASSUME Inv, EditStep, NEW p \in Project, p \notin touched'
               PROVE  AnswersTrue(p)'
    BY DEF AnswersStand
  <1>1. UNCHANGED planVars
    BY DEF EditStep
  <1>2. CASE step = "idle"
    BY <1>1, <1>2 DEF planVars, AnswersTrue, Answered
  <1>3. CASE step # "idle"
    <2>1. p \notin touched /\ Standing(p)' = Standing(p)
      BY <1>3 DEF EditStep
    <2>2. AnswersTrue(p)
      BY <2>1 DEF Inv, AnswersStand
    <2>3. \A name \in {"unmapped", "mismatched", "archived", "hidden", "listed", "planned"} :
             Answered(name)' = Answered(name)
      BY <1>1 DEF planVars, Answered
    <2>4. QED
      BY <1>1, <2>1, <2>2, <2>3, StandingDecides DEF planVars, AnswersTrue
  <1> QED BY <1>2, <1>3

LEMMA PlannerKeepsAnswers == Inv /\ PlannerStep => AnswersStand'
  <1> SUFFICES ASSUME Inv, PlannerStep, NEW p \in Project, p \notin touched'
               PROVE  AnswersTrue(p)'
    BY DEF AnswersStand
  <1>1. /\ Unmapped' = Unmapped /\ Archived' = Archived /\ Mismatched' = Mismatched
        /\ Hidden' = Hidden /\ ActiveGroups' = ActiveGroups /\ Homes(p)' = Homes(p)
    BY DEF PlannerStep, groupVars, Unmapped, Archived, Mismatched, Hidden, ActiveGroups,
       Homes, Live, Known, Excused
  <1>2. CASE FindUnmapped
    BY <1>1, <1>2 DEF FindUnmapped, Statement, AnswersTrue, Answered, NoReport
  <1> DEFINE Middle == FindMismatched \/ FindArchived \/ FindHidden \/ ListGroups \/ PlanRun
  <1>3. Middle => AnswersTrue(p)
    BY DEF FindMismatched, FindArchived, FindHidden, ListGroups, PlanRun, Statement,
       PlannerStep, Inv, AnswersStand
  <1>4. CASE FindMismatched
    BY <1>1, <1>3, <1>4 DEF FindMismatched, Statement, AnswersTrue, Answered, Inv, PlanTypeOK
  <1>5. CASE FindArchived
    BY <1>1, <1>3, <1>5 DEF FindArchived, Statement, AnswersTrue, Answered, Inv, PlanTypeOK
  <1>6. CASE FindHidden
    BY <1>1, <1>3, <1>6 DEF FindHidden, Statement, AnswersTrue, Answered, Inv, PlanTypeOK
  <1>7. CASE ListGroups
    BY <1>1, <1>3, <1>7 DEF ListGroups, Statement, AnswersTrue, Answered, Listed
  <1>8. CASE PlanRun
    <2>1. \A g \in Group : <<g, p>> \in Rows <=> g \in Homes(p) \cap (listed \ Manual)
      BY DEF Rows, Homes, Inv, PlanTypeOK
    <2> QED BY <1>1, <1>3, <1>8, <2>1 DEF PlanRun, Statement, AnswersTrue, Answered
  <1> QED BY <1>2, <1>4, <1>5, <1>6, <1>7, <1>8 DEF PlannerStep

LEMMA Step == Inv /\ [Next]_vars => Inv'
  <1> SUFFICES ASSUME Inv, [Next]_vars PROVE Inv'
    OBVIOUS
  <1>1. CASE EditStep
    BY <1>1, ConfigStep, PlanTyped, EditKeepsAnswers DEF EditStep, Next, Inv
  <1>2. CASE PlannerStep
    BY <1>2, ConfigStep, PlanTyped, PlannerKeepsAnswers DEF PlannerStep, Next, Inv
  <1>3. CASE UNCHANGED vars
    <2>1. ConfigInv'
      BY <1>3, ConfigStep DEF vars, groupVars, Inv
    <2>2. PlanTypeOK' /\ AnswersStand'
      BY <1>3 DEF vars, Inv, PlanTypeOK, AnswersStand, AnswersTrue, Answered, Unmapped,
         Archived, Mismatched, Hidden, ActiveGroups, Homes, Live, Known, Excused
    <2> QED BY <2>1, <2>2 DEF Inv
  <1> QED BY <1>1, <1>2, <1>3 DEF Next

LEMMA Invariance == Spec => []Inv
  BY PlanInit, Step, PTL DEF Spec

(***************************************************************************)
(* Theorems.                                                               *)
(***************************************************************************)

\* Every table, request and report holds what it is declared to hold.
THEOREM Typing == Spec => []TypeOK
  <1>1. Inv => TypeOK
    BY DEF Inv, ConfigInv, TypeOK
  <1> QED BY <1>1, Invariance, PTL

\* The unique index keeps every project in one active group, whatever saves and
\* deactivations overlap (billing_group_projects_one_active_group).
THEOREM ProjectsClaimedOnce == Spec => []OneActiveGroup
  <1>1. Inv => OneActiveGroup
    BY DEF Inv, ConfigInv, ClaimsApart, OneActiveGroup
  <1> QED BY <1>1, Invariance, PTL

\* A line that was removed stays removed (_save_recurring_items).
THEOREM LinesStayRemoved == Spec => []RemovedStaysRemoved
  <1>1. Inv => RemovedStaysRemoved
    BY DEF Inv, ConfigInv
  <1> QED BY <1>1, Invariance, PTL

\* A save keeps the decisions about the lines it keeps (_save_recurring_items).
THEOREM DecisionsSurvive == Spec => SavesKeepDecisions
  <1> DEFINE Keeps ==
        \A e \in Editor : pc[e] = "saving" /\ pc'[e] = "idle" =>
          \A g \in Group : \A l \in lines[g] :
              \/ g = form[e].group /\ "lines" \in form[e].sent /\ l \notin form[e].kept
              \/ l \in lines'[g] /\ (l \in decided => l \in decided')
  <1>1. ASSUME Inv, [Next]_vars, NEW e \in Editor, pc[e] = "saving", pc'[e] = "idle"
        PROVE  CommitSave(e) \/ SaveCollides(e)
    BY <1>1 DEF Inv, ConfigInv, ConfigTypeOK, Next, PlannerStep, EditStep, vars, groupVars,
       GroupsNext, Save, BeginSave, SaveInvalid, CommitSave, SaveCollides, Deactivate,
       Decide, Withdraw, RefreshSnapshot, AddExclusion, RemoveExclusion, editor
  <1>2. ASSUME Inv, NEW e \in Editor, CommitSave(e) \/ SaveCollides(e),
               NEW g \in Group, NEW l \in lines[g]
        PROVE  \/ g = form[e].group /\ "lines" \in form[e].sent /\ l \notin form[e].kept
               \/ l \in lines'[g] /\ (l \in decided => l \in decided')
    <2>1. CASE SaveCollides(e)
      BY <2>1 DEF SaveCollides, config
    <2>2. CASE CommitSave(e) /\ g # form[e].group
      <3>1. l \in lines'[g]
        BY <2>2 DEF CommitSave, Inv, ConfigInv, ConfigTypeOK
      <3>2. form[e].group \in Group /\ Cascade(e) \subseteq lines[form[e].group]
        BY <1>2, <2>2, CommittedLines DEF Inv
      <3>3. lines[g] \cap lines[form[e].group] = {}
        BY <1>2, <2>2, <3>2 DEF Inv, ConfigInv, RemovedStaysRemoved
      <3> QED BY <2>2, <3>1, <3>2, <3>3 DEF CommitSave
    <2>3. CASE CommitSave(e) /\ g = form[e].group
      <3>1. lines'[g] = LinesAfter(e) /\ decided' = decided \ Cascade(e)
        BY <1>2, <2>3, CommittedLines DEF CommitSave, Inv, ConfigInv, ConfigTypeOK
      <3> QED BY <2>3, <3>1 DEF LinesAfter, Cascade
    <2> QED BY <1>2, <2>1, <2>2, <2>3
  <1>3. Inv /\ [Next]_vars => [Keeps]_vars
    BY <1>1, <1>2
  <1> QED BY <1>3, Invariance, PTL DEF Spec, SavesKeepDecisions

LEMMA BilledMeansClaimed ==
    ASSUME Inv, step = "planned", NEW p \in Project, p \notin touched, NEW g \in BilledBy(p)
    PROVE  /\ g \in Group /\ g \in Homes(p) /\ status[g] = "active" /\ p \in claims[g]
           /\ p \in Known
  <1>1. AnswersTrue(p) /\ g \in Group /\ <<g, p>> \in billed
    BY DEF Inv, AnswersStand, BilledBy
  <1>2. g \in Homes(p) /\ g \in listed
    BY <1>1 DEF AnswersTrue, Answered
  <1>3. status[g] = "active"
    BY <1>1, <1>2 DEF AnswersTrue, Answered, ActiveGroups
  <1> QED BY <1>1, <1>2, <1>3 DEF Inv, ConfigInv, ClaimsApart, MembersKnown, Homes

\* Nothing falls between the statements of a plan, and nothing is billed twice,
\* unless it is edited meanwhile (plan_run, reconcile_config, list_groups).
THEOREM PlanAccounts == Spec => []EveryProjectAccounted
  <1>1. ASSUME Inv, step = "planned", NEW p \in Project \ touched
        PROVE  /\ \A g, h \in BilledBy(p) : g = h
               /\ p \in report.unmapped => BilledBy(p) = {}
               /\ p \in Live \ Excused =>
                     p \in report.unmapped \/ BilledBy(p) # {} \/ ByHand(p)
    <2>1. AnswersTrue(p)
      BY <1>1 DEF Inv, AnswersStand
    <2>2. \A g, h \in BilledBy(p) : g = h
      BY <1>1, BilledMeansClaimed DEF Inv, ConfigInv, ClaimsApart
    <2>3. p \in report.unmapped => BilledBy(p) = {}
      BY <1>1, <2>1, BilledMeansClaimed DEF AnswersTrue, Answered, Unmapped
    <2>4. ASSUME p \in Live \ Excused, p \notin report.unmapped
          PROVE  BilledBy(p) # {} \/ ByHand(p)
      <3>1. PICK g \in Group : p \in claims[g]
        BY <1>1, <2>1, <2>4 DEF AnswersTrue, Answered, Unmapped
      <3>2. status[g] = "active" /\ p \in members[g]
        BY <1>1, <3>1 DEF Inv, ConfigInv, ClaimsApart
      <3>3. g \in Homes(p) /\ g \in listed
        BY <1>1, <2>1, <3>2 DEF AnswersTrue, Answered, Homes, ActiveGroups
      <3>4. CASE g \in Manual
        BY <3>2, <3>4 DEF ByHand, ActiveGroups
      <3>5. CASE g \notin Manual
        BY <1>1, <2>1, <3>3, <3>5 DEF AnswersTrue, Answered, BilledBy
      <3> QED BY <3>4, <3>5
    <2> QED BY <2>2, <2>3, <2>4
  <1>2. Inv => EveryProjectAccounted
    BY <1>1 DEF EveryProjectAccounted
  <1> QED BY <1>2, Invariance, PTL

\* A row that should not be there is announced by a flag (reconcile_config).
THEOREM PlanAnnounces == Spec => []RowsAnnounced
  <1>1. ASSUME Inv, step = "planned", NEW gp \in billed, gp[2] \notin touched
        PROVE  /\ snapshot[gp[2]].client # client[gp[1]] => gp \in report.mismatched
               /\ ~snapshot[gp[2]].active => gp[2] \in report.archived
               /\ client[gp[1]] \in excluded => gp[1] \in report.hidden
    <2>1. PICK g \in Group, p \in Project : gp = <<g, p>>
      BY <1>1 DEF Inv, PlanTypeOK
    <2>2. g \in BilledBy(p) /\ p \notin touched /\ AnswersTrue(p)
      BY <1>1, <2>1 DEF BilledBy, Inv, AnswersStand
    <2>3. g \in Homes(p) /\ status[g] = "active" /\ p \in claims[g] /\ p \in Known
      BY <1>1, <2>2, BilledMeansClaimed
    <2>4. snapshot[p].client # client[g] => <<g, p>> \in report.mismatched
      BY <1>1, <2>2, <2>3 DEF AnswersTrue, Answered, Mismatched, ActiveGroups, Homes
    <2>5. ~snapshot[p].active => p \in report.archived
      BY <1>1, <2>2, <2>3 DEF AnswersTrue, Answered, Archived
    <2>6. client[g] \in excluded => g \in report.hidden
      BY <1>1, <2>2, <2>3 DEF AnswersTrue, Answered, Hidden, ActiveGroups
    <2> QED BY <2>1, <2>4, <2>5, <2>6
  <1>2. Inv => RowsAnnounced
    BY <1>1 DEF RowsAnnounced
  <1> QED BY <1>2, Invariance, PTL
=============================================================================
