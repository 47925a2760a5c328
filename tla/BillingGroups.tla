----------------------------- MODULE BillingGroups -----------------------------
(***************************************************************************)
(* Billing-group configuration: which projects a group claims, which line  *)
(* items it bills every month, and what the operator decided about them;   *)
(* the snapshot of Harvest and the list of excluded clients beside it.     *)
(*                                                                         *)
(* An editor is one request that saves a group.  It is one transaction in  *)
(* two actions: what it reads and checks, with the group locked, and what  *)
(* becomes visible when it commits, which is where the unique index on     *)
(* active projects speaks.  Names, dates, prices and kinds are left out; a *)
(* line item is its id, and a decision is the row in                       *)
(* recurring_line_item_resolutions, whatever its month and amount.         *)
(***************************************************************************)
EXTENDS Integers, FiniteSets

CONSTANTS
    Group,
    Manual,    \* groups of billing_type manual
    Project,
    Client,
    Line,      \* ids of recurring_line_items
    Editor,
    MaxEdits,  \* bound on saves, deactivations, refreshes and exclusions
    None

ASSUME GroupsAssumption ==
    /\ Manual \subseteq Group
    /\ MaxEdits \in Nat
    /\ None \notin Group \cup Client

VARIABLES
    status,    \* billing_groups.is_active, "none" before the group exists
    client,    \* billing_groups.harvest_client_id
    members,   \* billing_group_projects
    claims,    \* the rows among them with group_is_active
    lines,     \* recurring_line_items
    decided,   \* lines with a row in recurring_line_item_resolutions
    gone,      \* lines that were deleted (history)
    snapshot,  \* harvest_projects, None where a project has no row
    excluded,  \* excluded_harvest_clients
    pc,        \* where each editor is
    form,      \* what it sent, and what its transaction read
    edits      \* requests and refreshes so far

config == <<status, client, members, claims, lines, decided, gone>>
world == <<snapshot, excluded>>
editor == <<pc, form>>
groupVars == <<status, client, members, claims, lines, decided, gone,
               snapshot, excluded, pc, form, edits>>

Facts == [client : Client, active : BOOLEAN, billable : BOOLEAN]

\* A request sends the projects, the lines, both or neither.
Part == {"projects", "lines"}

\* kept and new are the lines sent with and without an id; counts is what the
\* insert trigger reads of is_active.
Blank == [group |-> None, client |-> None, sent |-> {}, projects |-> {},
          kept |-> {}, new |-> {}, counts |-> FALSE]

\* Nothing is configured; the snapshot is whatever an earlier refresh left.
GroupsInit ==
    /\ status = [g \in Group |-> "none"]
    /\ client = [g \in Group |-> None]
    /\ members = [g \in Group |-> {}]
    /\ claims = [g \in Group |-> {}]
    /\ lines = [g \in Group |-> {}]
    /\ decided = {}
    /\ gone = {}
    /\ snapshot \in [Project -> Facts \cup {None}]
    /\ excluded = {}
    /\ pc = [e \in Editor |-> "idle"]
    /\ form = [e \in Editor |-> Blank]
    /\ edits = 0

Edits == edits < MaxEdits /\ edits' = edits + 1

(***************************************************************************)
(* Saving a group.                                                         *)
(***************************************************************************)

\* Some transaction holds the group FOR UPDATE, or is creating it.
Locked(g) == \E e \in Editor : pc[e] = "saving" /\ form[e].group = g

ClaimedElsewhere(g, ps) == \E h \in Group \ {g} : ps \cap claims[h] # {}

\* Every project is in the snapshot, belongs to the client, and is free.
ProjectsValid(g, c, ps) ==
    /\ \A p \in ps : snapshot[p] # None /\ snapshot[p].client = c
    /\ ~ClaimedElsewhere(g, ps)

\* Mutant: an id that is gone is inserted again instead of refused.
LinesKnownAlways(g, kept) == TRUE

\* No line is sent under an id that the group does not have (any more).
LinesKnown(g, kept) == kept \subseteq lines[g]

Accepted(g, c, ps, kept) == ProjectsValid(g, c, ps) /\ LinesKnown(g, kept)

AllLines == UNION {lines[g] : g \in Group}

\* Ids that get_group has shown to somebody, who may still have them in a form.
Shown == AllLines \cup gone

\* Ids are minted by the database and never come back.
Unused == Line \ (Shown \cup UNION {form[e].new : e \in Editor})

\* A request of update_group, or of create_group if the group is new.
Submits(g, sent, ps, kept, new) ==
    /\ ~Locked(g)
    /\ "projects" \notin sent => ps = {}
    /\ "lines" \notin sent => kept \cup new = {}
    /\ status[g] = "none" => sent = Part

BeginSave(e, g, c, sent, ps, kept, new) ==
    /\ Submits(g, sent, ps, kept, new)
    /\ Accepted(g, c, ps, kept)
    /\ pc' = [pc EXCEPT ![e] = "saving"]
    /\ form' = [form EXCEPT ![e] =
                  [group |-> g, client |-> c, sent |-> sent, projects |-> ps,
                   kept |-> kept, new |-> new, counts |-> (status[g] # "inactive")]]
    /\ UNCHANGED <<config, world>>

\* BillingConfigError: nothing is written.
SaveInvalid(g, c, sent, ps, kept, new) ==
    /\ Submits(g, sent, ps, kept, new)
    /\ ~Accepted(g, c, ps, kept)
    /\ UNCHANGED <<config, world, editor>>

\* Mutant: delete and reinsert, which takes the decisions of every line.
CascadeAll(e) ==
    IF "lines" \in form[e].sent THEN lines[form[e].group] ELSE {}

\* Lines that the request leaves out are deleted, and their decisions with them.
Cascade(e) ==
    IF "lines" \in form[e].sent THEN lines[form[e].group] \ form[e].kept ELSE {}

LinesAfter(e) ==
    IF "lines" \in form[e].sent THEN form[e].kept \cup form[e].new
    ELSE lines[form[e].group]

MembersAfter(e) ==
    IF "projects" \in form[e].sent THEN form[e].projects ELSE members[form[e].group]

\* group_is_active of the rows after the save: as the insert trigger sets it
\* on new rows, as it was on rows that stay.
ClaimsAfter(e) ==
    IF "projects" \notin form[e].sent THEN claims[form[e].group]
    ELSE IF form[e].counts THEN form[e].projects ELSE {}

\* Mutant: no unique index, only the check in _validate_projects.
IndexHoldsNever(e) == TRUE

\* billing_group_projects_one_active_group.
IndexHolds(e) == ~ClaimedElsewhere(form[e].group, ClaimsAfter(e))

CommitSave(e) ==
    LET g == form[e].group
    IN  /\ pc[e] = "saving"
        /\ IndexHolds(e)
        /\ status' = [status EXCEPT ![g] = IF @ = "none" THEN "active" ELSE @]
        /\ client' = [client EXCEPT ![g] = form[e].client]
        /\ members' = [members EXCEPT ![g] = MembersAfter(e)]
        /\ claims' = [claims EXCEPT ![g] = ClaimsAfter(e)]
        /\ lines' = [lines EXCEPT ![g] = LinesAfter(e)]
        /\ decided' = decided \ Cascade(e)
        /\ gone' = gone \cup (lines[g] \ LinesAfter(e))
        /\ pc' = [pc EXCEPT ![e] = "idle"]
        /\ form' = [form EXCEPT ![e] = Blank]
        /\ UNCHANGED <<world, edits>>

\* The index refuses the insert and the whole save is rolled back.
SaveCollides(e) ==
    /\ pc[e] = "saving"
    /\ ~IndexHolds(e)
    /\ pc' = [pc EXCEPT ![e] = "idle"]
    /\ form' = [form EXCEPT ![e] = Blank]
    /\ UNCHANGED <<config, world, edits>>

\* The update of is_active waits for a save that holds the group.
Deactivatable(g) == status[g] # "none" /\ ~Locked(g)

\* The trigger billing_groups_sync_child_active releases the claims.
ClaimsWhenInactive(g) == {}

Deactivate(g) ==
    /\ Deactivatable(g)
    /\ Edits
    /\ status' = [status EXCEPT ![g] = "inactive"]
    /\ claims' = [claims EXCEPT ![g] = ClaimsWhenInactive(g)]
    /\ UNCHANGED <<client, members, lines, decided, gone, world, editor>>

(***************************************************************************)
(* Decisions about placeholder lines.                                      *)
(***************************************************************************)

\* set_resolution, of a line that is still there (the foreign key).
Decide(l) ==
    /\ l \in AllLines
    /\ decided' = decided \cup {l}
    /\ UNCHANGED <<status, client, members, claims, lines, gone, world, editor, edits>>

\* clear_resolution.
Withdraw(l) ==
    /\ l \in decided
    /\ decided' = decided \ {l}
    /\ UNCHANGED <<status, client, members, claims, lines, gone, world, editor, edits>>

(***************************************************************************)
(* The snapshot and the exclusions.                                        *)
(***************************************************************************)

\* refresh_snapshot: one upsert of every project that Harvest listed; the row
\* of a project that Harvest no longer lists stays as it was.  (One that finds
\* nothing new is a stutter.)
RefreshSnapshot(listing) ==
    /\ Edits
    /\ \E p \in Project : listing[p] \notin {None, snapshot[p]}
    /\ snapshot' = [p \in Project |->
                      IF listing[p] = None THEN snapshot[p] ELSE listing[p]]
    /\ UNCHANGED <<config, excluded, editor>>

AddExclusion(c) ==
    /\ c \notin excluded
    /\ Edits
    /\ excluded' = excluded \cup {c}
    /\ UNCHANGED <<config, snapshot, editor>>

RemoveExclusion(c) ==
    /\ c \in excluded
    /\ Edits
    /\ excluded' = excluded \ {c}
    /\ UNCHANGED <<config, snapshot, editor>>

Save(e) ==
    /\ pc[e] = "idle"
    /\ Edits
    /\ \E g \in Group, c \in Client, sent \in SUBSET Part, ps \in SUBSET Project,
          kept \in SUBSET Shown, new \in SUBSET Unused :
          \/ BeginSave(e, g, c, sent, ps, kept, new)
          \/ SaveInvalid(g, c, sent, ps, kept, new)

GroupsNext ==
    \/ \E e \in Editor : Save(e) \/ CommitSave(e) \/ SaveCollides(e)
    \/ \E g \in Group : Deactivate(g)
    \/ \E l \in Line : Decide(l) \/ Withdraw(l)
    \/ \E listing \in [Project -> Facts \cup {None}] : RefreshSnapshot(listing)
    \/ \E c \in Client : AddExclusion(c) \/ RemoveExclusion(c)

GroupsSpec == GroupsInit /\ [][GroupsNext]_groupVars
=============================================================================
