---------------------------- MODULE InvoiceCalendar ----------------------------
(***************************************************************************)
(* What one billing group puts on its invoices, month after month: the     *)
(* service period, the dates, the time entries an estimate counts and      *)
(* Harvest then imports, and the recurring lines in force.                 *)
(*                                                                         *)
(* Days are numbered; the calendar is a parameter.  The protocol around    *)
(* the POST is BillingRun's: here a row is planned, perhaps planned again, *)
(* and drafted at once.                                                    *)
(***************************************************************************)
EXTENDS Integers

CONSTANTS
    Entry,      \* time entries
    Line,       \* recurring line items
    LastMonth,  \* run months are 1..LastMonth
    FirstDay,   \* FirstDay[m]: first day of month m, of the one after the last too
    MonthOf,    \* MonthOf[d]: the month of day d
    NetDays,    \* payment terms, in days
    Lookback,   \* STRAGGLER_LOOKBACK_DAYS
    None

Month == 1..LastMonth
Day == FirstDay[0]..(FirstDay[LastMonth + 1] - 1)

ASSUME CalendarAssumption ==
    /\ LastMonth \in Nat \ {0}
    /\ FirstDay \in [0..(LastMonth + 1) -> Nat]
    /\ \A m, n \in 0..(LastMonth + 1) : m < n => FirstDay[m] < FirstDay[n]
    /\ MonthOf \in [Day -> 0..LastMonth]
    /\ \A d \in Day : FirstDay[MonthOf[d]] <= d /\ d < FirstDay[MonthOf[d] + 1]
    /\ NetDays \subseteq Nat
    /\ Lookback \in Nat

VARIABLES
    today,     \* the day on the server
    timing,    \* billing_groups.billing_timing
    net,       \* the days of its payment_term
    monthly,   \* billing_type: TRUE recurring_monthly, FALSE time_and_materials
    entry,     \* Harvest's time entries, None before they are logged
    line,      \* recurring_line_items, None before they are added
    row        \* the group's billing_run_items row of a run month, None before a plan

config == <<timing, net, monthly>>
vars == <<today, config, entry, line, row>>

Timing == {"arrears", "advance"}

\* priced: a rate is found on the entry, its project or its task assignment.
TimeEntry == [day : Day, priced : BOOLEAN, billed : BOOLEAN]
RecurringLine == [from : Day \cup {None}, to : Day \cup {None}]

ASSUME NoneAssumption ==
    None \notin Day /\ None \notin RecurringLine /\ None \notin TimeEntry

(***************************************************************************)
(* Dates.                                                                  *)
(***************************************************************************)

LastDayOf(m) == FirstDay[m + 1] - 1

\* Mutant: arrears go a calendar month back from the last day, not to the first.
PeriodUnaligned(m, t) ==
    IF t = "advance"
    THEN [start |-> FirstDay[m], end |-> LastDayOf(m), issue |-> FirstDay[m]]
    ELSE [start |-> FirstDay[m] - 1, end |-> FirstDay[m] - 1, issue |-> FirstDay[m] - 1]

\* Service period and issue date of a group in the run of month m.
Period(m, t) ==
    IF t = "advance"
    THEN [start |-> FirstDay[m], end |-> LastDayOf(m), issue |-> FirstDay[m]]
    ELSE LET end == FirstDay[m] - 1
         IN  [start |-> FirstDay[MonthOf[end]], end |-> end, issue |-> end]

\* Mutant: the clock starts on the draft day, also when that is before issue.
DraftDueEarly(r, d) == d + (r.due - r.issue)

\* The due date that is sent: the row's own days, from the draft day on.
DraftDue(r, d) ==
    (IF d > r.issue THEN d ELSE r.issue) + (r.due - r.issue)

(***************************************************************************)
(* Time.                                                                   *)
(***************************************************************************)

Uninvoiced(e) == entry[e] # None /\ ~entry[e].billed

Within(from, to) == {e \in Entry : Uninvoiced(e) /\ from <= entry[e].day /\ entry[e].day <= to}

\* Some rung of the ladder has a rate.
Priced(e) == entry[e].priced

\* Mutant: the two queries share no day, and leave one between them.
StragglersShort(p) == Within(p.start - Lookback, p.start - 2)

\* Uninvoiced time before the period, which its import will miss.
Stragglers(p) == Within(p.start - Lookback, p.start - 1)

\* Mutant: no from and no to in the body.
ImportedUnbounded(r) == {e \in Entry : Uninvoiced(e)}

\* What Harvest takes from a body with line_items_import, from and to.
Imported(r) == Within(r.start, r.end)

(***************************************************************************)
(* Recurring lines.                                                        *)
(***************************************************************************)

\* The lines in force in the month of day d: any day of a month is that month.
InForce(d) ==
    {l \in Line :
        /\ line[l] # None
        /\ line[l].from # None => MonthOf[line[l].from] <= MonthOf[d]
        /\ line[l].to # None => MonthOf[line[l].to] >= MonthOf[d]}

(***************************************************************************)
(* The actions.                                                            *)
(***************************************************************************)

\* Some line of the group has been in force from the beginning.
Init ==
    /\ today \in Day
    /\ timing \in Timing
    /\ net \in NetDays
    /\ monthly \in BOOLEAN
    /\ entry = [e \in Entry |-> None]
    /\ \E l \in Line : line = [k \in Line |->
                          IF k = l THEN [from |-> None, to |-> None] ELSE None]
    /\ row = [m \in Month |-> None]

NextDay ==
    /\ today + 1 \in Day
    /\ today' = today + 1
    /\ UNCHANGED <<config, entry, line, row>>

\* An edit of the group; what is planned keeps its own dates.
UpdateGroup(t, n) ==
    /\ timing' = t
    /\ net' = n
    /\ UNCHANGED <<today, monthly, entry, line, row>>

\* Somebody logs time, perhaps long after the fact.  (A recurring group has
\* time entries too and a group of the other type lines; neither reads them.)
LogTime(e, d, priced) ==
    /\ ~monthly
    /\ entry[e] = None
    /\ entry' = [entry EXCEPT ![e] = [day |-> d, priced |-> priced, billed |-> FALSE]]
    /\ UNCHANGED <<today, config, line, row>>

\* Somebody invoices an entry in Harvest by hand.
BillByHand(e) ==
    /\ Uninvoiced(e)
    /\ entry' = [entry EXCEPT ![e].billed = TRUE]
    /\ UNCHANGED <<today, config, line, row>>

\* A fee changes: the line in force ends in one month, another starts in the next.
Supersede(l, k, last, first) ==
    /\ monthly
    /\ line[l] # None /\ line[l].to = None
    /\ line[k] = None
    /\ MonthOf[first] = MonthOf[last] + 1
    /\ line[l].from # None => MonthOf[line[l].from] <= MonthOf[last]
    /\ line' = [line EXCEPT ![l].to = last, ![k] = [from |-> first, to |-> None]]
    /\ UNCHANGED <<today, config, entry, row>>

Estimate(p) == Within(p.start, p.end)

\* Nothing to bill: the row is skipped.
Empty(p) ==
    IF monthly THEN InForce(p.start) = {}
    ELSE ~ \E e \in Estimate(p) : Priced(e)

\* The row of a plan.  known, timing, days and drafted are not columns: they
\* remember the entries and the terms there were, and the day of the draft.
PlannedRow(m) ==
    LET p == Period(m, timing)
    IN  [status |-> IF Empty(p) THEN "skipped" ELSE "planned",
         start |-> p.start, end |-> p.end, issue |-> p.issue,
         due |-> p.issue + net,
         lines |-> IF monthly THEN InForce(p.start) ELSE {},
         estimated |-> IF monthly THEN {} ELSE Estimate(p),
         late |-> IF monthly THEN {} ELSE Stragglers(p),
         billed |-> {},
         known |-> {e \in Entry : Uninvoiced(e)}, timing |-> timing,
         days |-> net, drafted |-> None]

\* A run of month m is planned; a group already invoiced for it is left alone.
Plan(m) ==
    /\ row[m] # None => row[m].status # "created"
    /\ row' = [row EXCEPT ![m] = PlannedRow(m)]
    /\ UNCHANGED <<today, config, entry, line>>

\* The approved row is drafted; Harvest marks the time it imports as billed.
Draft(m) ==
    /\ row[m] # None /\ row[m].status = "planned"
    /\ LET taken == IF monthly THEN {} ELSE Imported(row[m])
       IN  /\ row' = [row EXCEPT ![m].status = "created", ![m].due = DraftDue(row[m], today),
                                 ![m].billed = taken, ![m].drafted = today]
           /\ entry' = [e \in Entry |->
                          IF e \in taken THEN [entry[e] EXCEPT !.billed = TRUE]
                          ELSE entry[e]]
    /\ UNCHANGED <<today, config, line>>

Next ==
    \/ NextDay
    \/ \E t \in Timing, n \in NetDays : UpdateGroup(t, n)
    \/ \E e \in Entry, d \in Day, priced \in BOOLEAN : LogTime(e, d, priced)
    \/ \E e \in Entry : BillByHand(e)
    \/ \E l, k \in Line, last, first \in Day : Supersede(l, k, last, first)
    \/ \E m \in Month : Plan(m) \/ Draft(m)

Spec == Init /\ [][Next]_vars
=============================================================================
