-------------------------- MODULE InvoiceCalendarProof --------------------------
(***************************************************************************)
(* Proofs about the invoices of a group, for any calendar and any length   *)
(* of its months.                                                          *)
(***************************************************************************)
EXTENDS InvoiceCalendarProps, TLAPS

\* Days and terms are numbers.
LEMMA Numbers == (\A d \in Day : d \in Nat) /\ (\A n \in NetDays : n \in Nat)
  <1>1. 0 \in 0..(LastMonth + 1) /\ LastMonth + 1 \in 0..(LastMonth + 1)
    BY CalendarAssumption
  <1>2. FirstDay[0] \in Nat /\ FirstDay[LastMonth + 1] \in Nat
    BY <1>1, CalendarAssumption
  <1> QED
    BY <1>2, CalendarAssumption DEF Day

\* The month a run of month m bills.
Billed(m, t) == IF t = "advance" THEN m ELSE m - 1

\* The day before a month's first day is the last of the month before.
LEMMA DayBefore ==
  ASSUME NEW m \in Month
  PROVE  FirstDay[m] - 1 \in Day /\ MonthOf[FirstDay[m] - 1] = m - 1
  <1> DEFINE d == FirstDay[m] - 1
  <1> USE CalendarAssumption DEF Month
  <1>0. m \in 0..(LastMonth + 1) /\ 0 \in 0..(LastMonth + 1) /\ LastMonth + 1 \in 0..(LastMonth + 1)
    OBVIOUS
  <1>1. FirstDay[0] < FirstDay[m] /\ FirstDay[m] < FirstDay[LastMonth + 1]
    BY <1>0
  <1>2. d \in Day
    BY <1>0, <1>1 DEF Day
  <1> DEFINE k == MonthOf[d]
  <1>3. k \in 0..LastMonth /\ FirstDay[k] <= d /\ d < FirstDay[k + 1]
    BY <1>2
  <1>4. ~(m <= k)
    <2>1. m < k => FirstDay[m] < FirstDay[k]
      BY <1>0, <1>3
    <2> QED
      BY <2>1, <1>0, <1>3
  <1>5. ~(k + 1 < m)
    <2>1. k + 1 < m => FirstDay[k + 1] < FirstDay[m]
      BY <1>0, <1>3
    <2> QED
      BY <2>1, <1>0, <1>3
  <1> QED
    BY <1>2, <1>3, <1>4, <1>5

\* resolve_period: the whole month before an arrears run, the whole month of an
\* advance run, issued on its last or its first day.
LEMMA PeriodIs ==
  ASSUME NEW m \in Month, NEW t \in Timing
  PROVE  LET b == Billed(m, t)
         IN  /\ b \in 0..LastMonth
             /\ Period(m, t) = [start |-> FirstDay[b], end |-> FirstDay[b + 1] - 1,
                                issue |-> IF t = "advance" THEN FirstDay[b]
                                          ELSE FirstDay[b + 1] - 1]
  <1>1. CASE t = "advance"
    BY <1>1, CalendarAssumption DEF Period, Billed, LastDayOf, Month
  <1>2. CASE t = "arrears"
    <2>1. MonthOf[FirstDay[m] - 1] = m - 1 /\ Billed(m, t) = m - 1 /\ t # "advance"
      BY <1>2, DayBefore DEF Billed
    <2>2. m - 1 + 1 = m /\ m - 1 \in 0..LastMonth
      BY CalendarAssumption DEF Month
    <2>3. Period(m, t) = [start |-> FirstDay[m - 1], end |-> FirstDay[m] - 1,
                          issue |-> FirstDay[m] - 1]
      BY <2>1 DEF Period
    <2> QED
      BY <2>1, <2>2, <2>3
  <1> QED
    BY <1>1, <1>2 DEF Timing

\* A period and its issue date are days of the calendar.
LEMMA PeriodTyped ==
  ASSUME NEW m \in Month, NEW t \in Timing
  PROVE  LET p == Period(m, t)
         IN  p.start \in Day /\ p.end \in Day /\ p.issue \in Day
  <1> DEFINE b == Billed(m, t)
  <1>1. b \in 0..LastMonth
    BY PeriodIs
  <1>2. /\ FirstDay[b] \in Nat /\ FirstDay[b + 1] \in Nat
        /\ FirstDay[b] < FirstDay[b + 1]
    BY <1>1, CalendarAssumption
  <1>3. FirstDay[0] <= FirstDay[b] /\ FirstDay[b + 1] <= FirstDay[LastMonth + 1]
    <2>1. b = 0 \/ FirstDay[0] < FirstDay[b]
      BY <1>1, CalendarAssumption
    <2>2. b = LastMonth \/ FirstDay[b + 1] < FirstDay[LastMonth + 1]
      BY <1>1, CalendarAssumption
    <2> QED
      BY <2>1, <2>2, <1>1, <1>2, CalendarAssumption
  <1>4. FirstDay[b] \in Day /\ FirstDay[b + 1] - 1 \in Day
    <2>1. FirstDay[0] \in Nat /\ FirstDay[LastMonth + 1] \in Nat
      BY CalendarAssumption
    <2> DEFINE first == FirstDay[0]
               last == FirstDay[LastMonth + 1]
               x == FirstDay[b]
               y == FirstDay[b + 1]
    <2>2. /\ first \in Nat /\ last \in Nat /\ x \in Nat /\ y \in Nat
          /\ x < y /\ first <= x /\ y <= last
      BY <1>2, <1>3, <2>1
    <2> HIDE DEF first, last, x, y
    <2>3. x \in first..(last - 1) /\ y - 1 \in first..(last - 1)
      BY <2>2
    <2> QED
      BY <2>3 DEF Day, first, last, x, y
  <1> QED
    BY <1>4, PeriodIs

LEMMA WithinTyped == \A from, to : Within(from, to) \subseteq Entry
  BY DEF Within

LEMMA TypeInit == Init => TypeOK
  BY NoneAssumption DEF Init, TypeOK, RecurringLine

\* A planned row has the types of its columns.
LEMMA PlannedRowTyped ==
  ASSUME TypeOK, NEW m \in Month
  PROVE  PlannedRow(m) \in Row
  <1> DEFINE p == Period(m, timing)
  <1>1. p.start \in Day /\ p.end \in Day /\ p.issue \in Day
    BY PeriodTyped DEF TypeOK
  <1>2. p.issue + net \in Nat
    <2>1. p.issue \in Nat /\ net \in Nat
      BY <1>1, Numbers DEF TypeOK
    <2> QED
      BY <2>1
  <1>3. InForce(p.start) \subseteq Line
    BY DEF InForce
  <1>4. Estimate(p) \subseteq Entry /\ Stragglers(p) \subseteq Entry
    BY WithinTyped DEF Estimate, Stragglers
  <1> DEFINE status == IF Empty(p) THEN "skipped" ELSE "planned"
             lines == IF monthly THEN InForce(p.start) ELSE {}
             estimated == IF monthly THEN {} ELSE Estimate(p)
             late == IF monthly THEN {} ELSE Stragglers(p)
             known == {e \in Entry : Uninvoiced(e)}
  <1>5. PlannedRow(m) = [status |-> status, start |-> p.start, end |-> p.end,
                         issue |-> p.issue, due |-> p.issue + net, lines |-> lines,
                         estimated |-> estimated, late |-> late, billed |-> {},
                         known |-> known, timing |-> timing, days |-> net,
                         drafted |-> None]
    BY DEF PlannedRow
  <1>6. /\ status \in {"planned", "skipped", "created"}
        /\ lines \in SUBSET Line /\ estimated \in SUBSET Entry
        /\ late \in SUBSET Entry /\ known \in SUBSET Entry
    BY <1>3, <1>4
  <1>7. timing \in Timing /\ net \in NetDays
    BY DEF TypeOK
  <1> HIDE DEF p, status, lines, estimated, late, known
  <1> QED
    BY <1>1, <1>2, <1>5, <1>6, <1>7 DEF Row

\* A drafted row too.
LEMMA DraftedRowTyped ==
  ASSUME TypeOK, NEW m \in Month, Draft(m)
  PROVE  /\ row' \in [Month -> Row \cup {None}]
         /\ row[m] \in Row /\ row'[m] \in Row
         /\ \A n \in Month \ {m} : row'[n] = row[n]
  <1> DEFINE taken == IF monthly THEN {} ELSE Imported(row[m])
  <1>1. row[m] \in Row
    BY DEF Draft, TypeOK
  <1>2. taken \subseteq Entry
    BY WithinTyped DEF Imported
  <1>3. DraftDue(row[m], today) \in Int
    <2>1. today \in Nat /\ row[m].issue \in Nat /\ row[m].due \in Int
      BY <1>1, Numbers DEF TypeOK, Row
    <2> QED
      BY <2>1 DEF DraftDue
  <1>4. row' = [row EXCEPT ![m].status = "created", ![m].due = DraftDue(row[m], today),
                           ![m].billed = taken, ![m].drafted = today]
    BY DEF Draft
  <1>5. row'[m] = [row[m] EXCEPT !.status = "created", !.due = DraftDue(row[m], today),
                                 !.billed = taken, !.drafted = today]
    BY <1>4 DEF TypeOK
  <1>6. row'[m] \in Row
    <2> DEFINE due == DraftDue(row[m], today)
               r == row[m]
               q == row'[m]
    <2>1. today \in Day /\ due \in Int /\ taken \in SUBSET Entry /\ r \in Row
      BY <1>1, <1>2, <1>3 DEF TypeOK
    <2>2. q = [r EXCEPT !.status = "created", !.due = due,
                        !.billed = taken, !.drafted = today]
      BY <1>5
    <2> HIDE DEF due, r, q, taken
    <2>3. q \in Row
      BY <2>1, <2>2 DEF Row
    <2> QED
      BY <2>3 DEF q
  <1>7. \A n \in Month \ {m} : row'[n] = row[n]
    BY <1>4 DEF TypeOK
  <1>8. row' \in [Month -> Row \cup {None}]
    BY <1>4, <1>6, <1>7 DEF TypeOK
  <1> QED
    BY <1>1, <1>6, <1>7, <1>8

\* Entries and lines keep their types, rows theirs.
LEMMA TypeStep == TypeOK /\ [Next]_vars => TypeOK'
  <1> SUFFICES ASSUME TypeOK, [Next]_vars PROVE TypeOK'
    OBVIOUS
  <1>1. CASE NextDay
    BY <1>1 DEF NextDay, TypeOK, config
  <1>2. ASSUME NEW t \in Timing, NEW n \in NetDays, UpdateGroup(t, n) PROVE TypeOK'
    BY <1>2 DEF UpdateGroup, TypeOK
  <1>3. ASSUME NEW e \in Entry, NEW d \in Day, NEW priced \in BOOLEAN, LogTime(e, d, priced)
        PROVE  TypeOK'
    BY <1>3 DEF LogTime, TypeOK, TimeEntry, config
  <1>4. ASSUME NEW e \in Entry, BillByHand(e) PROVE TypeOK'
    <2>1. entry[e] \in TimeEntry
      BY <1>4 DEF BillByHand, Uninvoiced, TypeOK
    <2>2. entry' = [entry EXCEPT ![e].billed = TRUE]
      BY <1>4 DEF BillByHand
    <2>3. entry' \in [Entry -> TimeEntry \cup {None}]
      BY <2>1, <2>2 DEF TypeOK, TimeEntry
    <2> QED
      BY <1>4, <2>3 DEF BillByHand, TypeOK, config
  <1>5. ASSUME NEW l \in Line, NEW k \in Line, NEW last \in Day, NEW first \in Day,
               Supersede(l, k, last, first)
        PROVE  TypeOK'
    <2>1. line[l] \in RecurringLine
      BY <1>5 DEF Supersede, TypeOK
    <2>2. line' \in [Line -> RecurringLine \cup {None}]
      BY <1>5, <2>1 DEF Supersede, TypeOK, RecurringLine
    <2> QED
      BY <1>5, <2>2 DEF Supersede, TypeOK, config
  <1>6. ASSUME NEW m \in Month, Plan(m) PROVE TypeOK'
    BY <1>6, PlannedRowTyped DEF Plan, TypeOK, config
  <1>7. ASSUME NEW m \in Month, Draft(m) PROVE TypeOK'
    <2> DEFINE taken == IF monthly THEN {} ELSE Imported(row[m])
    <2>1. \A e \in taken : e \in Entry /\ entry[e] \in TimeEntry
      BY DEF Imported, Within, Uninvoiced, TypeOK
    <2>2. entry' = [e \in Entry |-> IF e \in taken THEN [entry[e] EXCEPT !.billed = TRUE]
                                    ELSE entry[e]]
      BY <1>7 DEF Draft
    <2>3. entry' \in [Entry -> TimeEntry \cup {None}]
      BY <2>1, <2>2 DEF TypeOK, TimeEntry
    <2> QED
      BY <1>7, <2>3, DraftedRowTyped DEF Draft, TypeOK, config
  <1>8. CASE UNCHANGED vars
    BY <1>8 DEF vars, config, TypeOK
  <1> QED
    BY <1>1, <1>2, <1>3, <1>4, <1>5, <1>6, <1>7, <1>8 DEF Next

\* What the days of an entry and its mark may do: an entry that is there stays,
\* on its day, and is never unmarked.
EntriesStay ==
    \A e \in Entry : entry[e] # None =>
        /\ entry'[e] # None
        /\ entry'[e].day = entry[e].day
        /\ entry[e].billed => entry'[e].billed

LEMMA EntriesStayStep == TypeOK /\ [Next]_vars => EntriesStay
  <1> SUFFICES ASSUME TypeOK, [Next]_vars PROVE EntriesStay
    OBVIOUS
  <1>1. CASE entry' = entry
    BY <1>1 DEF EntriesStay
  <1>2. ASSUME NEW e \in Entry, NEW d \in Day, NEW priced \in BOOLEAN, LogTime(e, d, priced)
        PROVE  EntriesStay
    BY <1>2 DEF LogTime, TypeOK, EntriesStay
  <1>3. ASSUME NEW e \in Entry, BillByHand(e) PROVE EntriesStay
    <2>1. TypeOK' /\ entry[e] \in TimeEntry
      BY <1>3, TypeStep DEF BillByHand, Uninvoiced, TypeOK
    <2>2. entry'[e] = [entry[e] EXCEPT !.billed = TRUE]
          /\ \A f \in Entry \ {e} : entry'[f] = entry[f]
      BY <1>3 DEF BillByHand, TypeOK
    <2>3. entry'[e] \in TimeEntry /\ entry'[e].day = entry[e].day /\ entry'[e].billed
      BY <2>1, <2>2 DEF TimeEntry
    <2> QED
      BY <2>2, <2>3, NoneAssumption DEF EntriesStay
  <1>4. ASSUME NEW m \in Month, Draft(m) PROVE EntriesStay
    <2> DEFINE taken == IF monthly THEN {} ELSE Imported(row[m])
    <2>1. \A e \in taken : e \in Entry /\ entry[e] \in TimeEntry
      BY DEF Imported, Within, Uninvoiced, TypeOK
    <2>2. entry' = [e \in Entry |-> IF e \in taken THEN [entry[e] EXCEPT !.billed = TRUE]
                                    ELSE entry[e]]
      BY <1>4 DEF Draft
    <2>3. \A e \in taken : /\ entry'[e] \in TimeEntry /\ entry'[e].day = entry[e].day
                           /\ entry'[e].billed
      BY <2>1, <2>2 DEF TimeEntry
    <2>4. \A e \in Entry : e \notin taken => entry'[e] = entry[e]
      BY <2>2
    <2> QED
      BY <2>3, <2>4, NoneAssumption DEF EntriesStay
  <1> QED
    BY <1>1, <1>2, <1>3, <1>4
    DEF Next, NextDay, UpdateGroup, Supersede, Plan, vars, config

\* Rows change by a plan or a draft only, and a group keeps its type.
LEMMA RowsChange ==
  TypeOK /\ [Next]_vars =>
    /\ monthly' = monthly
    /\ row' = row \/ \E m \in Month : Plan(m) \/ Draft(m)
  BY DEF Next, NextDay, UpdateGroup, LogTime, BillByHand, Supersede, Plan, Draft, vars, config

\* A plan puts one row down and changes no entry.
LEMMA PlanEffect ==
  ASSUME TypeOK, NEW m \in Month, Plan(m)
  PROVE  LET q == row'[m]
         IN  /\ q = PlannedRow(m) /\ q \in Row
             /\ q.status # "created" /\ q.billed = {} /\ q.due = q.issue + q.days
             /\ row[m] # None => ~Created(m)
             /\ \A n \in Month \ {m} : row'[n] = row[n]
             /\ entry' = entry /\ monthly' = monthly
  <1>1. /\ row'[m] = PlannedRow(m)
        /\ row[m] # None => ~Created(m)
        /\ \A n \in Month \ {m} : row'[n] = row[n]
        /\ entry' = entry /\ monthly' = monthly
    BY DEF Plan, TypeOK, Created, config
  <1>2. PlannedRow(m) \in Row
    BY PlannedRowTyped
  <1>3. /\ PlannedRow(m).status # "created" /\ PlannedRow(m).billed = {}
        /\ PlannedRow(m).due = PlannedRow(m).issue + PlannedRow(m).days
    BY DEF PlannedRow
  <1> QED
    BY <1>1, <1>2, <1>3

\* A draft fills in one row.
LEMMA DraftEffect ==
  ASSUME TypeOK, NEW m \in Month, Draft(m)
  PROVE  LET r == row[m]
             q == row'[m]
         IN  /\ r \in Row /\ q \in Row /\ r # None /\ r.status = "planned"
             /\ q.status = "created" /\ q.start = r.start /\ q.end = r.end
             /\ q.issue = r.issue /\ q.estimated = r.estimated /\ q.late = r.late
             /\ q.known = r.known /\ q.timing = r.timing /\ q.days = r.days
             /\ q.due = DraftDue(r, today) /\ q.drafted = today
             /\ q.billed = IF monthly THEN {} ELSE Imported(r)
             /\ \A n \in Month \ {m} : row'[n] = row[n]
             /\ monthly' = monthly
  <1> DEFINE taken == IF monthly THEN {} ELSE Imported(row[m])
             due == DraftDue(row[m], today)
  <1>1. row[m] \in Row /\ row'[m] \in Row /\ \A n \in Month \ {m} : row'[n] = row[n]
    BY DraftedRowTyped
  <1>2. row' = [row EXCEPT ![m].status = "created", ![m].due = due,
                           ![m].billed = taken, ![m].drafted = today]
    BY DEF Draft
  <1>3. row'[m] = [row[m] EXCEPT !.status = "created", !.due = due,
                                 !.billed = taken, !.drafted = today]
    BY <1>2 DEF TypeOK
  <1>4. row[m] # None /\ row[m].status = "planned" /\ monthly' = monthly
    BY DEF Draft, config
  <1>5. /\ row'[m].status = "created" /\ row'[m].start = row[m].start
        /\ row'[m].end = row[m].end /\ row'[m].issue = row[m].issue
        /\ row'[m].estimated = row[m].estimated /\ row'[m].late = row[m].late
        /\ row'[m].known = row[m].known /\ row'[m].timing = row[m].timing
        /\ row'[m].days = row[m].days /\ row'[m].due = due
        /\ row'[m].drafted = today /\ row'[m].billed = taken
    <2> DEFINE r == row[m]
               q == row'[m]
    <2>1. r \in Row /\ q = [r EXCEPT !.status = "created", !.due = due,
                                     !.billed = taken, !.drafted = today]
      BY <1>1, <1>3
    <2> HIDE DEF r, q, taken, due
    <2>2. /\ q.status = "created" /\ q.start = r.start /\ q.end = r.end
          /\ q.issue = r.issue /\ q.estimated = r.estimated /\ q.late = r.late
          /\ q.known = r.known /\ q.timing = r.timing /\ q.days = r.days
          /\ q.due = due /\ q.drafted = today /\ q.billed = taken
      BY <2>1 DEF Row
    <2> QED
      BY <2>2 DEF r, q
  <1> QED
    BY <1>1, <1>4, <1>5

LEMMA InvInit == Init => CalendarInv
  <1> SUFFICES ASSUME Init PROVE CalendarInv
    OBVIOUS
  <1>1. \A m \in Month : ~Planned(m) /\ ~Created(m)
    BY DEF Init, Planned, Created
  <1> QED
    BY <1>1, TypeInit
    DEF CalendarInv, PeriodKept, Shown, Marked, Cleared, BilledAsEstimated, DueInFull

LEMMA PeriodStep == CalendarInv /\ [Next]_vars => PeriodKept'
  <1> SUFFICES ASSUME CalendarInv, [Next]_vars, NEW m \in Month, Planned(m)'
               PROVE  LET p == Period(m, row'[m].timing)
                      IN  /\ row'[m].start = p.start /\ row'[m].end = p.end
                          /\ row'[m].issue = p.issue
    BY DEF PeriodKept, Period, LastDayOf
  <1> USE DEF CalendarInv
  <1>1. CASE row'[m] = row[m]
    BY <1>1 DEF PeriodKept, Planned
  <1>2. CASE Plan(m)
    <2>1. row'[m] = PlannedRow(m)
      BY <1>2, PlanEffect
    <2> QED
      BY <2>1 DEF PlannedRow
  <1>3. CASE Draft(m)
    BY <1>3, DraftEffect DEF PeriodKept, Planned
  <1> QED
    BY <1>1, <1>2, <1>3, RowsChange, PlanEffect, DraftEffect

\* What a plan saw is what it counted, what it flagged, or outside its reach.
LEMMA ShownStep == CalendarInv /\ [Next]_vars => Shown'
  <1> SUFFICES ASSUME CalendarInv, [Next]_vars, NEW m \in Month, Planned(m)',
                      NEW e \in row'[m].known
               PROVE  /\ entry'[e] # None
                      /\ ~monthly' =>
                           /\ entry'[e].day \in row'[m].start..row'[m].end =>
                                e \in row'[m].estimated
                           /\ entry'[e].day \in (row'[m].start - Lookback)..(row'[m].start - 1) =>
                                e \in row'[m].late
    BY DEF Shown
  <1> USE DEF CalendarInv
  <1>0. EntriesStay /\ monthly' = monthly /\ TypeOK'
    BY EntriesStayStep, RowsChange, TypeStep
  <1>1. e \in Entry
    BY <1>0 DEF TypeOK, Row, Planned
  <1>2. CASE row'[m] = row[m]
    BY <1>0, <1>1, <1>2 DEF Shown, Planned, EntriesStay
  <1>3. CASE Plan(m)
    <2> DEFINE p == Period(m, timing)
    <2>1. row'[m] = PlannedRow(m) /\ entry' = entry
      BY <1>3, PlanEffect
    <2>2. Uninvoiced(e)
      BY <2>1 DEF PlannedRow
    <2>3. /\ row'[m].start = p.start /\ row'[m].end = p.end
          /\ ~monthly => row'[m].estimated = Estimate(p) /\ row'[m].late = Stragglers(p)
      BY <2>1 DEF PlannedRow
    <2>4. entry[e].day \in p.start..p.end => e \in Estimate(p)
      BY <1>1, <2>2 DEF Estimate, Within
    <2>5. entry[e].day \in (p.start - Lookback)..(p.start - 1) => e \in Stragglers(p)
      BY <1>1, <2>2 DEF Stragglers, Within
    <2> QED
      BY <1>0, <2>1, <2>2, <2>3, <2>4, <2>5 DEF Uninvoiced
  <1>4. CASE Draft(m)
    <2> DEFINE r == row[m]
               q == row'[m]
    <2>1. /\ Planned(m) /\ q.start = r.start /\ q.end = r.end /\ q.known = r.known
          /\ q.estimated = r.estimated /\ q.late = r.late
      BY <1>4, DraftEffect DEF Planned
    <2>2. entry[e] # None /\ entry'[e] # None /\ entry'[e].day = entry[e].day
      BY <1>0, <1>1, <2>1 DEF Shown, EntriesStay
    <2> QED
      BY <1>0, <2>1, <2>2 DEF Shown
  <1> QED
    BY <1>2, <1>3, <1>4, RowsChange, PlanEffect, DraftEffect

\* The import of a draft takes unmarked entries and marks them.
LEMMA Taken ==
  ASSUME TypeOK, NEW m \in Month, Draft(m), NEW e \in row'[m].billed
  PROVE  /\ ~monthly /\ e \in Entry /\ Uninvoiced(e)
         /\ entry[e].day \in row[m].start..row[m].end
         /\ entry'[e] # None /\ entry'[e].billed
  <1>1. ~monthly /\ e \in Imported(row[m]) /\ row[m] \in Row
    BY DraftEffect
  <1>2. e \in Entry /\ Uninvoiced(e) /\ row[m].start <= entry[e].day /\ entry[e].day <= row[m].end
    BY <1>1 DEF Imported, Within
  <1>3. entry[e] \in TimeEntry
    BY <1>2 DEF Uninvoiced, TypeOK
  <1>4. row[m].start \in Nat /\ row[m].end \in Nat /\ entry[e].day \in Nat
    BY <1>1, <1>3, Numbers DEF Row, TimeEntry
  <1>5. entry' = [f \in Entry |-> IF f \in Imported(row[m])
                                  THEN [entry[f] EXCEPT !.billed = TRUE] ELSE entry[f]]
    BY <1>1 DEF Draft
  <1>6. entry'[e] = [entry[e] EXCEPT !.billed = TRUE]
    BY <1>1, <1>2, <1>5
  <1>7. entry'[e] \in TimeEntry /\ entry'[e].billed
    BY <1>3, <1>6 DEF TimeEntry
  <1> QED
    BY <1>1, <1>2, <1>4, <1>7, NoneAssumption

LEMMA MarkedStep == CalendarInv /\ [Next]_vars => Marked'
  <1> SUFFICES ASSUME CalendarInv, [Next]_vars, NEW m \in Month, Planned(m)'
               PROVE  /\ ~Created(m)' => row'[m].billed = {}
                      /\ monthly' => row'[m].billed = {}
                      /\ \A e \in row'[m].billed : entry'[e] # None /\ entry'[e].billed
    BY DEF Marked
  <1> USE DEF CalendarInv
  <1>0. EntriesStay /\ monthly' = monthly /\ TypeOK'
    BY EntriesStayStep, RowsChange, TypeStep
  <1>1. CASE row'[m] = row[m]
    <2>1. Planned(m) /\ row[m] \in Row
      BY <1>1 DEF Planned, TypeOK
    <2>2. row[m].billed \subseteq Entry
      BY <2>1 DEF Row
    <2> QED
      BY <1>0, <1>1, <2>1, <2>2 DEF Marked, Created, EntriesStay
  <1>2. CASE Plan(m)
    <2>1. row'[m].billed = {}
      BY <1>2, PlanEffect
    <2> QED
      BY <2>1
  <1>3. CASE Draft(m)
    <2>1. row'[m].status = "created" /\ row'[m].billed = IF monthly THEN {} ELSE Imported(row[m])
      BY <1>3, DraftEffect
    <2>2. Created(m)'
      BY <2>1 DEF Created, Planned
    <2>3. \A e \in row'[m].billed : entry'[e] # None /\ entry'[e].billed
      BY <1>3, Taken
    <2> QED
      BY <1>0, <2>1, <2>2, <2>3
  <1> QED
    BY <1>1, <1>2, <1>3, RowsChange, PlanEffect, DraftEffect

\* What an invoice could have taken and knew of, it took or found marked.
LEMMA ClearedStep == CalendarInv /\ [Next]_vars => Cleared'
  <1> SUFFICES ASSUME CalendarInv, [Next]_vars, NEW m \in Month, Created(m)', ~monthly',
                      NEW e \in row'[m].known, entry'[e].day \in row'[m].start..row'[m].end
               PROVE  entry'[e].billed
    BY DEF Cleared
  <1> USE DEF CalendarInv
  <1>0. EntriesStay /\ monthly' = monthly /\ TypeOK'
    BY EntriesStayStep, RowsChange, TypeStep
  <1>1. e \in Entry
    BY <1>0 DEF TypeOK, Row, Created
  <1>2. CASE row'[m] = row[m]
    <2>1. Created(m) /\ Planned(m)
      BY <1>2 DEF Created, Planned
    <2>2. entry[e] # None
      BY <1>2, <2>1 DEF Shown
    <2>3. entry'[e].day = entry[e].day /\ (entry[e].billed => entry'[e].billed)
      BY <1>0, <1>1, <2>2 DEF EntriesStay
    <2> QED
      BY <1>0, <1>2, <2>1, <2>3 DEF Cleared
  <1>3. CASE Plan(m)
    <2>1. row'[m].status # "created"
      BY <1>3, PlanEffect
    <2> QED
      BY <2>1 DEF Created
  <1>4. CASE Draft(m)
    <2> DEFINE r == row[m]
               q == row'[m]
    <2>1. /\ Planned(m) /\ q.start = r.start /\ q.end = r.end /\ q.known = r.known
          /\ q.billed = IF monthly THEN {} ELSE Imported(r)
      BY <1>4, DraftEffect DEF Planned
    <2>2. entry[e] # None
      BY <2>1 DEF Shown
    <2>3. entry'[e].day = entry[e].day /\ (entry[e].billed => entry'[e].billed)
      BY <1>0, <1>1, <2>2 DEF EntriesStay
    <2>4. CASE entry[e].billed
      BY <2>3, <2>4
    <2>5. CASE ~entry[e].billed
      <3>1. Uninvoiced(e) /\ r.start <= entry[e].day /\ entry[e].day <= r.end
        BY <2>1, <2>2, <2>3, <2>5 DEF Uninvoiced
      <3>2. e \in q.billed
        BY <1>0, <1>1, <2>1, <3>1 DEF Imported, Within
      <3> QED
        BY <1>4, <3>2, Taken
    <2> QED
      BY <2>4, <2>5
  <1> QED
    BY <1>2, <1>3, <1>4, RowsChange, PlanEffect, DraftEffect

\* A draft takes nothing another invoice has taken, nor an entry it knew of
\* and did not count.
LEMMA DraftTakes ==
  ASSUME CalendarInv, NEW m \in Month, Draft(m)
  PROVE  /\ row'[m].billed \cap row'[m].known \subseteq row'[m].estimated
         /\ \A n \in Month \ {m} :
              Planned(n) => row'[n].billed = row[n].billed
                            /\ row'[m].billed \cap row[n].billed = {}
  <1> USE DEF CalendarInv
  <1>1. /\ Planned(m) /\ row'[m].known = row[m].known
        /\ row'[m].estimated = row[m].estimated
        /\ \A n \in Month \ {m} : row'[n] = row[n]
    BY DraftEffect DEF Planned
  <1>2. ASSUME NEW e \in row'[m].billed, e \in row'[m].known
        PROVE  e \in row'[m].estimated
    <2>1. ~monthly /\ entry[e].day \in row[m].start..row[m].end
      BY Taken
    <2> QED
      BY <1>1, <1>2, <2>1 DEF Shown
  <1>3. ASSUME NEW n \in Month \ {m}, Planned(n), NEW e \in row'[m].billed, e \in row[n].billed
        PROVE  FALSE
    <2>1. Uninvoiced(e)
      BY Taken
    <2>2. entry[e].billed
      BY <1>3 DEF Marked
    <2> QED
      BY <2>1, <2>2 DEF Uninvoiced
  <1> QED
    BY <1>1, <1>2, <1>3

LEMMA BilledStep == CalendarInv /\ [Next]_vars => BilledAsEstimated'
  <1> SUFFICES ASSUME CalendarInv, [Next]_vars PROVE BilledAsEstimated'
    OBVIOUS
  <1> USE DEF CalendarInv
  <1>1. CASE row' = row
    BY <1>1 DEF BilledAsEstimated, Planned
  <1>2. ASSUME NEW k \in Month, Plan(k) PROVE BilledAsEstimated'
    <2>1. row'[k].billed = {} /\ \A n \in Month \ {k} : row'[n] = row[n]
      BY <1>2, PlanEffect
    <2> QED
      BY <2>1 DEF BilledAsEstimated, Planned
  <1>3. ASSUME NEW k \in Month, Draft(k) PROVE BilledAsEstimated'
    <2>1. \A n \in Month \ {k} : row'[n] = row[n]
      BY <1>3, DraftEffect
    <2>2. ASSUME NEW m \in Month, Planned(m)'
          PROVE  row'[m].billed \cap row'[m].known \subseteq row'[m].estimated
      BY <1>3, <2>1, <2>2, DraftTakes DEF BilledAsEstimated, Planned
    <2>3. ASSUME NEW m \in Month, NEW n \in Month \ {m}, Planned(m)', Planned(n)'
          PROVE  row'[m].billed \cap row'[n].billed = {}
      <3>1. CASE m = k
        BY <1>3, <2>1, <2>3, <3>1, DraftTakes DEF Planned
      <3>2. CASE n = k
        BY <1>3, <2>1, <2>3, <3>2, DraftTakes DEF Planned
      <3>3. CASE m # k /\ n # k
        BY <2>1, <2>3, <3>3 DEF BilledAsEstimated, Planned
      <3> QED
        BY <3>1, <3>2, <3>3
    <2> QED
      BY <2>2, <2>3 DEF BilledAsEstimated
  <1> QED
    BY <1>1, <1>2, <1>3, RowsChange

LEMMA DueStep == CalendarInv /\ [Next]_vars => DueInFull'
  <1> SUFFICES ASSUME CalendarInv, [Next]_vars, NEW m \in Month, Planned(m)'
               PROVE  LET r == row'[m]
                      IN  IF Created(m)'
                          THEN /\ r.due >= r.drafted + r.days
                               /\ r.due >= r.issue + r.days
                               /\ r.due \in {r.drafted + r.days, r.issue + r.days}
                          ELSE r.due = r.issue + r.days
    BY DEF DueInFull
  <1> USE DEF CalendarInv
  <1>1. CASE row'[m] = row[m]
    BY <1>1 DEF DueInFull, Planned, Created
  <1>2. CASE Plan(m)
    <2>1. /\ row'[m].status # "created"
          /\ row'[m].due = row'[m].issue + row'[m].days
      BY <1>2, PlanEffect
    <2> QED
      BY <2>1 DEF Created
  <1>3. CASE Draft(m)
    <2> DEFINE r == row[m]
               q == row'[m]
    <2>1. /\ r \in Row /\ Planned(m) /\ r.status = "planned" /\ q.status = "created"
          /\ q.issue = r.issue /\ q.days = r.days /\ q.drafted = today
          /\ q.due = DraftDue(r, today)
      BY <1>3, DraftEffect DEF Planned
    <2>2. today \in Nat /\ r.issue \in Nat /\ r.days \in Nat
      BY <2>1, Numbers DEF TypeOK, Row
    <2>3. r.due = r.issue + r.days
      BY <2>1 DEF DueInFull, Created
    <2>4. Created(m)'
      BY <2>1 DEF Created, Planned
    <2>5. q.due = (IF today > r.issue THEN today ELSE r.issue) + r.days
      BY <2>1, <2>2, <2>3 DEF DraftDue
    <2> QED
      BY <2>1, <2>2, <2>4, <2>5
  <1> QED
    BY <1>1, <1>2, <1>3, RowsChange, PlanEffect, DraftEffect

\* The invariant holds of every reachable state.
LEMMA InvCorrect == Spec => []CalendarInv
  <1>1. CalendarInv /\ [Next]_vars => CalendarInv'
    BY TypeStep, PeriodStep, ShownStep, MarkedStep, ClearedStep, BilledStep, DueStep
    DEF CalendarInv
  <1> QED
    BY <1>1, InvInit, PTL DEF Spec

\* Every row has the types of its columns, and its dates are days (resolve_period).
THEOREM TypeOKCorrect == Spec => []TypeOK
  <1>1. CalendarInv => TypeOK
    BY DEF CalendarInv
  <1> QED
    BY <1>1, InvCorrect, PTL

\* A later month begins after an earlier one.
LEMMA Monotone ==
  ASSUME NEW a \in 0..(LastMonth + 1), NEW b \in 0..(LastMonth + 1), a <= b
  PROVE  FirstDay[a] \in Nat /\ FirstDay[b] \in Nat /\ FirstDay[a] <= FirstDay[b]
  <1>1. a = b \/ a < b
    BY CalendarAssumption
  <1> QED
    BY <1>1, CalendarAssumption

\* The rows' periods tile the calendar, whichever the order of the runs
\* (resolve_period).
THEOREM PeriodsTileCorrect == Spec => []PeriodsTile
  <1>1. CalendarInv => PeriodsTile
    <2> SUFFICES ASSUME CalendarInv, NEW m \in Month, NEW n \in Month, m < n,
                        Planned(m), Planned(n)
                 PROVE  IF n = m + 1 /\ row[m].timing = "advance" /\ row[n].timing = "arrears"
                        THEN row[n].start = row[m].start /\ row[n].end = row[m].end
                        ELSE /\ row[m].end < row[n].start
                             /\ n = m + 1 /\ row[m].timing = row[n].timing =>
                                    row[n].start = row[m].end + 1
      BY DEF PeriodsTile
    <2> DEFINE a == Billed(m, row[m].timing)
               b == Billed(n, row[n].timing)
    <2>1. row[m].timing \in Timing /\ row[n].timing \in Timing
      BY DEF CalendarInv, TypeOK, Row, Planned
    <2>2. a \in 0..LastMonth /\ b \in 0..LastMonth
      BY <2>1, PeriodIs
    <2>3. /\ row[m].start = FirstDay[a] /\ row[m].end = FirstDay[a + 1] - 1
          /\ row[n].start = FirstDay[b] /\ row[n].end = FirstDay[b + 1] - 1
      BY <2>1, PeriodIs DEF CalendarInv, PeriodKept
    <2>4. m \in Nat /\ n \in Nat
      BY DEF Month
    <2>5. CASE n = m + 1 /\ row[m].timing = "advance" /\ row[n].timing = "arrears"
      <3>1. a = b
        BY <2>4, <2>5 DEF Billed
      <3> QED
        BY <2>3, <2>5, <3>1
    <2>6. CASE ~(n = m + 1 /\ row[m].timing = "advance" /\ row[n].timing = "arrears")
      <3>1. a + 1 <= b
        BY <2>1, <2>4, <2>6 DEF Billed, Timing
      <3>2. a + 1 \in 0..(LastMonth + 1) /\ b \in 0..(LastMonth + 1)
        BY <2>2, CalendarAssumption
      <3>3. FirstDay[a + 1] \in Nat /\ FirstDay[b] \in Nat /\ FirstDay[a + 1] <= FirstDay[b]
        BY <3>1, <3>2, Monotone
      <3>4. n = m + 1 /\ row[m].timing = row[n].timing => b = a + 1
        BY <2>4 DEF Billed
      <3> HIDE DEF a, b
      <3> QED
        BY <2>3, <2>6, <3>3, <3>4
    <2> QED
      BY <2>5, <2>6
  <1> QED
    BY <1>1, InvCorrect, PTL

\* Time a drafted month leaves behind had been flagged (_collect_stragglers).
THEOREM LeftBehindAnnouncedCorrect == Spec => []LeftBehindAnnounced
  <1>1. CalendarInv => LeftBehindAnnounced
    <2> SUFFICES ASSUME CalendarInv, NEW m \in Month, Created(m), ~monthly,
                        NEW e \in row[m].known, Uninvoiced(e),
                        row[m].start - Lookback <= entry[e].day,
                        entry[e].day <= row[m].end
                 PROVE  e \in row[m].late
      BY DEF LeftBehindAnnounced
    <2>1. Planned(m) /\ row[m] \in Row
      BY DEF CalendarInv, TypeOK, Created, Planned
    <2>2. e \in Entry
      BY <2>1 DEF Row
    <2>3. entry[e] \in TimeEntry
      BY <2>2 DEF CalendarInv, TypeOK, Uninvoiced
    <2>4. entry[e].day \in Nat /\ row[m].start \in Nat /\ row[m].end \in Nat
      BY <2>1, <2>3, Numbers DEF Row, TimeEntry
    <2>5. entry[e].day \notin row[m].start..row[m].end
      BY DEF CalendarInv, Cleared, Uninvoiced
    <2>6. entry[e].day \in (row[m].start - Lookback)..(row[m].start - 1)
      BY <2>4, <2>5, CalendarAssumption
    <2> QED
      BY <2>1, <2>6 DEF CalendarInv, Shown
  <1> QED
    BY <1>1, InvCorrect, PTL

\* An invoice takes what was counted, and no entry is on two invoices
\* (build_time_and_materials_payload).
THEOREM BilledAsEstimatedCorrect == Spec => []BilledAsEstimated
  <1>1. CalendarInv => BilledAsEstimated
    BY DEF CalendarInv
  <1> QED
    BY <1>1, InvCorrect, PTL

\* The client has the days that were planned (resolve_draft_dating).
THEOREM DueInFullCorrect == Spec => []DueInFull
  <1>1. CalendarInv => DueInFull
    BY DEF CalendarInv
  <1> QED
    BY <1>1, InvCorrect, PTL

\* A line that starts where another stops leaves one line in every month.
LEMMA FeeStep == TypeOK /\ OneFeeInForce /\ [Next]_vars => OneFeeInForce'
  <1> SUFFICES ASSUME TypeOK, OneFeeInForce, [Next]_vars PROVE OneFeeInForce'
    OBVIOUS
  <1>1. CASE line' = line
    BY <1>1 DEF OneFeeInForce, InForce
  <1>2. ASSUME NEW l \in Line, NEW k \in Line, NEW last \in Day, NEW first \in Day,
               Supersede(l, k, last, first)
        PROVE  OneFeeInForce'
    <2> SUFFICES ASSUME NEW d \in Day PROVE \E i \in Line : InForce(d)' = {i}
      BY DEF OneFeeInForce
    <2>1. PICK i \in Line : InForce(d) = {i}
      BY DEF OneFeeInForce
    <2>2. /\ line[l] \in RecurringLine /\ line[l].to = None /\ k # l /\ line[k] = None
          /\ line[l].from # None => MonthOf[line[l].from] <= MonthOf[last]
          /\ MonthOf[first] = MonthOf[last] + 1
      BY <1>2 DEF Supersede, TypeOK
    <2>3. line'[l] = [line[l] EXCEPT !.to = last] /\ line'[k] = [from |-> first, to |-> None]
          /\ \A j \in Line \ {l, k} : line'[j] = line[j]
      BY <1>2, <2>2 DEF Supersede, TypeOK
    <2>4. /\ line'[l] # None /\ line'[l].from = line[l].from /\ line'[l].to = last
          /\ line'[k] # None /\ line'[k].from = first /\ line'[k].to = None
      BY <2>2, <2>3, NoneAssumption DEF RecurringLine
    <2>5. /\ MonthOf[last] \in Int /\ MonthOf[first] \in Int /\ MonthOf[d] \in Int
          /\ first # None /\ last # None
          /\ line[l].from # None => MonthOf[line[l].from] \in Int
      BY <2>2, CalendarAssumption, NoneAssumption DEF RecurringLine
    <2>6. \A j \in Line \ {l, k} : j \in InForce(d)' <=> j \in InForce(d)
      BY <2>3 DEF InForce
    <2>7. k \notin InForce(d)
      BY <2>2 DEF InForce
    <2>8. CASE MonthOf[d] <= MonthOf[last]
      <3>1. l \in InForce(d)' <=> l \in InForce(d)
        BY <2>2, <2>4, <2>5, <2>8, NoneAssumption DEF InForce
      <3>2. k \notin InForce(d)'
        BY <2>2, <2>4, <2>5, <2>8 DEF InForce
      <3>3. InForce(d)' \subseteq Line /\ InForce(d) \subseteq Line
        BY DEF InForce
      <3>4. InForce(d)' = InForce(d)
        BY <2>6, <2>7, <3>1, <3>2, <3>3
      <3> QED
        BY <2>1, <3>4
    <2>9. CASE ~(MonthOf[d] <= MonthOf[last])
      <3>1. l \in InForce(d)
        BY <2>2, <2>5, <2>9, NoneAssumption DEF InForce
      <3>2. l \notin InForce(d)'
        BY <2>4, <2>5, <2>9 DEF InForce
      <3>3. k \in InForce(d)'
        BY <2>2, <2>4, <2>5, <2>9 DEF InForce
      <3>4. InForce(d)' \subseteq Line
        BY DEF InForce
      <3>5. InForce(d)' = {k}
        BY <2>1, <2>6, <3>1, <3>2, <3>3, <3>4
      <3> QED
        BY <3>5
    <2> QED
      BY <2>8, <2>9
  <1> QED
    BY <1>1, <1>2 DEF Next, NextDay, UpdateGroup, LogTime, BillByHand, Plan, Draft, vars, config

\* A fee superseded from any day of a month is charged once in every month
\* (load_active_items).
THEOREM OneFeeInForceCorrect == Spec => []OneFeeInForce
  <1>1. Init => OneFeeInForce
    <2> SUFFICES ASSUME Init, NEW d \in Day PROVE \E i \in Line : InForce(d) = {i}
      BY DEF OneFeeInForce
    <2>1. PICK l \in Line : line = [k \in Line |-> IF k = l THEN [from |-> None, to |-> None]
                                                   ELSE None]
      BY DEF Init
    <2>2. line[l] # None /\ line[l].from = None /\ line[l].to = None
      BY <2>1, NoneAssumption DEF RecurringLine
    <2>3. \A k \in Line \ {l} : line[k] = None
      BY <2>1
    <2>4. InForce(d) = {l}
      BY <2>2, <2>3 DEF InForce
    <2> QED
      BY <2>4
  <1>2. TypeOK /\ OneFeeInForce /\ [Next]_vars => TypeOK' /\ OneFeeInForce'
    BY FeeStep, TypeStep
  <1> QED
    BY <1>1, <1>2, TypeInit, PTL DEF Spec
=============================================================================
