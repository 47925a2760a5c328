-------------------------- MODULE InvoiceCalendarProps --------------------------
(***************************************************************************)
(* What the invoices of a group must be, over its months.                  *)
(***************************************************************************)
EXTENDS InvoiceCalendar

Row == [status : {"planned", "skipped", "created"},
        start : Day, end : Day, issue : Day, due : Int,
        lines : SUBSET Line, estimated : SUBSET Entry, late : SUBSET Entry,
        billed : SUBSET Entry, known : SUBSET Entry,
        timing : Timing, days : NetDays, drafted : Day \cup {None}]

\* Periods and issue dates are days of the calendar, in every month and for
\* both timings (resolve_period).
TypeOK ==
    /\ today \in Day
    /\ timing \in Timing /\ net \in NetDays /\ monthly \in BOOLEAN
    /\ entry \in [Entry -> TimeEntry \cup {None}]
    /\ line \in [Line -> RecurringLine \cup {None}]
    /\ row \in [Month -> Row \cup {None}]

Planned(m) == row[m] # None
Created(m) == row[m] # None /\ row[m].status = "created"

\* The periods of a group tile the calendar (resolve_period): the invoice of a
\* later run month starts after this one ends, on the very next day if it is the
\* next month's and the timing is the same.  Only a group moved from advance to
\* arrears between two consecutive runs is billed the same period again; one
\* moved the other way has a month left out, which is a gap and no overlap.
PeriodsTile ==
    \A m, n \in Month : m < n /\ Planned(m) /\ Planned(n) =>
        IF n = m + 1 /\ row[m].timing = "advance" /\ row[n].timing = "arrears"
        THEN row[n].start = row[m].start /\ row[n].end = row[m].end
        ELSE /\ row[m].end < row[n].start
             /\ n = m + 1 /\ row[m].timing = row[n].timing =>
                    row[n].start = row[m].end + 1

\* The time a period leaves behind was announced (estimator, STRAGGLER_TIME).
\* Once a month is drafted, an entry that was there when it was planned, dated
\* in or before its period and still not invoiced, was flagged as a straggler,
\* whichever months were run, run again or retimed in between.
LeftBehindAnnounced ==
    \A m \in Month : Created(m) /\ ~monthly =>
        \A e \in row[m].known :
            /\ Uninvoiced(e)
            /\ row[m].start - Lookback <= entry[e].day
            /\ entry[e].day <= row[m].end
            => e \in row[m].late

\* An invoice has no surprises (payload, estimator): of the entries that existed
\* at the plan it takes none that the estimate did not count or flag, and no two
\* invoices take the same entry.
BilledAsEstimated ==
    \A m \in Month :
        /\ Planned(m) => row[m].billed \cap row[m].known \subseteq row[m].estimated
        /\ \A n \in Month \ {m} :
              Planned(m) /\ Planned(n) => row[m].billed \cap row[n].billed = {}

\* The client's days begin when the invoice exists (resolve_draft_dating): an
\* invoice is due the number of days agreed when it was planned after its draft
\* or its issue, whichever is later, so never before the date that was approved
\* and never by a term edited since.
DueInFull ==
    \A m \in Month : Planned(m) =>
        LET r == row[m]
        IN  IF Created(m)
            THEN /\ r.due >= r.drafted + r.days
                 /\ r.due >= r.issue + r.days
                 /\ r.due \in {r.drafted + r.days, r.issue + r.days}
            ELSE r.due = r.issue + r.days

\* One fee per month (load_active_items): however a fee is superseded, from any
\* day of a month to any day of the next, each month has exactly one in force.
OneFeeInForce ==
    \A d \in Day : \E l \in Line : InForce(d) = {l}

(***************************************************************************)
(* The inductive invariant.                                                *)
(***************************************************************************)

\* A row has the period of its month, under the timing it was planned with.
PeriodKept ==
    \A m \in Month : Planned(m) =>
        LET p == Period(m, row[m].timing)
        IN  row[m].start = p.start /\ row[m].end = p.end /\ row[m].issue = p.issue

\* What was there at the plan is still there, and was counted or flagged.
Shown ==
    \A m \in Month : Planned(m) =>
        \A e \in row[m].known :
            /\ entry[e] # None
            /\ ~monthly =>
                 /\ entry[e].day \in row[m].start..row[m].end => e \in row[m].estimated
                 /\ entry[e].day \in (row[m].start - Lookback)..(row[m].start - 1) =>
                        e \in row[m].late

\* What an invoice took is marked, and only a created row took anything.
Marked ==
    \A m \in Month : Planned(m) =>
        /\ ~Created(m) => row[m].billed = {}
        /\ monthly => row[m].billed = {}
        /\ \A e \in row[m].billed : entry[e] # None /\ entry[e].billed

\* A created invoice leaves none of the entries it knew of in its period.
Cleared ==
    \A m \in Month : Created(m) /\ ~monthly =>
        \A e \in row[m].known :
            entry[e].day \in row[m].start..row[m].end => entry[e].billed

CalendarInv ==
    TypeOK /\ PeriodKept /\ Shown /\ Marked /\ Cleared /\ BilledAsEstimated /\ DueInFull
=============================================================================
