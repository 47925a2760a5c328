--------------------------- MODULE MCInvoiceCalendar ---------------------------
(***************************************************************************)
(* A calendar of short months for checking InvoiceCalendar.                *)
(***************************************************************************)
EXTENDS InvoiceCalendarProps, TLC

\* Months of 1, 2 and 1 days.
ShortMonths == 0 :> 1 @@ 1 :> 2 @@ 2 :> 4 @@ 3 :> 5
MonthOfShort == [d \in 1..4 |-> CHOOSE m \in 0..2 :
                    ShortMonths[m] <= d /\ d < ShortMonths[m + 1]]

Symmetric == Permutations(Entry) \cup Permutations(Line)
=============================================================================
