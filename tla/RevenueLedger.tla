----------------------------- MODULE RevenueLedger -----------------------------
(***************************************************************************)
(* What revenue recognition promises its readers, without runs, drafts or  *)
(* planners: a month is closed once, with an amount for each project, and  *)
(* a closed month never changes.                                           *)
(***************************************************************************)
EXTENDS Naturals

CONSTANTS Project, Month

VARIABLES
    closed,     \* months that have been recognized
    booked      \* amount booked for each project in each month, 0 while open

vars == <<closed, booked>>

Init ==
    /\ closed = {}
    /\ booked = [m \in Month |-> [q \in Project |-> 0]]

\* The amounts of the month are booked, and those of no other month change.
Close(m) ==
    /\ m \notin closed
    /\ closed' = closed \cup {m}
    /\ DOMAIN booked'[m] = Project
    /\ booked' = [booked EXCEPT ![m] = booked'[m]]

Next == \E m \in Month : Close(m)

Spec == Init /\ [][Next]_vars
=============================================================================
