---------------------------- MODULE RevenueRunProps ----------------------------
(***************************************************************************)
(* Correctness properties of revenue recognition.                          *)
(***************************************************************************)
EXTENDS RevenueRun

\* Every variable holds a value of its column or of its place in plan_run.
TypeOK ==
    /\ roster \in [Project -> RosterState]
    /\ config \in [Project -> RevenueType \cup {"none"}]
    /\ status \in [Run -> {"none", "draft", "recognized", "abandoned", "deleted"}]
    /\ month \in [Run -> 0 .. LastMonth]
    /\ DOMAIN entries = Run
    /\ \A r \in Run : DOMAIN entries[r] \subseteq Project
    /\ \A r \in Run : \A q \in DOMAIN entries[r] : entries[r][q] \in Entry
    /\ pc \in [Planner -> PlannerState]
    /\ period \in [Planner -> 0 .. LastMonth]
    /\ DOMAIN listed = Planner
    /\ DOMAIN drafted = Planner
    /\ \A p \in Planner : DOMAIN drafted[p] \subseteq Project
    /\ \A p \in Planner : \A q \in DOMAIN drafted[p] : drafted[p][q] \in Entry

\* A retainer is not computed: the amount it is recognized at was put there by
\* a person, though the type of the project can change between planning and
\* finalizing, and though it has months of history to be differenced against.
RetainersDecided ==
    \A r \in Recognized : \A q \in DOMAIN entries[r] :
        entries[r][q].type = "retainer" => entries[r][q].overridden

\* Every period is computed against the sum of the ones before it, so that what
\* was finalized before a month and the month itself add up to its cumulative
\* figure, whatever is overridden, abandoned, deleted or planned at the same time
\* and afterwards.  What was finalized is what had been when the amount was
\* computed, and that is still finalized and for an earlier month.  So revenue
\* is recognized twice by exactly what a month books that is closed behind the
\* back of a later one, and not at all if each month is planned after the one
\* before it is closed.
LedgerAddsUp ==
    \A r \in Recognized : \A q \in DOMAIN entries[r] :
        LET entry == entries[r][q]
        IN  entry.type = "computed" /\ ~entry.overridden
            => /\ entry.against \subseteq PriorRuns(month[r])
               /\ BookedBy(entry.against, q) + entry.amount = entry.target

\* The partial unique index, with the inserts that have not been committed: two
\* people planning a month at once never both succeed.
Claims(m) ==
    {r \in Run : month[r] = m /\ status[r] \in {"draft", "recognized"}}

OneLiveRun ==
    /\ \A r, x \in Run :
          /\ r # x
          /\ status[r] \in {"draft", "recognized"}
          /\ status[x] \in {"draft", "recognized"}
          => month[r] # month[x]
    /\ \A p \in Planner : pc[p] = "inserted" => Claims(period[p]) = {}
    /\ \A p, o \in Planner :
          p # o /\ pc[p] = "inserted" /\ pc[o] = "inserted" => period[p] # period[o]

(***************************************************************************)
(* Refinement of RevenueLedger.                                            *)
(***************************************************************************)
Closed == {m \in Month : \E r \in Recognized : month[r] = m}

BookedIn ==
    [m \in Month |->
       [q \in Project |->
          IF m \in Closed
          THEN Booked(CHOOSE r \in Recognized : month[r] = m, q)
          ELSE 0]]

Ledger == INSTANCE RevenueLedger WITH closed <- Closed, booked <- BookedIn

\* To its readers the ledger is a book of closed months: planning, overriding,
\* abandoning and deleting are invisible, finalizing closes one month, and no
\* step ever changes a month that is closed.
RefinesLedger == Ledger!Spec
=============================================================================
