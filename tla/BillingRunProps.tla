---------------------------- MODULE BillingRunProps ----------------------------
(***************************************************************************)
(* Correctness properties of the monthly billing run.                      *)
(***************************************************************************)
EXTENDS BillingRun

\* Every variable holds a value of its column or of its part of the protocol.
TypeOK ==
    /\ runStatus \in [Run -> RunStatus \cup {"none"}]
    /\ runMonth \in [Run -> Month \cup {None}]
    /\ item \in [Run -> [Group -> ItemStatus \cup {"none"}]]
    /\ rejected \in [Run -> SUBSET Group]
    /\ override \in [Run -> SUBSET Group]
    /\ flag \in [Run -> [Group -> {"none", "error", "blocking"}]]
    /\ undecided \in [Run -> SUBSET Group]
    /\ resolved \in [Month -> SUBSET Group]
    /\ post \in [Run -> [Group -> PostState]]
    /\ invoices \in [Run -> [Group -> Nat]]
    /\ pc \in [Worker -> WorkerState]
    /\ at \in [Worker -> Run \cup {None}]
    /\ todo \in [Worker -> SUBSET Group]
    /\ cur \in [Worker -> Group \cup {None}]
    /\ derived \in [Worker -> RunStatus \cup {None}]
    /\ desk \in [Run -> Desk]
    /\ closing \in [Run -> SUBSET Group]
    /\ resolving \in [Run -> [Group -> Resolution \cup {None}]]

(***************************************************************************)
(* Duplicate invoices.                                                     *)
(***************************************************************************)

\* At most one row per group and month is live, across all runs: the promise
\* of billing_run_items_one_live_per_month, which every writer of the status
\* column has to respect or survive.
OneLiveRow ==
    \A r, x \in Run, g \in Group :
        /\ r # x
        /\ runMonth[r] = runMonth[x]
        /\ item[r][g] \in Live
        => item[x][g] \notin Live

\* Harvest never holds two invoices for one group and month, whatever clicks
\* overlap, processes die, answers get lost or months are planned again.
OneInvoice ==
    /\ \A r \in Run, g \in Group : invoices[r][g] <= 1
    /\ \A r, x \in Run, g \in Group :
          r # x /\ runMonth[r] = runMonth[x] /\ invoices[r][g] > 0
          => invoices[x][g] = 0

\* No money nobody can see: an invoice in Harvest always has a row that says
\* created, or in_flight until a human has looked; and a row says created
\* only when there is an invoice.
InvoiceAccounted ==
    \A r \in Run, g \in Group :
        /\ invoices[r][g] > 0 => item[r][g] \in {"in_flight", "created"}
        /\ item[r][g] = "created" => invoices[r][g] > 0

\* An outcome is final: a row that was created, that failed or that was
\* abandoned keeps that status, though the recorders update it unconditionally.
OutcomeIsFinal ==
    [][\A r \in Run, g \in Group :
          item[r][g] \in {"created", "failed", "abandoned"}
          => item'[r][g] = item[r][g]]_vars

(***************************************************************************)
(* Review.                                                                 *)
(***************************************************************************)

\* A group the planner skipped because one of its rows is in flight is never
\* turned back into an invoice by rejecting, un-rejecting, closing or
\* approving: the flag it carries is the one no override lifts.
BlockedStaysOut ==
    \A r \in Run, g \in Group : flag[r][g] = "blocking" => item[r][g] = "skipped"

\* An invoice with an undecided placeholder line is neither approved nor sent,
\* whatever was decided and withdrawn between planning and the click.
UndecidedNotSent ==
    \A r \in Run : \A g \in undecided[r] :
        item[r][g] \notin {"approved", "in_flight", "created", "failed"}

\* What the gate of approval withholds reaches Harvest by no other way: not by
\* a call that read the run before a click started it, not by a rejection taken
\* back, not by a decision withdrawn after the approval or under a click.
WithheldNotSent == BlockedStaysOut /\ UndecidedNotSent

(***************************************************************************)
(* Run status.                                                             *)
(***************************************************************************)

\* "abandoned" reads everywhere as "this produced nothing": no row of an
\* abandoned run was ever attempted in Harvest.
AbandonedDraftedNothing ==
    \A r \in Run, g \in Group :
        runStatus[r] = "abandoned" => item[r][g] \notin Attempted

\* What close_run says of a halted run: one that ends with an invoice
\* unaccounted for has not ended.  So a run that is over has no row in flight.
OverMeansAccounted ==
    \A r \in Run, g \in Group :
        runStatus[r] \in {"completed", "failed", "abandoned"}
        => item[r][g] # "in_flight"

\* What settle_run_status says of leftovers: a run with planned rows is never
\* over, because that would lock those rows out.
OverMeansNothingLeft ==
    \A r \in Run, g \in Group :
        runStatus[r] \in {"completed", "failed", "abandoned"}
        => item[r][g] # "planned"

(***************************************************************************)
(* Execution.                                                              *)
(***************************************************************************)

\* Nobody knows the outcome of the row's POST, and nobody is waiting for it.
Unknown(r, g) == item[r][g] = "in_flight" /\ \A w \in Worker : ~Holds(w, r, g)

\* What execute.py says of a halt: while the outcome of one row is unknown, no
\* other row of the run is taken, so that one unresolvable row does not become
\* a handful.
HaltedRunDraftsNothing ==
    [][\A r \in Run, g, h \in Group :
          Unknown(r, g) /\ item'[r][h] = "in_flight" => item[r][h] = "in_flight"]_vars

\* A click ends: it never waits for ever, for Harvest, for another click or
\* for an operator.
ClickReturns == \A w \in Worker : pc[w] # "idle" ~> pc[w] = "idle"

(***************************************************************************)
(* What the locks of the open transactions keep.                           *)
(***************************************************************************)

\* A run that was never planned has no rows.
NoRunNoRow ==
    \A r \in Run : runStatus[r] = "none" => \A g \in Group : item[r][g] = "none"

\* A click works on a run that was planned.
ClickOnRun == \A w \in Worker : pc[w] # "idle" => runStatus[at[w]] # "none"

\* A row that waits for the commit of a resolution is in flight, one that waits
\* for the commit of a closing is open, and the closing has the run locked.
LocksHold ==
    /\ \A r \in Run, g \in Group : resolving[r][g] # None => item[r][g] = "in_flight"
    /\ \A r \in Run : \A g \in closing[r] : item[r][g] \in ReviewableItem
    /\ \A r \in Run : closing[r] # {} => desk[r] \in RunStatus

\* A resolution on its way says of the invoice what is true, as long as nobody
\* marks a row failed while its POST runs.
ResolvedRight ==
    \A r \in Run, g \in Group : resolving[r][g] # None =>
        /\ resolving[r][g].row = "created" => invoices[r][g] > 0
        /\ resolving[r][g].row = "failed" => invoices[r][g] = 0 /\ PostSettled(r, g)

(***************************************************************************)
(* The inductive invariant behind OneInvoice and InvoiceAccounted.         *)
(***************************************************************************)

\* What Harvest did with a row's POST agrees with the row.
RowAgrees(r, g) ==
    /\ invoices[r][g] = IF post[r][g] = "accepted" THEN 1 ELSE 0
    /\ post[r][g] = "sent" => item[r][g] = "in_flight"
    /\ post[r][g] = "accepted" => item[r][g] \in {"in_flight", "created"}
    /\ post[r][g] = "refused" => item[r][g] \in {"in_flight", "failed"}
    /\ item[r][g] = "created" => post[r][g] = "accepted"

PostMatchesRow == \A r \in Run, g \in Group : RowAgrees(r, g)

\* Which of its local variables a worker has set at each point of its loop.
WorkerTyped ==
    \A w \in Worker :
        /\ pc[w] # "idle" => at[w] \in Run
        /\ pc[w] \in {"locked", "waiting"} => cur[w] \in Group
        /\ pc[w] = "write" => derived[w] \in RunStatus

\* What a worker knows of the row it holds.
Knows(w) ==
    /\ pc[w] = "locked" =>
          /\ item[at[w]][cur[w]] = "in_flight"
          /\ post[at[w]][cur[w]] = "none"
    /\ pc[w] = "waiting" =>
          /\ item[at[w]][cur[w]] \in {"in_flight", "created"}
          /\ post[at[w]][cur[w]] # "none"

WorkerKnows == \A w \in Worker : Knows(w)

\* A row is held by one worker at a time.
OneHolder ==
    \A v, w \in Worker, r \in Run, g \in Group :
        Holds(v, r, g) /\ Holds(w, r, g) => v = w

\* The write protocol in one formula: row, POST and click agree, and the slot
\* of the month is never doubled.
ProtocolInv ==
    /\ WorkerTyped
    /\ NoRunNoRow
    /\ LocksHold
    /\ ResolvedRight
    /\ PostMatchesRow
    /\ WorkerKnows
    /\ OneHolder
    /\ OneLiveRow

(***************************************************************************)
(* The inductive invariant behind WithheldNotSent.                         *)
(***************************************************************************)

\* The planner's own skip is not an operator's rejection, so it is not undone.
RejectedByPerson ==
    \A r \in Run : \A g \in rejected[r] :
        item[r][g] # "none" /\ flag[r][g] # "blocking"

\* A row a click holds was sent, or was settled by hand since.
HeldAttempted ==
    \A w \in Worker, r \in Run, g \in Group :
        Holds(w, r, g) => item[r][g] \in Attempted

ReviewInv ==
    /\ NoRunNoRow
    /\ HeldAttempted
    /\ RejectedByPerson
    /\ WithheldNotSent

(***************************************************************************)
(* Refinement of InvoiceSlot: the slot of a group and a month is claimed   *)
(* while one of its rows is in flight, and billed once one is created.     *)
(***************************************************************************)
Slot == Group \X Month

RowsOf(s) == {r \in Run : runMonth[r] = s[2]}

SlotState ==
    [s \in Slot |->
       IF \E r \in RowsOf(s) : item[r][s[1]] = "created" THEN "billed"
       ELSE IF \E r \in RowsOf(s) : item[r][s[1]] = "in_flight" THEN "claimed"
       ELSE "open"]

SlotInvoiced == {s \in Slot : \E r \in RowsOf(s) : invoices[r][s[1]] > 0}

Slots == INSTANCE InvoiceSlot WITH state <- SlotState, inHarvest <- SlotInvoiced

\* The ledger, the clicks and Harvest together implement the abstract slot.
RefinesSlots == Slots!Spec
=============================================================================
