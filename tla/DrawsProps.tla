------------------------------- MODULE DrawsProps -------------------------------
(***************************************************************************)
(* Correctness properties of fixed-fee draws.                              *)
(***************************************************************************)
EXTENDS Draws

\* Every variable holds a value of its column or of its part of the protocol.
TypeOK ==
    /\ terms \in [Draw -> Terms \cup {None}]
    /\ retired \subseteq Draw
    /\ edit \subseteq [Draw -> Terms \cup {None}]
    /\ released \subseteq Draw
    /\ invoiced \in [Draw -> Click \cup {None}]
    /\ active \in BOOLEAN
    /\ row \in [Click -> RowStatus]
    /\ runStatus \in [Click -> RunStatus]
    /\ post \in [Click -> PostState]
    /\ invoices \in [Click -> Nat]
    /\ pc \in [Click -> ClickState]
    /\ target \in [Click -> Draw \cup {None}]
    /\ body \in [Click -> Terms \cup {None}]

\* A milestone is billed once: however many operators click, and whatever is
\* resolved, withdrawn and released again in between, Harvest holds at most one
\* invoice for a draw.
OneInvoicePerDraw ==
    /\ \A c \in Click : invoices[c] <= 1
    /\ \A c, x \in Click :
          invoices[c] > 0 /\ invoices[x] > 0 /\ target[c] = target[x] => c = x

\* No invoice in Harvest without a row that says created, or in_flight until a
\* human has looked.
InvoiceAccounted ==
    \A c \in Click : invoices[c] > 0 => row[c] \in Live

\* The draw and the row that consumed it become true together: the invoiced
\* draw names exactly the run whose row says created, whether transaction B or
\* a human wrote it, and that run is completed.
ConsumedTogether ==
    /\ \A c \in Click : row[c] = "created" => invoiced[target[c]] = c
    /\ \A d \in Draw : invoiced[d] # None =>
          target[invoiced[d]] = d /\ row[invoiced[d]] = "created"
    /\ \A c \in Click : row[c] = "created" <=> runStatus[c] = "completed"

\* The partial unique index: one live row per draw, even when a row is marked
\* failed while its POST runs and the late answer comes in.
OneLiveRow ==
    \A c, x \in Click :
        row[c] \in Live /\ row[x] \in Live /\ target[c] = target[x] => c = x

\* Billing history stands: once a draw is invoiced it stays in the schedule,
\* with the same terms, released as it was, and naming the same run, also when
\* it is invoiced between what an edit reads and what it writes.
\* (OperatorWaits: an edit may overwrite a draw whose row was marked failed and
\* whose late answer comes in before the edit writes.)
HistoryStands ==
    [][\A d \in Draw :
          invoiced[d] # None =>
              /\ invoiced'[d] = invoiced[d]
              /\ terms'[d] = terms[d]
              /\ terms[d] # None
              /\ d \in released <=> d \in released']_vars

\* What save_draws says of a live row: its values are those of the schedule,
\* else the ledger describes an invoice nobody agreed to.
LedgerMatchesSchedule ==
    \A c \in Click : row[c] \in Live => body[c] = terms[target[c]]

(***************************************************************************)
(* The inductive invariant.                                                *)
(***************************************************************************)

\* A row references a draw of the schedule.
RowHasDraw ==
    \A c \in Click :
        /\ pc[c] # "idle" => target[c] \in Draw
        /\ row[c] # "none" => target[c] \in Draw /\ Scheduled(target[c])
        /\ pc[c] \in {"idle", "quoted"} => row[c] = "none"
        /\ pc[c] \in {"locked", "waiting"} => row[c] # "none"
        /\ pc[c] = "idle" => target[c] = None

\* What Harvest answered agrees with the invoices it holds, and a row becomes
\* created only of an invoice.
Answered ==
    \A c \in Click :
        /\ invoices[c] = IF post[c] = "accepted" THEN 1 ELSE 0
        /\ pc[c] \in {"idle", "quoted", "locked"} => post[c] = "none"
        /\ row[c] = "created" => post[c] = "accepted"

\* A row is settled as failed only when no POST can create its invoice any more.
Held ==
    \A c \in Click :
        /\ pc[c] = "locked" => row[c] = "in_flight"
        /\ pc[c] = "waiting" => post[c] # "none" /\ row[c] \in Live
        /\ post[c] = "sent" => row[c] = "in_flight"
        /\ post[c] = "accepted" => row[c] \in Live

\* What an open edit is about to write still leaves every draw as it is that is
\* invoiced or being invoiced.
EditFits ==
    \A submitted \in edit, d \in Draw :
        Scheduled(d) /\ (invoiced[d] # None \/ HasLiveRow(d)) => submitted[d] = terms[d]

DrawsInv == RowHasDraw /\ Answered /\ Held /\ EditFits /\ OneLiveRow /\ ConsumedTogether

(***************************************************************************)
(* Refinement of InvoiceSlot: a draw is a slot.                            *)
(***************************************************************************)
SlotState ==
    [d \in Draw |->
       IF \E c \in RowsOf(d) : row[c] = "created" THEN "billed"
       ELSE IF \E c \in RowsOf(d) : row[c] = "in_flight" THEN "claimed"
       ELSE "open"]

SlotInvoiced == {d \in Draw : \E c \in RowsOf(d) : invoices[c] > 0}

Slots == INSTANCE InvoiceSlot
         WITH Slot <- Draw, state <- SlotState, inHarvest <- SlotInvoiced

\* A draw keeps the same promise as a group's month, by another index.
RefinesSlots == Slots!Spec
=============================================================================
