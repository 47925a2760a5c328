------------------------------ MODULE InvoiceSlot ------------------------------
(***************************************************************************)
(* What the write protocol of the monthly run promises, without runs, rows *)
(* or clicks.  A slot is one billing group in one month.  It is open until *)
(* somebody claims it; Harvest may create the slot's one invoice only      *)
(* while it is claimed; the claim ends by recording the invoice, or by     *)
(* giving the slot up when there is none.                                  *)
(***************************************************************************)
CONSTANT Slot

VARIABLES
    state,      \* "open", "claimed" or "billed", for each slot
    inHarvest   \* slots for which Harvest holds an invoice

vars == <<state, inHarvest>>

TypeOK ==
    /\ state \in [Slot -> {"open", "claimed", "billed"}]
    /\ inHarvest \subseteq Slot

Init ==
    /\ state = [s \in Slot |-> "open"]
    /\ inHarvest = {}

Claim(s) ==
    /\ state[s] = "open"
    /\ state' = [state EXCEPT ![s] = "claimed"]
    /\ UNCHANGED inHarvest

Create(s) ==
    /\ state[s] = "claimed"
    /\ s \notin inHarvest
    /\ inHarvest' = inHarvest \cup {s}
    /\ UNCHANGED state

Bill(s) ==
    /\ state[s] = "claimed"
    /\ s \in inHarvest
    /\ state' = [state EXCEPT ![s] = "billed"]
    /\ UNCHANGED inHarvest

Release(s) ==
    /\ state[s] = "claimed"
    /\ s \notin inHarvest
    /\ state' = [state EXCEPT ![s] = "open"]
    /\ UNCHANGED inHarvest

Next == \E s \in Slot : Claim(s) \/ Create(s) \/ Bill(s) \/ Release(s)

Spec == Init /\ [][Next]_vars
=============================================================================
