------------------------------- MODULE DrawsProof -------------------------------
(***************************************************************************)
(* Proofs about fixed-fee draws, for any schedule and any number of clicks.*)
(***************************************************************************)
EXTENDS DrawsProps, TLAPS

\* The steps of save_draws.
EditStep ==
    \/ \E submitted \in [Draw -> Terms \cup {None}] : BeginEdit(submitted)
    \/ SaveEdit
    \/ DropEdit

Inv == TypeOK /\ RowHasDraw /\ Answered /\ OneLiveRow /\ ConsumedTogether

\* Nothing is scheduled, clicked or billed at first.
LEMMA InvInit == Init => Inv
  BY DrawsAssumption DEF Init, Inv, TypeOK, RowHasDraw, Answered, OneLiveRow, ConsumedTogether,
     RowStatus, RunStatus, PostState, ClickState, Live, Scheduled

\* Types and the references of rows to draws survive every step.
LEMMA TypeStep ==
    ASSUME Inv, Next
    PROVE  TypeOK' /\ RowHasDraw'
  <1> USE DrawsAssumption DEF Inv, TypeOK, RowHasDraw, Scheduled, schedule, ledger, harvest,
      click, RowStatus, RunStatus, PostState, ClickState
  <1>1. ASSUME EditStep PROVE TypeOK' /\ RowHasDraw'
    BY <1>1 DEF EditStep, BeginEdit, SaveEdit, DropEdit, RowsOf
  <1>2. ASSUME NEW d \in Draw, Release(d) \/ Withdraw(d)
        PROVE  TypeOK' /\ RowHasDraw'
    BY <1>2 DEF Release, Withdraw
  <1>3. CASE Deactivate
    BY <1>3 DEF Deactivate
  <1>4. ASSUME NEW c \in Click, Invoice(c) PROVE TypeOK' /\ RowHasDraw'
    <2>1. ASSUME NEW d \in Draw, Quote(c, d) PROVE TypeOK' /\ RowHasDraw'
      BY <2>1 DEF Quote
    <2>3. CASE LockDraw(c)
      BY <2>3 DEF LockDraw
    <2>4. CASE GiveUp(c)
      BY <2>4 DEF GiveUp
    <2>5. CASE SendPost(c)
      BY <2>5 DEF SendPost
    <2>6. CASE RecordCreated(c)
      BY <2>6 DEF RecordCreated, Consume
    <2>7. CASE RecordFailure(c)
      BY <2>7 DEF RecordFailure
    <2>8. CASE RecordUnknown(c)
      BY <2>8 DEF RecordUnknown
    <2> QED BY <1>4, <2>1, <2>3, <2>4, <2>5, <2>6, <2>7, <2>8 DEF Invoice
  <1>5. ASSUME NEW c \in Click, HarvestCreates(c) \/ HarvestRefuses(c)
        PROVE  TypeOK' /\ RowHasDraw'
    BY <1>5 DEF HarvestCreates, HarvestRefuses
  <1>6. ASSUME NEW c \in Click, ResolveLink(c) \/ ResolveFailed(c)
        PROVE  TypeOK' /\ RowHasDraw'
    BY <1>6 DEF ResolveLink, ResolveFailed, Consume
  <1> QED BY <1>1, <1>2, <1>3, <1>4, <1>5, <1>6 DEF Next, EditStep

\* No step makes two rows of a draw live.
LEMMA OneLiveRowStep ==
    ASSUME Inv, Next
    PROVE  OneLiveRow'
  <1> USE DEF Inv, TypeOK, RowHasDraw, Live, schedule, ledger, harvest, click
  <1>1. ASSUME UNCHANGED <<row, target>> PROVE OneLiveRow'
    BY <1>1 DEF OneLiveRow
  <1>2. ASSUME NEW c \in Click, UNCHANGED target,
               \A x \in Click \ {c} : row'[x] = row[x],
               row'[c] \notin Live \/ SlotFree(c),
               target[c] \in Draw
        PROVE  OneLiveRow'
    BY <1>2 DEF OneLiveRow, SlotFree, RowsOf
  <1>3. ASSUME EditStep PROVE OneLiveRow'
    BY <1>1, <1>3 DEF EditStep, BeginEdit, SaveEdit, DropEdit
  <1>4. ASSUME NEW d \in Draw, Release(d) \/ Withdraw(d) PROVE OneLiveRow'
    BY <1>1, <1>4 DEF Release, Withdraw
  <1>5. CASE Deactivate
    BY <1>1, <1>5 DEF Deactivate
  <1>6. ASSUME NEW c \in Click, Invoice(c) PROVE OneLiveRow'
    <2>1. ASSUME NEW d \in Draw, Quote(c, d) PROVE OneLiveRow'
      BY <2>1 DEF Quote, OneLiveRow
    <2>2. CASE GiveUp(c) \/ SendPost(c) \/ RecordUnknown(c)
      BY <1>1, <2>2 DEF GiveUp, SendPost, RecordUnknown
    <2>3. CASE LockDraw(c)
      BY <1>2, <2>3 DEF LockDraw
    <2>4. CASE RecordCreated(c)
      BY <1>2, <2>4 DEF RecordCreated, Consume
    <2>5. CASE RecordFailure(c)
      BY <1>2, <2>5 DEF RecordFailure
    <2> QED BY <1>6, <2>1, <2>2, <2>3, <2>4, <2>5 DEF Invoice
  <1>7. ASSUME NEW c \in Click, HarvestCreates(c) \/ HarvestRefuses(c) PROVE OneLiveRow'
    BY <1>1, <1>7 DEF HarvestCreates, HarvestRefuses
  <1>8. ASSUME NEW c \in Click, ResolveLink(c) \/ ResolveFailed(c) PROVE OneLiveRow'
    <2>1. target[c] \in Draw
      BY <1>8 DEF ResolveLink, ResolveFailed
    <2>2. row[c] = "in_flight" => SlotFree(c)
      BY <2>1 DEF SlotFree, RowsOf, OneLiveRow
    <2>3. /\ row[c] = "in_flight" /\ UNCHANGED target
          /\ \A x \in Click \ {c} : row'[x] = row[x]
      BY <1>8 DEF ResolveLink, ResolveFailed, Consume
    <2> QED BY <1>2, <2>1, <2>2, <2>3
  <1> QED BY <1>3, <1>4, <1>5, <1>6, <1>7, <1>8 DEF Next, EditStep

\* Only Harvest's own steps change what it holds, and only a found invoice
\* makes a row created.
LEMMA AnsweredStep ==
    ASSUME Inv, Next
    PROVE  Answered'
  <1> USE DEF Inv, TypeOK, Answered, schedule, ledger, harvest, click, PostState
  <1>1. ASSUME EditStep PROVE Answered'
    BY <1>1 DEF EditStep, BeginEdit, SaveEdit, DropEdit
  <1>2. ASSUME NEW d \in Draw, Release(d) \/ Withdraw(d) PROVE Answered'
    BY <1>2 DEF Release, Withdraw
  <1>3. CASE Deactivate
    BY <1>3 DEF Deactivate
  <1>4. ASSUME NEW c \in Click, Invoice(c) PROVE Answered'
    <2>1. ASSUME NEW d \in Draw, Quote(c, d) PROVE Answered'
      BY <2>1 DEF Quote
    <2>2. CASE GiveUp(c) \/ RecordUnknown(c)
      BY <2>2 DEF GiveUp, RecordUnknown
    <2>3. CASE LockDraw(c)
      BY <2>3 DEF LockDraw
    <2>4. CASE SendPost(c)
      BY <2>4 DEF SendPost
    <2>5. CASE RecordCreated(c)
      BY <2>5 DEF RecordCreated, Consume
    <2>6. CASE RecordFailure(c)
      BY <2>6 DEF RecordFailure
    <2> QED BY <1>4, <2>1, <2>2, <2>3, <2>4, <2>5, <2>6 DEF Invoice
  <1>5. ASSUME NEW c \in Click, HarvestCreates(c) \/ HarvestRefuses(c) PROVE Answered'
    BY <1>5 DEF HarvestCreates, HarvestRefuses
  <1>6. ASSUME NEW c \in Click, ResolveLink(c) \/ ResolveFailed(c) PROVE Answered'
    BY <1>6 DEF ResolveLink, ResolveFailed, Consume
  <1> QED BY <1>1, <1>2, <1>3, <1>4, <1>5, <1>6 DEF Next, EditStep

\* Draw, row and run are settled together, by transaction B or by hand.
LEMMA ConsumedStep ==
    ASSUME Inv, Next
    PROVE  ConsumedTogether'
  <1> USE DEF Inv, TypeOK, schedule, ledger, harvest, click
  <1>1. ASSUME UNCHANGED <<ledger, target>> PROVE ConsumedTogether'
    BY <1>1 DEF ConsumedTogether
  <1>2. ASSUME NEW c \in Click, UNCHANGED <<target, invoiced>>,
               \A x \in Click \ {c} : row'[x] = row[x] /\ runStatus'[x] = runStatus[x],
               row[c] # "created",
               row'[c] # "created", runStatus'[c] # "completed"
        PROVE  ConsumedTogether'
    BY <1>2 DEF ConsumedTogether
  <1>3. ASSUME NEW c \in Click, UNCHANGED target, Consume(c), SlotFree(c),
               target[c] \in Draw
        PROVE  ConsumedTogether'
    <2>1. invoiced[target[c]] \in {c, None}
      <3> SUFFICES ASSUME NEW x \in Click \ {c}, invoiced[target[c]] = x PROVE FALSE
        BY <1>3
      <3>1. row[x] = "created" /\ target[x] = target[c]
        BY <1>3, DrawsAssumption DEF ConsumedTogether
      <3> QED BY <1>3, <3>1 DEF SlotFree, RowsOf, Live
    <2>2. \A x \in Click \ {c} : row'[x] = row[x] /\ runStatus'[x] = runStatus[x]
      BY <1>3 DEF Consume
    <2>3. row'[c] = "created" /\ runStatus'[c] = "completed" /\ invoiced'[target[c]] = c
      BY <1>3 DEF Consume, RowStatus, RunStatus
    <2>4. \A d \in Draw : d # target[c] => invoiced'[d] = invoiced[d]
      BY <1>3 DEF Consume
    <2>5. \A x \in Click : row'[x] = "created" => invoiced'[target'[x]] = x
      <3> SUFFICES ASSUME NEW x \in Click \ {c}, row'[x] = "created"
                   PROVE  invoiced'[target'[x]] = x
        BY <1>3, <2>3
      <3>1. row[x] = "created" /\ target[x] \in Draw /\ invoiced[target[x]] = x
        BY <2>2 DEF ConsumedTogether, RowHasDraw
      <3>2. target[x] # target[c]
        BY <2>1, <3>1, DrawsAssumption
      <3> QED BY <1>3, <2>4, <3>1, <3>2
    <2>6. \A d \in Draw : invoiced'[d] # None =>
            target'[invoiced'[d]] = d /\ row'[invoiced'[d]] = "created"
      BY <1>3, <2>2, <2>3, <2>4 DEF ConsumedTogether
    <2>7. \A x \in Click : row'[x] = "created" <=> runStatus'[x] = "completed"
      BY <2>2, <2>3 DEF ConsumedTogether
    <2> QED BY <2>5, <2>6, <2>7 DEF ConsumedTogether
  <1>4. ASSUME EditStep PROVE ConsumedTogether'
    BY <1>1, <1>4 DEF EditStep, BeginEdit, SaveEdit, DropEdit
  <1>5. ASSUME NEW d \in Draw, Release(d) \/ Withdraw(d) PROVE ConsumedTogether'
    BY <1>1, <1>5 DEF Release, Withdraw
  <1>6. CASE Deactivate
    BY <1>1, <1>6 DEF Deactivate
  <1>7. ASSUME NEW c \in Click, Invoice(c) PROVE ConsumedTogether'
    <2>1. ASSUME NEW d \in Draw, Quote(c, d) PROVE ConsumedTogether'
      <3>1. row[c] # "created" /\ \A h \in Draw : invoiced[h] # c
        BY <2>1, DrawsAssumption DEF Quote, RowHasDraw, ConsumedTogether
      <3>2. \A x \in Click \ {c} : target'[x] = target[x]
        BY <2>1 DEF Quote
      <3> QED BY <2>1, <3>1, <3>2 DEF Quote, ConsumedTogether
    <2>2. CASE GiveUp(c) \/ SendPost(c) \/ RecordUnknown(c)
      BY <1>1, <2>2 DEF GiveUp, SendPost, RecordUnknown
    <2>3. CASE LockDraw(c)
      BY <1>2, <2>3 DEF LockDraw, RowHasDraw
    <2>4. CASE RecordCreated(c)
      BY <1>3, <2>4 DEF RecordCreated, RowHasDraw
    <2>5. CASE RecordFailure(c)
      BY <1>2, <2>5 DEF RecordFailure, Answered
    <2> QED BY <1>7, <2>1, <2>2, <2>3, <2>4, <2>5 DEF Invoice
  <1>8. ASSUME NEW c \in Click, HarvestCreates(c) \/ HarvestRefuses(c)
        PROVE  ConsumedTogether'
    BY <1>1, <1>8 DEF HarvestCreates, HarvestRefuses
  <1>9. ASSUME NEW c \in Click, ResolveLink(c) PROVE ConsumedTogether'
    <2>1. target[c] \in Draw /\ row[c] = "in_flight"
      BY <1>9 DEF ResolveLink, RowHasDraw
    <2>2. SlotFree(c)
      BY <2>1 DEF SlotFree, RowsOf, OneLiveRow, Live
    <2> QED BY <1>3, <1>9, <2>1, <2>2 DEF ResolveLink
  <1>10. ASSUME NEW c \in Click, ResolveFailed(c) PROVE ConsumedTogether'
    BY <1>2, <1>10 DEF ResolveFailed
  <1> QED BY <1>4, <1>5, <1>6, <1>7, <1>8, <1>9, <1>10 DEF Next, EditStep

\* The invariant is inductive, however impatient the operators.
LEMMA InvStep == Inv /\ [Next]_vars => Inv'
  <1> SUFFICES ASSUME Inv, [Next]_vars PROVE Inv'
    OBVIOUS
  <1>1. CASE UNCHANGED vars
    BY <1>1 DEF vars, Inv, TypeOK, RowHasDraw, Scheduled, Answered, OneLiveRow,
       ConsumedTogether
  <1>2. CASE Next
    BY <1>2, TypeStep, AnsweredStep, OneLiveRowStep, ConsumedStep DEF Inv
  <1> QED BY <1>1, <1>2

\* Every variable keeps to its column or its place in the protocol.
THEOREM TypeCorrect == Spec => []TypeOK
  <1>1. Inv => TypeOK
    BY DEF Inv
  <1> QED BY <1>1, InvInit, InvStep, PTL DEF Spec

\* A draw never has two live rows, even when a row is marked failed while its
\* POST runs and the late answer comes in.
THEOREM OneLiveRowCorrect == Spec => []OneLiveRow
  <1>1. Inv => OneLiveRow
    BY DEF Inv
  <1> QED BY <1>1, InvInit, InvStep, PTL DEF Spec

\* The invoiced draw and the created row name each other, always: no crash or
\* race separates them.
THEOREM ConsumedTogetherCorrect == Spec => []ConsumedTogether
  <1>1. Inv => ConsumedTogether
    BY DEF Inv
  <1> QED BY <1>1, InvInit, InvStep, PTL DEF Spec

\* With operators who wait, a POST and its row agree.
LEMMA HeldStep ==
    ASSUME OperatorWaits, Inv, Held, Next
    PROVE  Held'
  <1> USE DEF Inv, TypeOK, Held, schedule, ledger, harvest, click, Live, PostState
  <1>1. ASSUME EditStep PROVE Held'
    BY <1>1 DEF EditStep, BeginEdit, SaveEdit, DropEdit
  <1>2. ASSUME NEW d \in Draw, Release(d) \/ Withdraw(d) PROVE Held'
    BY <1>2 DEF Release, Withdraw
  <1>3. CASE Deactivate
    BY <1>3 DEF Deactivate
  <1>4. ASSUME NEW c \in Click, Invoice(c) PROVE Held'
    <2>1. ASSUME NEW d \in Draw, Quote(c, d) PROVE Held'
      BY <2>1 DEF Quote
    <2>2. CASE GiveUp(c) \/ RecordUnknown(c)
      BY <2>2 DEF GiveUp, RecordUnknown
    <2>3. CASE LockDraw(c)
      BY <2>3 DEF LockDraw, Answered
    <2>4. CASE SendPost(c)
      BY <2>4 DEF SendPost
    <2>5. CASE RecordCreated(c)
      BY <2>5 DEF RecordCreated, Consume
    <2>6. CASE RecordFailure(c)
      BY <2>6 DEF RecordFailure
    <2> QED BY <1>4, <2>1, <2>2, <2>3, <2>4, <2>5, <2>6 DEF Invoice
  <1>5. ASSUME NEW c \in Click, HarvestCreates(c) \/ HarvestRefuses(c) PROVE Held'
    BY <1>5 DEF HarvestCreates, HarvestRefuses
  <1>6. ASSUME NEW c \in Click, ResolveLink(c) PROVE Held'
    <2>1. invoices[c] > 0 /\ invoices[c] = IF post[c] = "accepted" THEN 1 ELSE 0
      BY <1>6 DEF ResolveLink, Answered
    <2>2. post[c] = "accepted"
      BY <2>1
    <2> QED BY <1>6, <2>2 DEF ResolveLink, Consume, Answered
  <1>7. ASSUME NEW c \in Click, ResolveFailed(c) PROVE Held'
    <2>1. post[c] # "accepted"
      BY <1>7 DEF ResolveFailed, Answered
    <2> QED BY <1>7, <2>1 DEF ResolveFailed
  <1> QED BY <1>1, <1>2, <1>3, <1>4, <1>5, <1>6, <1>7 DEF Next, EditStep

\* No row becomes live and no draw invoiced under an open edit but those it
\* already found so.
LEMMA EditFitsStep ==
    ASSUME Inv, Held, EditFits, Next
    PROVE  EditFits'
  <1> USE DEF Inv, TypeOK, schedule, ledger, harvest, click
  <1>1. ASSUME UNCHANGED <<terms, invoiced, row, target>>, edit' \subseteq edit
        PROVE  EditFits'
    BY <1>1 DEF EditFits, Scheduled, HasLiveRow, RowsOf
  <1>2. ASSUME edit' = {} PROVE EditFits'
    BY <1>2 DEF EditFits
  <1>3. ASSUME NEW c \in Click, row[c] \in Live, row'[c] # "none",
               \A x \in Click \ {c} : row'[x] = row[x],
               \A d \in Draw : d # target[c] => invoiced'[d] = invoiced[d],
               UNCHANGED <<terms, edit, target>>
        PROVE  EditFits'
    <2> SUFFICES ASSUME NEW submitted \in edit, NEW d \in Draw, Scheduled(d),
                        invoiced'[d] # None \/ HasLiveRow(d)'
                 PROVE  submitted[d] = terms[d]
      BY <1>3 DEF EditFits, Scheduled
    <2>1. CASE d = target[c]
      <3>1. HasLiveRow(d)
        BY <1>3, <2>1 DEF HasLiveRow, RowsOf, Live
      <3> QED BY <3>1 DEF EditFits
    <2>2. CASE d # target[c]
      <3>1. invoiced'[d] = invoiced[d] /\ (HasLiveRow(d)' => HasLiveRow(d))
        BY <1>3, <2>2 DEF HasLiveRow, RowsOf
      <3> QED BY <3>1 DEF EditFits
    <2> QED BY <2>1, <2>2
  <1>4. ASSUME NEW submitted \in [Draw -> Terms \cup {None}], BeginEdit(submitted)
        PROVE  EditFits'
    BY <1>4 DEF BeginEdit, Acceptable, EditFits, Scheduled, HasLiveRow, RowsOf
  <1>5. CASE SaveEdit \/ DropEdit
    BY <1>2, <1>5 DEF SaveEdit, DropEdit
  <1>6. ASSUME NEW d \in Draw, Release(d) \/ Withdraw(d) PROVE EditFits'
    BY <1>1, <1>6 DEF Release, Withdraw
  <1>7. CASE Deactivate
    BY <1>1, <1>7 DEF Deactivate
  <1>8. ASSUME NEW c \in Click, Invoice(c) PROVE EditFits'
    <2>1. ASSUME NEW d \in Draw, Quote(c, d) PROVE EditFits'
      <3>1. /\ row[c] = "none" /\ UNCHANGED <<terms, edit, invoiced, row>>
            /\ \A x \in Click \ {c} : target'[x] = target[x]
        BY <2>1 DEF Quote, RowHasDraw
      <3>2. \A e \in Draw : HasLiveRow(e)' => HasLiveRow(e)
        BY <3>1 DEF HasLiveRow, RowsOf
      <3> QED BY <3>1, <3>2 DEF EditFits, Scheduled
    <2>2. CASE GiveUp(c) \/ SendPost(c) \/ RecordUnknown(c)
      BY <1>1, <2>2 DEF GiveUp, SendPost, RecordUnknown
    <2>3. CASE LockDraw(c)
      BY <1>2, <2>3 DEF LockDraw
    <2>4. CASE RecordCreated(c)
      BY <1>3, <2>4 DEF RecordCreated, Consume, Held
    <2>5. CASE RecordFailure(c)
      BY <1>3, <2>5 DEF RecordFailure, Held
    <2> QED BY <1>8, <2>1, <2>2, <2>3, <2>4, <2>5 DEF Invoice
  <1>9. ASSUME NEW c \in Click, HarvestCreates(c) \/ HarvestRefuses(c) PROVE EditFits'
    BY <1>1, <1>9 DEF HarvestCreates, HarvestRefuses
  <1>10. ASSUME NEW c \in Click, ResolveLink(c) \/ ResolveFailed(c) PROVE EditFits'
    BY <1>3, <1>10 DEF ResolveLink, ResolveFailed, Consume, Live
  <1> QED BY <1>4, <1>5, <1>6, <1>7, <1>8, <1>9, <1>10 DEF Next

\* The protocol of a draw's write: reference, answer, hold, index and history
\* in one invariant, as long as nobody marks a row failed while its POST runs.
THEOREM DrawsInvCorrect == ASSUME OperatorWaits PROVE Spec => []DrawsInv
  <1>1. Init => Held
    BY DEF Init, Held
  <1>2. Inv /\ Held /\ [Next]_vars => Held'
    BY HeldStep DEF Held, vars
  <1>3. Init => EditFits
    BY DEF Init, EditFits
  <1>4. Inv /\ Held /\ EditFits /\ [Next]_vars => EditFits'
    <2> SUFFICES ASSUME Inv, Held, EditFits, [Next]_vars PROVE EditFits'
      OBVIOUS
    <2>1. CASE UNCHANGED vars
      BY <2>1 DEF vars, EditFits, Scheduled, HasLiveRow, RowsOf
    <2> QED BY <2>1, EditFitsStep
  <1>5. Inv /\ Held /\ EditFits => DrawsInv
    BY DEF Inv, DrawsInv
  <1> QED BY <1>1, <1>2, <1>3, <1>4, <1>5, InvInit, InvStep, PTL DEF Spec

\* An invoiced draw is out of reach of every step: its row is live, so edits
\* keep it, the open one included, nobody withdraws it, and no other click can consume it.
LEMMA HistoryStep ==
    ASSUME Inv, EditFits, [Next]_vars, NEW d \in Draw, invoiced[d] # None
    PROVE  /\ invoiced'[d] = invoiced[d]
           /\ terms'[d] = terms[d]
           /\ terms[d] # None
           /\ d \in released <=> d \in released'
  <1> DEFINE Stands == /\ invoiced'[d] = invoiced[d]
                       /\ terms'[d] = terms[d]
                       /\ d \in released <=> d \in released'
  <1> USE DEF Inv, TypeOK, schedule, ledger, harvest, click
  <1>1. PICK w \in Click : /\ invoiced[d] = w /\ target[w] = d
                           /\ row[w] = "created" /\ w \in RowsOf(d)
    BY DEF ConsumedTogether, RowsOf
  <1>2. terms[d] # None
    BY <1>1 DEF RowHasDraw, Scheduled
  <1>3. ASSUME UNCHANGED <<terms, released, invoiced>> PROVE Stands
    BY <1>3
  <1>4. ASSUME NEW c \in Click, Consume(c), SlotFree(c), UNCHANGED <<terms, released>>
        PROVE  Stands
    <2>1. CASE c = w
      BY <1>1, <1>4, <2>1 DEF Consume
    <2>2. CASE c # w
      <3>1. target[c] # d
        BY <1>1, <1>4, <2>2 DEF SlotFree, RowsOf, Live
      <3> QED BY <1>4, <3>1 DEF Consume
    <2> QED BY <2>1, <2>2
  <1>5. ASSUME EditStep PROVE Stands
    <2>1. CASE SaveEdit
      <3>1. PICK submitted \in edit : /\ terms' = submitted
                                     /\ \A e \in Draw : e \in released' <=>
                                          e \in released /\ ~(Scheduled(e) /\ submitted[e] = None)
        BY <2>1 DEF SaveEdit
      <3>2. submitted[d] = terms[d]
        BY <1>2 DEF EditFits, Scheduled
      <3> QED BY <1>2, <2>1, <3>1, <3>2 DEF SaveEdit
    <2>2. CASE ~SaveEdit
      BY <1>3, <1>5, <2>2 DEF EditStep, BeginEdit, DropEdit
    <2> QED BY <2>1, <2>2
  <1>6. ASSUME NEW e \in Draw, Release(e) \/ Withdraw(e) PROVE Stands
    BY <1>6 DEF Release, Withdraw
  <1>7. CASE Deactivate
    BY <1>2, <1>7 DEF Deactivate
  <1>8. ASSUME NEW c \in Click, Invoice(c) PROVE Stands
    <2>1. CASE RecordCreated(c)
      BY <1>4, <2>1 DEF RecordCreated
    <2>2. CASE ~RecordCreated(c)
      BY <1>3, <1>8, <2>2 DEF Invoice, Quote, LockDraw, GiveUp, SendPost, RecordFailure,
         RecordUnknown
    <2> QED BY <2>1, <2>2
  <1>9. ASSUME NEW c \in Click, HarvestCreates(c) \/ HarvestRefuses(c) PROVE Stands
    BY <1>3, <1>9 DEF HarvestCreates, HarvestRefuses
  <1>10. ASSUME NEW c \in Click, ResolveLink(c) PROVE Stands
    <2>1. SlotFree(c)
      BY <1>10 DEF ResolveLink, SlotFree, RowsOf, OneLiveRow, Live
    <2> QED BY <1>4, <1>10, <2>1 DEF ResolveLink
  <1>11. ASSUME NEW c \in Click, ResolveFailed(c) PROVE Stands
    BY <1>3, <1>11 DEF ResolveFailed
  <1>12. CASE UNCHANGED vars
    BY <1>2, <1>12 DEF vars
  <1> QED BY <1>2, <1>5, <1>6, <1>7, <1>8, <1>9, <1>10, <1>11, <1>12 DEF Next, EditStep

\* Billing history stands: no edit, release, late answer or resolution touches a
\* draw that was invoiced, as long as nobody marks a row failed while its POST
\* runs.  (Else an edit finds the row failed, the late answer invoices the draw,
\* and the edit overwrites it.)
THEOREM HistoryStandsCorrect == ASSUME OperatorWaits PROVE Spec => HistoryStands
  <1>1. Inv /\ DrawsInv /\ [Next]_vars => [\A d \in Draw :
                                  invoiced[d] # None =>
                                      /\ invoiced'[d] = invoiced[d]
                                      /\ terms'[d] = terms[d]
                                      /\ terms[d] # None
                                      /\ d \in released <=> d \in released']_vars
    BY HistoryStep DEF DrawsInv
  <1> QED BY <1>1, InvInit, InvStep, DrawsInvCorrect, PTL DEF Spec, HistoryStands

\* A milestone is billed once.
THEOREM OneInvoicePerDrawCorrect ==
    ASSUME OperatorWaits PROVE Spec => []OneInvoicePerDraw
  <1>1. DrawsInv => OneInvoicePerDraw
    BY DEF DrawsInv, Answered, Held, OneLiveRow, OneInvoicePerDraw
  <1> QED BY <1>1, DrawsInvCorrect, PTL

\* No invoice is without a row that says so.
THEOREM InvoiceAccountedCorrect ==
    ASSUME OperatorWaits PROVE Spec => []InvoiceAccounted
  <1>1. DrawsInv => InvoiceAccounted
    BY DEF DrawsInv, Answered, Held, InvoiceAccounted
  <1> QED BY <1>1, DrawsInvCorrect, PTL

(***************************************************************************)
(* Refinement: a draw is a slot.                                           *)
(***************************************************************************)

\* What a slot shows of its one row that may be live.
Face(status) ==
    IF status = "created" THEN "billed" ELSE IF status = "in_flight" THEN "claimed" ELSE "open"

\* A row that changes alone, beside no live row, moves the slot of its draw.
LEMMA SlotMoves ==
    ASSUME TypeOK, NEW c \in Click, target[c] \in Draw, SlotFree(c),
           target' = target, \A x \in Click \ {c} : row'[x] = row[x],
           row[c] \in RowStatus, row'[c] \in RowStatus \ {"none"}
    PROVE  /\ SlotState[target[c]] = Face(row[c])
           /\ SlotState' = [SlotState EXCEPT ![target[c]] = Face(row'[c])]
  <1> USE DEF SlotState, Face, SlotFree, RowsOf, Live, RowStatus
  <1>1. SlotState[target[c]] = Face(row[c])
    OBVIOUS
  <1>2. SlotState'[target[c]] = Face(row'[c])
    OBVIOUS
  <1>3. \A d \in Draw : d # target[c] => SlotState'[d] = SlotState[d]
    OBVIOUS
  <1>4. SlotState' = [d \in Draw |-> SlotState'[d]] /\ SlotState = [d \in Draw |-> SlotState[d]]
    OBVIOUS
  <1> HIDE DEF SlotState, Face
  <1> QED BY <1>1, <1>2, <1>3, <1>4

\* A slot with an invoice is claimed or billed: its row is live, and no other is.
LEMMA InvoicedIsLive ==
    ASSUME TypeOK, DrawsInv, NEW c \in Click, row[c] \in Live,
           target[c] \in SlotInvoiced
    PROVE  post[c] = "accepted"
  BY DEF TypeOK, DrawsInv, Answered, Held, OneLiveRow, SlotInvoiced, RowsOf

\* Each step claims, bills or releases one slot, creates its invoice, or
\* leaves every slot alone.
LEMMA SlotStep ==
    ASSUME TypeOK, DrawsInv, Next
    PROVE  Slots!Next \/ UNCHANGED Slots!vars
  <1> USE DEF TypeOK, schedule, ledger, harvest, click
  <1>1. ASSUME UNCHANGED <<row, target, invoices>> PROVE UNCHANGED Slots!vars
    BY <1>1 DEF Slots!vars, SlotState, SlotInvoiced, RowsOf
  <1>2. ASSUME NEW c \in Click, row[c] \in Live
        PROVE  target[c] \in Draw /\ SlotFree(c)
    BY <1>2 DEF DrawsInv, RowHasDraw, OneLiveRow, SlotFree, RowsOf, Live
  <1>3. ASSUME NEW c \in Click, row[c] # "none", row'[c] # "none",
               \A x \in Click \ {c} : row'[x] = row[x], UNCHANGED <<target, invoices>>
        PROVE  UNCHANGED SlotInvoiced
    BY <1>3 DEF SlotInvoiced, RowsOf
  <1>4. ASSUME NEW c \in Click, row[c] \in Live, invoices[c] > 0, Consume(c),
               UNCHANGED <<target, invoices>>
        PROVE  Slots!Next \/ UNCHANGED Slots!vars
    <2>1. /\ row'[c] = "created" /\ \A x \in Click \ {c} : row'[x] = row[x]
      BY <1>4 DEF Consume
    <2>2. /\ SlotState[target[c]] = Face(row[c])
          /\ SlotState' = [SlotState EXCEPT ![target[c]] = "billed"]
      BY <1>2, <1>4, <2>1, SlotMoves DEF RowStatus, Face
    <2>3. UNCHANGED SlotInvoiced
      BY <1>3, <1>4, <2>1 DEF Live
    <2>4. CASE row[c] = "in_flight"
      <3>1. target[c] \in SlotInvoiced
        BY <1>2, <1>4 DEF SlotInvoiced, RowsOf, Live
      <3>2. Slots!Bill(target[c])
        BY <2>2, <2>3, <2>4, <3>1 DEF Slots!Bill, Face
      <3> QED BY <1>2, <1>4, <3>2 DEF Slots!Next
    <2>5. CASE row[c] = "created"
      <3>1. SlotState' = SlotState
        BY <2>2, <2>5 DEF Face, SlotState
      <3> QED BY <2>3, <3>1 DEF Slots!vars
    <2> QED BY <1>4, <2>4, <2>5 DEF Live
  <1>5. ASSUME NEW c \in Click, row[c] = "in_flight", post[c] # "accepted",
               row' = [row EXCEPT ![c] = "failed"], UNCHANGED <<target, invoices>>
        PROVE  Slots!Next
    <2>1. /\ SlotState[target[c]] = "claimed"
          /\ SlotState' = [SlotState EXCEPT ![target[c]] = "open"]
      BY <1>2, <1>5, SlotMoves DEF RowStatus, Face, Live
    <2>2. UNCHANGED SlotInvoiced
      BY <1>3, <1>5
    <2>3. target[c] \notin SlotInvoiced
      BY <1>5, InvoicedIsLive DEF Live
    <2>4. Slots!Release(target[c])
      BY <2>1, <2>2, <2>3 DEF Slots!Release
    <2> QED BY <1>2, <1>5, <2>4 DEF Slots!Next, Live
  <1>6. ASSUME NEW c \in Click, LockDraw(c) PROVE Slots!Next
    <2>1. /\ target[c] \in Draw /\ row[c] = "none" /\ row'[c] = "in_flight"
          /\ SlotFree(c) /\ UNCHANGED <<target, invoices>>
          /\ \A x \in Click \ {c} : row'[x] = row[x]
      BY <1>6 DEF LockDraw, DrawsInv, RowHasDraw
    <2>2. /\ SlotState[target[c]] = "open"
          /\ SlotState' = [SlotState EXCEPT ![target[c]] = "claimed"]
      BY <2>1, SlotMoves DEF RowStatus, Face
    <2>3. invoices[c] = 0
      BY <1>6 DEF LockDraw, DrawsInv, Answered
    <2>4. UNCHANGED SlotInvoiced
      BY <2>1, <2>3 DEF SlotInvoiced, RowsOf
    <2>5. Slots!Claim(target[c])
      BY <2>2, <2>4 DEF Slots!Claim
    <2> QED BY <2>1, <2>5 DEF Slots!Next
  <1>7. ASSUME NEW c \in Click, HarvestCreates(c) PROVE Slots!Next
    <2>1. row[c] = "in_flight" /\ UNCHANGED <<row, target>>
      BY <1>7 DEF HarvestCreates, DrawsInv, Held
    <2>2. /\ invoices'[c] > 0 /\ \A x \in Click \ {c} : invoices'[x] = invoices[x]
      BY <1>7 DEF HarvestCreates
    <2>3. target[c] \notin SlotInvoiced
      BY <1>7, <2>1, InvoicedIsLive DEF HarvestCreates, Live
    <2>4. SlotState[target[c]] = "claimed" /\ UNCHANGED SlotState
      BY <1>2, <2>1 DEF SlotState, RowsOf, Live, SlotFree
    <2>5. SlotInvoiced' = SlotInvoiced \cup {target[c]}
      BY <1>2, <2>1, <2>2, <2>3 DEF SlotInvoiced, RowsOf, Live
    <2>6. Slots!Create(target[c])
      BY <2>3, <2>4, <2>5 DEF Slots!Create
    <2> QED BY <1>2, <2>1, <2>6 DEF Slots!Next, Live
  <1>8. ASSUME NEW c \in Click, NEW d \in Draw, Quote(c, d) PROVE UNCHANGED Slots!vars
    <2>1. /\ row[c] = "none" /\ UNCHANGED <<row, invoices>>
          /\ \A x \in Click \ {c} : target'[x] = target[x]
      BY <1>8 DEF Quote, DrawsInv, RowHasDraw
    <2>2. \A h \in Draw : RowsOf(h)' = RowsOf(h)
      BY <2>1 DEF RowsOf
    <2> QED BY <2>1, <2>2 DEF Slots!vars, SlotState, SlotInvoiced
  <1>9. ASSUME EditStep PROVE UNCHANGED Slots!vars
    BY <1>1, <1>9 DEF EditStep, BeginEdit, SaveEdit, DropEdit
  <1>10. ASSUME NEW d \in Draw, Release(d) \/ Withdraw(d) PROVE UNCHANGED Slots!vars
    BY <1>1, <1>10 DEF Release, Withdraw
  <1>11. ASSUME Deactivate PROVE UNCHANGED Slots!vars
    BY <1>1, <1>11 DEF Deactivate
  <1>12. ASSUME NEW c \in Click,
                GiveUp(c) \/ SendPost(c) \/ RecordUnknown(c) \/ HarvestRefuses(c)
         PROVE  UNCHANGED Slots!vars
    BY <1>1, <1>12 DEF GiveUp, SendPost, RecordUnknown, HarvestRefuses
  <1>13. ASSUME NEW c \in Click, RecordCreated(c) \/ ResolveLink(c)
         PROVE  Slots!Next \/ UNCHANGED Slots!vars
    <2>1. /\ row[c] \in Live /\ invoices[c] > 0 /\ Consume(c)
          /\ UNCHANGED <<target, invoices>>
      BY <1>13 DEF RecordCreated, ResolveLink, DrawsInv, Held, Answered, Live
    <2> QED BY <1>4, <2>1
  <1>14. ASSUME NEW c \in Click, RecordFailure(c) \/ ResolveFailed(c) PROVE Slots!Next
    <2>1. row[c] = "in_flight" /\ post[c] # "accepted"
      BY <1>14 DEF RecordFailure, ResolveFailed, DrawsInv, Held, Answered, Live
    <2> QED BY <1>5, <1>14, <2>1 DEF RecordFailure, ResolveFailed
  <1> QED BY <1>6, <1>7, <1>8, <1>9, <1>10, <1>11, <1>12, <1>13, <1>14 DEF Next, EditStep, Invoice

\* Schedule, ledger, clicks and Harvest together implement the abstract slot,
\* as long as nobody marks a row failed while its POST runs.
THEOREM RefinesSlotsCorrect == ASSUME OperatorWaits PROVE Spec => RefinesSlots
  <1>1. Init => Slots!Init
    BY DEF Init, Slots!Init, SlotState, SlotInvoiced, RowsOf
  <1>2. TypeOK /\ DrawsInv /\ [Next]_vars => [Slots!Next]_(Slots!vars)
    <2> SUFFICES ASSUME TypeOK, DrawsInv, [Next]_vars PROVE [Slots!Next]_(Slots!vars)
      OBVIOUS
    <2>1. CASE UNCHANGED vars
      BY <2>1 DEF vars, Slots!vars, SlotState, SlotInvoiced, RowsOf
    <2>2. CASE Next
      BY <2>2, SlotStep
    <2> QED BY <2>1, <2>2
  <1> QED BY <1>1, <1>2, TypeCorrect, DrawsInvCorrect, PTL DEF Spec, RefinesSlots, Slots!Spec
=============================================================================
