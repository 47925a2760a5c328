---------------------------- MODULE BillingRunProof ----------------------------
(***************************************************************************)
(* Proofs about the monthly billing run, for every number of runs, groups, *)
(* months and clicks.                                                      *)
(***************************************************************************)
EXTENDS BillingRunProps, TLAPS

\* settle_run_status only ever stores a status of the enum.
LEMMA SettleStatusType ==
    ASSUME NEW row PROVE SettleStatus(row) \in RunStatus
  BY DEF SettleStatus, RunStatus

\* A re-plan leaves every other run with statuses of the two enums.
LEMMA SweepType ==
    ASSUME TypeOK, NEW x \in Run, NEW m \in Month
    PROVE  /\ Swept(x, m) \in [Group -> ItemStatus \cup {"none"}]
           /\ SweptStatus(x, m) \in RunStatus \cup {"none"}
  <1>1. Swept(x, m) \in [Group -> ItemStatus \cup {"none"}]
    BY DEF TypeOK, Swept, ItemStatus
  <1>2. SweptStatus(x, m) \in RunStatus \cup {"none"}
    BY SettleStatusType DEF TypeOK, SweptStatus, RunStatus
  <1> QED BY <1>1, <1>2

\* The invariant that carries the type: TypeOK alone is not inductive, since
\* a worker writes to the run and the row its local variables name.
TypeInv == TypeOK /\ WorkerTyped

\* Before anything is planned, every variable has its type.
LEMMA TypeInit == Init => TypeInv
  BY BillingAssumption DEF Init, TypeInv, TypeOK, WorkerTyped, RunStatus,
     ItemStatus, PostState, WorkerState, Desk

\* Planning writes statuses and flags of the enums.
LEMMA TypePlan ==
    ASSUME TypeInv, NEW r \in Run, NEW m \in Month,
           NEW found \in [Group -> Finding], Plan(r, m, found)
    PROVE  TypeInv'
  <1> USE DEF TypeInv
  <1>1. runStatus' \in [Run -> RunStatus \cup {"none"}]
    BY SweepType DEF Plan, RunStatus
  <1>2. runMonth' \in [Run -> Month \cup {None}]
    BY DEF Plan, TypeOK
  <1>3. item' \in [Run -> [Group -> ItemStatus \cup {"none"}]]
    BY SweepType DEF Plan, PlannedRow, ItemStatus
  <1>4. flag' \in [Run -> [Group -> {"none", "error", "blocking"}]]
    BY DEF Plan, TypeOK, PlannedFlag
  <1>5. undecided' \in [Run -> SUBSET Group]
    BY BillingAssumption DEF Plan, TypeOK
  <1> QED
    BY <1>1, <1>2, <1>3, <1>4, <1>5 DEF Plan, TypeOK, WorkerTyped, harvest, worker, open

\* The calls about a run as a whole.
RunReview(r) ==
    \/ ApproveAll(r) \/ ClearApprovals(r)
    \/ AbandonCheck(r) \/ AbandonWrite(r)
    \/ CloseCheck(r) \/ CloseCount(r) \/ CloseWrite(r)

\* The calls about one row, except settling it by hand.
ReviewOpen(r, g) ==
    \/ \E approve, over \in BOOLEAN : SetItemApproval(r, g, approve, over)
    \/ RejectItem(r, g)
    \/ UnrejectItem(r, g)
    \/ SetResolution(r, g)
    \/ ClearResolution(r, g)

\* Settling a row by hand, up to the count.
Resolves(r, g) == ResolveLink(r, g) \/ ResolveFailed(r, g)

\* Every call about one row is of one of three kinds.
LEMMA ReviewKinds ==
    ASSUME NEW r \in Run, NEW g \in Group, Review(r, g)
    PROVE  ReviewOpen(r, g) \/ Resolves(r, g) \/ ResolveWrite(r, g)
  BY DEF Review, ReviewOpen, Resolves

\* Review, closing and resolution touch the ledger and its transactions alone.
LEMMA TypeReview ==
    ASSUME TypeInv, NEW r \in Run, RunReview(r) \/ \E g \in Group : Review(r, g)
    PROVE  TypeInv'
  <1> USE DEF TypeInv, TypeOK, WorkerTyped, ledger, harvest, worker, open, RunStatus, ItemStatus,
              Desk
  <1>1. CASE AbandonCheck(r) \/ CloseCheck(r)
    <2>1. desk' \in [Run -> Desk]
      BY <1>1 DEF AbandonCheck, CloseCheck
    <2>2. UNCHANGED <<ledger, harvest, worker, closing, resolving>>
      BY <1>1 DEF AbandonCheck, CloseCheck
    <2> QED BY <2>1, <2>2
  <1>2. CASE AbandonWrite(r)
    BY <1>2 DEF AbandonWrite
  <1>3. CASE ApproveAll(r)
    BY <1>3 DEF ApproveAll
  <1>4. CASE ClearApprovals(r)
    BY <1>4 DEF ClearApprovals
  <1>5. CASE CloseCount(r)
    BY <1>5, SettleStatusType DEF CloseCount
  <1>6. CASE CloseWrite(r)
    BY <1>6 DEF CloseWrite
  <1>7. ASSUME NEW g \in Group, ReviewOpen(r, g) PROVE TypeInv'
    <2>1. ASSUME NEW approve \in BOOLEAN, NEW over \in BOOLEAN,
                 SetItemApproval(r, g, approve, over)
          PROVE  TypeInv'
      BY <2>1 DEF SetItemApproval
    <2>2. CASE RejectItem(r, g)
      BY <2>2 DEF RejectItem
    <2>3. CASE UnrejectItem(r, g)
      BY <2>3 DEF UnrejectItem
    <2>4. CASE SetResolution(r, g)
      BY <2>4 DEF SetResolution
    <2>5. CASE ClearResolution(r, g)
      BY <2>5 DEF ClearResolution
    <2> QED BY <1>7, <2>1, <2>2, <2>3, <2>4, <2>5 DEF ReviewOpen
  <1>8. ASSUME NEW g \in Group, NEW outcome \in {"created", "failed"}, Resolve(r, g, outcome)
        PROVE  TypeInv'
    <2>1. [row |-> outcome, run |-> SettleStatus([item[r] EXCEPT ![g] = outcome])]
             \in Resolution
      BY <1>8, SettleStatusType DEF Resolution
    <2>2. resolving' \in [Run -> [Group -> Resolution \cup {None}]]
      BY <1>8, <2>1 DEF Resolve
    <2> QED BY <1>8, <2>2 DEF Resolve
  <1>9. ASSUME NEW g \in Group, ResolveWrite(r, g) PROVE TypeInv'
    <2>1. resolving[r][g].row \in ItemStatus /\ resolving[r][g].run \in RunStatus
      BY <1>9 DEF ResolveWrite, Resolution
    <2> QED BY <1>9, <2>1 DEF ResolveWrite
  <1> QED
    BY <1>1, <1>2, <1>3, <1>4, <1>5, <1>6, <1>7, <1>8, <1>9, ReviewKinds DEF RunReview, Resolves,
       ResolveLink, ResolveFailed

\* The steps of a click, and the steps of Harvest it waits for.
LEMMA TypeExecute ==
    ASSUME TypeInv,
           \/ \E w \in Worker : Execute(w) \/ Die(w) \/ \E r \in Run : Start(w, r)
           \/ \E r \in Run, g \in Group : HarvestCreates(r, g) \/ HarvestRefuses(r, g)
    PROVE  TypeInv'
  <1> USE DEF TypeInv, TypeOK, WorkerTyped, ledger, harvest, worker, open, WorkerState
  <1>1. ASSUME NEW w \in Worker, Execute(w) PROVE TypeInv'
    <2>1. ASSUME NEW g \in Group, TakeLock(w, g) PROVE TypeInv'
      BY <2>1 DEF TakeLock, ItemStatus
    <2>2. ASSUME NEW g \in Group, SkipItem(w, g) PROVE TypeInv'
      BY <2>2 DEF SkipItem
    <2>3. CASE SendPost(w)
      BY <2>3 DEF SendPost, PostState
    <2>4. CASE RecordCreated(w)
      BY <2>4 DEF RecordCreated, NextItem, ItemStatus
    <2>5. CASE RecordCreatedRaises(w)
      BY <2>5 DEF RecordCreatedRaises, Leave
    <2>6. CASE RecordFailure(w)
      BY <2>6 DEF RecordFailure, NextItem, ItemStatus
    <2>7. CASE RecordUnknown(w)
      BY <2>7 DEF RecordUnknown, NextItem
    <2>8. CASE FinalizeCount(w)
      BY <2>8, SettleStatusType DEF FinalizeCount
    <2>9. CASE FinalizeWrite(w)
      BY <2>9 DEF FinalizeWrite, Leave
    <2> QED BY <1>1, <2>1, <2>2, <2>3, <2>4, <2>5, <2>6, <2>7, <2>8, <2>9 DEF Execute
  <1>2. ASSUME NEW w \in Worker, Die(w) PROVE TypeInv'
    BY <1>2 DEF Die, Leave
  <1>3. ASSUME NEW w \in Worker, NEW r \in Run, Start(w, r) PROVE TypeInv'
    BY <1>3 DEF Start, RunStatus
  <1>4. ASSUME NEW r \in Run, NEW g \in Group, HarvestCreates(r, g) PROVE TypeInv'
    BY <1>4 DEF HarvestCreates, PostState
  <1>5. ASSUME NEW r \in Run, NEW g \in Group, HarvestRefuses(r, g) PROVE TypeInv'
    BY <1>5 DEF HarvestRefuses, PostState
  <1> QED BY <1>1, <1>2, <1>3, <1>4, <1>5

\* The type invariant is inductive.
LEMMA TypeStep == TypeInv /\ [Next]_vars => TypeInv'
  <1> SUFFICES ASSUME TypeInv, [Next]_vars PROVE TypeInv'
    OBVIOUS
  <1>1. CASE UNCHANGED vars
    BY <1>1 DEF vars, TypeInv, TypeOK, WorkerTyped
  <1>2. CASE Next
    BY <1>2, TypePlan, TypeReview, TypeExecute DEF Next, RunReview
  <1> QED BY <1>1, <1>2

\* Every variable keeps to its column of the schema or its place in the
\* protocol, under every interleaving of planning, review, clicks and Harvest.
THEOREM TypeCorrect == Spec => []TypeOK
  <1>1. TypeInv => TypeOK
    BY DEF TypeInv
  <1> QED BY <1>1, TypeInit, TypeStep, PTL DEF Spec

(***************************************************************************)
(* The locks of the open transactions.                                     *)
(***************************************************************************)

\* What every proof below may assume of runs, clicks and transactions.
Base == TypeInv /\ NoRunNoRow /\ ClickOnRun /\ LocksHold

\* It holds before the first plan.
LEMMA BaseInit == Init => Base
  BY TypeInit DEF Base, Init, NoRunNoRow, ClickOnRun, LocksHold

\* A step that writes to one run, which is planned afterwards.
WritesRun(r) ==
    /\ runStatus'[r] # "none"
    /\ \A x \in Run \ {r} : runStatus'[x] = runStatus[x] /\ item'[x] = item[x]

\* A run gets its rows when it is planned, and no step makes it unplanned.
RunsStay ==
    /\ NoRunNoRow'
    /\ \A x \in Run : runStatus[x] # "none" => runStatus'[x] # "none"

\* Writing to a planned run is of this kind.
LEMMA WritesRunStays ==
    ASSUME NoRunNoRow, NEW r \in Run, WritesRun(r)
    PROVE  RunsStay
  BY DEF NoRunNoRow, WritesRun, RunsStay

\* So is every step.
LEMMA RunsStayStep ==
    ASSUME Base, Next PROVE RunsStay
  <1> USE DEF Base, TypeInv, TypeOK, WorkerTyped
  <1>1. ASSUME UNCHANGED <<runStatus, item>> PROVE RunsStay
    BY <1>1 DEF RunsStay, NoRunNoRow
  <1>2. ASSUME NEW r \in Run, NEW m \in Month, NEW found \in [Group -> Finding],
               Plan(r, m, found)
        PROVE  RunsStay
    BY <1>2 DEF Plan, SweptStatus, Swept, SettleStatus, ReviewableItem, NoRunNoRow, RunsStay
  <1>3. ASSUME NEW r \in Run, RunReview(r) PROVE RunsStay
    <2>1. CASE AbandonCheck(r) \/ CloseCheck(r) \/ CloseCount(r)
      BY <1>1, <2>1 DEF AbandonCheck, CloseCheck, CloseCount, ledger
    <2>2. CASE AbandonWrite(r)
      BY <2>2, WritesRunStays DEF AbandonWrite, WritesRun
    <2>3. CASE ApproveAll(r)
      BY <2>3, WritesRunStays DEF ApproveAll, WritesRun, ReviewableRun
    <2>4. CASE ClearApprovals(r)
      BY <2>4, WritesRunStays DEF ClearApprovals, WritesRun, ReviewableRun
    <2>5. CASE CloseWrite(r)
      BY <2>5, WritesRunStays DEF CloseWrite, WritesRun, RunStatus
    <2> QED BY <1>3, <2>1, <2>2, <2>3, <2>4, <2>5 DEF RunReview
  <1>4. ASSUME NEW r \in Run, NEW g \in Group, ReviewOpen(r, g) PROVE RunsStay
    <2>1. ASSUME NEW approve \in BOOLEAN, NEW over \in BOOLEAN,
                 SetItemApproval(r, g, approve, over)
          PROVE  WritesRun(r)
      BY <2>1 DEF SetItemApproval, SeenIn, ReviewableRun, WritesRun
    <2>2. ASSUME RejectItem(r, g) PROVE WritesRun(r)
      BY <2>2 DEF RejectItem, SeenIn, RejectableRun, WritesRun
    <2>3. ASSUME UnrejectItem(r, g) PROVE WritesRun(r)
      BY <2>3 DEF UnrejectItem, SeenIn, RejectableRun, WritesRun
    <2>4. ASSUME SetResolution(r, g) \/ ClearResolution(r, g) PROVE WritesRun(r)
      BY <2>4 DEF SetResolution, ClearResolution, PlaceholderEditable, SeenIn, ReviewableRun,
         WritesRun
    <2> QED BY <1>4, <2>1, <2>2, <2>3, <2>4, WritesRunStays DEF ReviewOpen
  <1>5. ASSUME NEW r \in Run, NEW g \in Group, Resolves(r, g) PROVE RunsStay
    BY <1>1, <1>5 DEF Resolves, ResolveLink, ResolveFailed, Resolve, ledger
  <1>6. ASSUME NEW r \in Run, NEW g \in Group, ResolveWrite(r, g) PROVE RunsStay
    <2>1. resolving[r][g].run \in RunStatus
      BY <1>6 DEF ResolveWrite, Resolution
    <2> QED BY <1>6, <2>1, WritesRunStays DEF ResolveWrite, RunStatus, WritesRun
  <1>7. ASSUME NEW r \in Run, NEW g \in Group, HarvestCreates(r, g) \/ HarvestRefuses(r, g)
        PROVE  RunsStay
    BY <1>1, <1>7 DEF HarvestCreates, HarvestRefuses, ledger
  <1>8. ASSUME NEW w \in Worker, NEW r \in Run, Start(w, r) PROVE RunsStay
    BY <1>8, WritesRunStays DEF Start, WritesRun
  <1>9. ASSUME NEW w \in Worker, Execute(w) \/ Die(w) PROVE RunsStay
    <2>1. CASE \/ \E g \in Group : TakeLock(w, g)
               \/ RecordCreated(w) \/ RecordFailure(w) \/ FinalizeWrite(w)
      <3>1. pc[w] # "idle"
        BY <2>1 DEF TakeLock, RecordCreated, RecordFailure, FinalizeWrite
      <3>2. PICK r \in Run : r = at[w]
        BY <3>1
      <3>3. runStatus[r] # "none"
        BY <3>1, <3>2 DEF ClickOnRun
      <3>4. WritesRun(r)
        BY <2>1, <3>2, <3>3 DEF TakeLock, RecordCreated, RecordFailure, FinalizeWrite, RunStatus,
           WritesRun
      <3> QED BY <3>4, WritesRunStays
    <2>2. CASE \/ \E g \in Group : SkipItem(w, g)
               \/ SendPost(w) \/ RecordCreatedRaises(w) \/ RecordUnknown(w)
               \/ FinalizeCount(w) \/ Die(w)
      BY <1>1, <2>2 DEF SkipItem, SendPost, RecordCreatedRaises, RecordUnknown,
         FinalizeCount, Die, ledger
    <2> QED BY <1>9, <2>1, <2>2 DEF Execute
  <1> QED
    BY <1>2, <1>3, <1>4, <1>5, <1>6, <1>7, <1>8, <1>9, ReviewKinds DEF Next, RunReview

\* A click stays on its run until it ends.
LEMMA ClickOnRunStep ==
    ASSUME Base, Next PROVE ClickOnRun'
  <1> USE DEF Base, TypeInv, TypeOK, WorkerTyped
  <1>1. \A x \in Run : runStatus[x] # "none" => runStatus'[x] # "none"
    BY RunsStayStep DEF RunsStay
  <1>2. ASSUME \A v \in Worker : pc'[v] # "idle" =>
                  \/ pc[v] # "idle" /\ at'[v] = at[v]
                  \/ runStatus'[at'[v]] = "executing"
        PROVE  ClickOnRun'
    BY <1>1, <1>2 DEF ClickOnRun
  <1>3. ASSUME UNCHANGED worker PROVE ClickOnRun'
    BY <1>2, <1>3 DEF worker
  <1>4. ASSUME NEW w \in Worker, NEW r \in Run, Start(w, r) PROVE ClickOnRun'
    BY <1>2, <1>4 DEF Start
  <1>5. ASSUME NEW w \in Worker, Execute(w) \/ Die(w) PROVE ClickOnRun'
    <2>1. pc[w] # "idle"
      BY <1>5 DEF Execute, TakeLock, SkipItem, SendPost, RecordCreated, RecordCreatedRaises,
         RecordFailure, RecordUnknown, FinalizeCount, FinalizeWrite, Die
    <2>2. CASE at' = at
      <3>1. \A v \in Worker \ {w} : pc'[v] = pc[v]
        BY <1>5 DEF Execute, TakeLock, SkipItem, SendPost, RecordCreated, RecordCreatedRaises,
           RecordFailure, RecordUnknown, FinalizeCount, FinalizeWrite, Die, NextItem, Leave
      <3> QED BY <1>2, <2>1, <2>2, <3>1
    <2>3. CASE Leave(w)
      BY <1>2, <2>3 DEF Leave
    <2>4. at' = at \/ Leave(w)
      BY <1>5 DEF Execute, TakeLock, SkipItem, SendPost, RecordCreated, RecordCreatedRaises,
         RecordFailure, RecordUnknown, FinalizeCount, FinalizeWrite, Die, NextItem
    <2> QED BY <2>2, <2>3, <2>4
  <1>6. ASSUME NEW r \in Run, RunReview(r) PROVE ClickOnRun'
    BY <1>3, <1>6 DEF RunReview, ApproveAll, ClearApprovals, AbandonCheck, AbandonWrite,
       CloseCheck, CloseCount, CloseWrite
  <1>7. ASSUME NEW r \in Run, NEW g \in Group, Review(r, g) PROVE ClickOnRun'
    BY <1>3, <1>7, ReviewKinds DEF ReviewOpen, SetItemApproval, RejectItem, UnrejectItem,
       SetResolution, ClearResolution, Resolves, ResolveLink, ResolveFailed, Resolve,
       ResolveWrite
  <1>8. ASSUME \/ \E r \in Run, m \in Month, found \in [Group -> Finding] : Plan(r, m, found)
               \/ \E r \in Run, g \in Group : HarvestCreates(r, g) \/ HarvestRefuses(r, g)
        PROVE  ClickOnRun'
    BY <1>3, <1>8 DEF Plan, HarvestCreates, HarvestRefuses
  <1> QED BY <1>4, <1>5, <1>6, <1>7, <1>8 DEF Next, RunReview

\* A step that leaves the transactions and the rows they have locked alone
\* keeps what the locks keep.
LEMMA LocksKept ==
    ASSUME TypeInv, LocksHold, UNCHANGED open,
           \A x \in Run, h \in Group : Locked(x, h) => item'[x][h] = item[x][h]
    PROVE  LocksHold'
  BY DEF TypeInv, TypeOK, LocksHold, Locked, open

\* Calls about a run as a whole wait for its lock, or hold it.
LEMMA LocksRunReview ==
    ASSUME Base, NEW r \in Run, RunReview(r)
    PROVE  LocksHold'
  <1> USE DEF Base, TypeInv, TypeOK
  <1>1. CASE AbandonCheck(r) \/ CloseCheck(r)
    <2>1. desk[r] = "free" /\ UNCHANGED <<item, closing, resolving>>
      BY <1>1 DEF AbandonCheck, CloseCheck, ledger
    <2>2. closing[r] = {}
      BY <2>1 DEF LocksHold, RunStatus
    <2>3. \A x \in Run \ {r} : desk'[x] = desk[x]
      BY <1>1 DEF AbandonCheck, CloseCheck
    <2> QED BY <2>1, <2>2, <2>3 DEF LocksHold
  <1>2. CASE AbandonWrite(r)
    <2>1. closing[r] = {}
      BY <1>2 DEF AbandonWrite, LocksHold, RunStatus
    <2> QED BY <1>2, <2>1 DEF AbandonWrite, LocksHold, ReviewableItem
  <1>3. CASE ApproveAll(r) \/ ClearApprovals(r)
    <2>1. closing[r] = {}
      BY <1>3 DEF ApproveAll, ClearApprovals, LocksHold, RunStatus
    <2>2. \A h \in Group : Locked(r, h) => item[r][h] = "in_flight"
      BY <2>1 DEF Locked, LocksHold
    <2>3. ASSUME NEW x \in Run, NEW h \in Group, Locked(x, h) PROVE item'[x][h] = item[x][h]
      <3>1. CASE x = r
        <4>1. item[r][h] = "in_flight"
          BY <2>2, <2>3, <3>1
        <4> QED BY <1>3, <3>1, <4>1 DEF ApproveAll, ClearApprovals
      <3>2. CASE x # r
        BY <1>3, <3>2 DEF ApproveAll, ClearApprovals
      <3> QED BY <3>1, <3>2
    <2>4. UNCHANGED open
      BY <1>3 DEF ApproveAll, ClearApprovals
    <2> QED BY <2>3, <2>4, LocksKept
  <1>4. CASE CloseCount(r)
    <2>1. \A g \in closing'[r] : item[r][g] \in ReviewableItem
      BY <1>4 DEF CloseCount
    <2>2. desk'[r] \in RunStatus
      BY <1>4, SettleStatusType DEF CloseCount
    <2>3. /\ \A x \in Run \ {r} : desk'[x] = desk[x] /\ closing'[x] = closing[x]
          /\ UNCHANGED <<item, resolving>>
      BY <1>4 DEF CloseCount, ledger
    <2> QED BY <2>1, <2>2, <2>3 DEF LocksHold
  <1>5. CASE CloseWrite(r)
    <2>1. \A g \in Group : item[r][g] = "in_flight" => item'[r][g] = "in_flight"
      BY <1>5 DEF CloseWrite, LocksHold, ReviewableItem
    <2>2. /\ \A x \in Run \ {r} :
               desk'[x] = desk[x] /\ closing'[x] = closing[x] /\ item'[x] = item[x]
          /\ resolving' = resolving /\ closing'[r] = {}
      BY <1>5 DEF CloseWrite
    <2>3. ASSUME NEW x \in Run, NEW g \in Group, resolving'[x][g] # None
          PROVE  item'[x][g] = "in_flight"
      <3>1. item[x][g] = "in_flight"
        BY <2>2, <2>3 DEF LocksHold
      <3> QED BY <2>1, <2>2, <3>1
    <2>4. \A x \in Run : /\ \A g \in closing'[x] : item'[x][g] \in ReviewableItem
                         /\ closing'[x] # {} => desk'[x] \in RunStatus
      BY <2>2 DEF LocksHold
    <2> QED BY <2>3, <2>4 DEF LocksHold
  <1> QED BY <1>1, <1>2, <1>3, <1>4, <1>5 DEF RunReview

\* So do the calls about one row.
LEMMA LocksReview ==
    ASSUME Base, NEW r \in Run, NEW g \in Group, Review(r, g)
    PROVE  LocksHold'
  <1> USE DEF Base, TypeInv, TypeOK
  <1>1. CASE ReviewOpen(r, g)
    <2>1. ~Locked(r, g)
      BY <1>1 DEF ReviewOpen, SetItemApproval, RejectItem, UnrejectItem, SetResolution,
         ClearResolution, PlaceholderEditable, Locked, LocksHold, ReviewableItem
    <2>2. \E status : item' = [item EXCEPT ![r][g] = status]
      BY <1>1 DEF ReviewOpen, SetItemApproval, RejectItem, UnrejectItem, SetResolution,
         ClearResolution
    <2>3. UNCHANGED open
      BY <1>1 DEF ReviewOpen, SetItemApproval, RejectItem, UnrejectItem, SetResolution,
         ClearResolution
    <2>4. \A x \in Run, h \in Group : Locked(x, h) => item'[x][h] = item[x][h]
      BY <2>1, <2>2
    <2> QED BY <2>3, <2>4, LocksKept
  <1>2. CASE Resolves(r, g)
    <2>1. UNCHANGED <<item, desk, closing>> /\ item[r][g] = "in_flight"
      BY <1>2 DEF Resolves, ResolveLink, ResolveFailed, Resolve, ledger
    <2>2. \A x \in Run, h \in Group : x # r \/ h # g => resolving'[x][h] = resolving[x][h]
      BY <1>2 DEF Resolves, ResolveLink, ResolveFailed, Resolve
    <2>3. ASSUME NEW x \in Run, NEW h \in Group, resolving'[x][h] # None
          PROVE  item'[x][h] = "in_flight"
      <3>1. CASE x = r /\ h = g
        BY <2>1, <3>1
      <3>2. CASE x # r \/ h # g
        <4>1. item[x][h] = "in_flight"
          BY <2>2, <2>3, <3>2 DEF LocksHold
        <4> QED BY <2>1, <4>1
      <3> QED BY <3>1, <3>2
    <2>4. \A x \in Run : /\ \A h \in closing'[x] : item'[x][h] \in ReviewableItem
                         /\ closing'[x] # {} => desk'[x] \in RunStatus
      BY <2>1 DEF LocksHold
    <2> QED BY <2>3, <2>4 DEF LocksHold
  <1>3. CASE ResolveWrite(r, g)
    <2>1. item[r][g] = "in_flight"
      BY <1>3 DEF ResolveWrite, LocksHold
    <2>2. /\ \A x \in Run, h \in Group : x # r \/ h # g =>
               resolving'[x][h] = resolving[x][h] /\ item'[x][h] = item[x][h]
          /\ resolving'[r][g] = None /\ UNCHANGED <<desk, closing>>
      BY <1>3 DEF ResolveWrite
    <2>3. g \notin closing[r]
      BY <2>1 DEF LocksHold, ReviewableItem
    <2>4. ASSUME NEW x \in Run, NEW h \in Group, resolving'[x][h] # None
          PROVE  item'[x][h] = "in_flight"
      <3>1. x # r \/ h # g
        BY <2>2, <2>4
      <3>2. item[x][h] = "in_flight"
        BY <2>2, <2>4, <3>1 DEF LocksHold
      <3> QED BY <2>2, <3>1, <3>2
    <2>5. ASSUME NEW x \in Run, NEW h \in closing'[x] PROVE item'[x][h] \in ReviewableItem
      <3>1. h \in closing[x] /\ h \in Group /\ item[x][h] \in ReviewableItem
        BY <2>2, <2>5 DEF LocksHold
      <3>2. x # r \/ h # g
        BY <2>3, <3>1
      <3> QED BY <2>2, <3>1, <3>2
    <2>6. \A x \in Run : closing'[x] # {} => desk'[x] \in RunStatus
      BY <2>2 DEF LocksHold
    <2> QED BY <2>4, <2>5, <2>6 DEF LocksHold
  <1> QED BY <1>1, <1>2, <1>3, ReviewKinds

\* So do planning and clicks: nobody writes a row that is locked.
LEMMA LocksStep ==
    ASSUME Base, Next PROVE LocksHold'
  <1> USE DEF Base, TypeInv, TypeOK, WorkerTyped
  <1>1. ASSUME UNCHANGED open, item' = item PROVE LocksHold'
    BY <1>1, LocksKept
  <1>2. ASSUME NEW r \in Run, NEW m \in Month, NEW found \in [Group -> Finding],
               Plan(r, m, found)
        PROVE  LocksHold'
    <2>1. ASSUME NEW x \in Run, NEW h \in Group, Locked(x, h) PROVE item'[x][h] = item[x][h]
      <3>1. item[x][h] \in {"in_flight"} \cup ReviewableItem
        BY <2>1 DEF Locked, LocksHold
      <3>2. x # r
        BY <1>2, <3>1 DEF Plan, NoRunNoRow, ReviewableItem
      <3>3. CASE item[x][h] = "in_flight"
        BY <1>2, <3>2, <3>3 DEF Plan, Swept, ReviewableItem
      <3>4. CASE h \in closing[x]
        <4>1. desk[x] # "free"
          BY <3>4 DEF LocksHold, RunStatus
        <4>2. Swept(x, m) = item[x]
          BY <1>2, <4>1 DEF Plan
        <4> QED BY <1>2, <3>2, <4>2 DEF Plan
      <3> QED BY <2>1, <3>3, <3>4 DEF Locked, LocksHold
    <2> QED BY <1>2, <2>1, LocksKept DEF Plan
  <1>3. ASSUME NEW r \in Run, NEW g \in Group, HarvestCreates(r, g) \/ HarvestRefuses(r, g)
        PROVE  LocksHold'
    BY <1>1, <1>3 DEF HarvestCreates, HarvestRefuses, ledger
  <1>4. ASSUME NEW w \in Worker, NEW r \in Run, Start(w, r) PROVE LocksHold'
    BY <1>1, <1>4 DEF Start
  <1>5. ASSUME NEW w \in Worker, Execute(w) \/ Die(w) PROVE LocksHold'
    <2>1. ASSUME NEW g \in Group, TakeLock(w, g) PROVE LocksHold'
      BY <2>1, LocksKept DEF TakeLock
    <2>2. CASE RecordCreated(w) \/ RecordFailure(w)
      <3>1. PICK r \in Run, g \in Group : r = at[w] /\ g = cur[w]
        BY <2>2 DEF RecordCreated, RecordFailure
      <3>2. ~Locked(r, g) /\ \E status : item' = [item EXCEPT ![r][g] = status]
        BY <2>2, <3>1 DEF RecordCreated, RecordFailure
      <3>3. UNCHANGED open
        BY <2>2 DEF RecordCreated, RecordFailure
      <3>4. \A x \in Run, h \in Group : Locked(x, h) => item'[x][h] = item[x][h]
        BY <3>2
      <3> QED BY <3>3, <3>4, LocksKept
    <2>3. CASE \/ \E g \in Group : SkipItem(w, g)
               \/ SendPost(w) \/ RecordCreatedRaises(w) \/ RecordUnknown(w)
               \/ FinalizeCount(w) \/ FinalizeWrite(w) \/ Die(w)
      BY <1>1, <2>3 DEF SkipItem, SendPost, RecordCreatedRaises, RecordUnknown,
         FinalizeCount, FinalizeWrite, Die, ledger
    <2> QED BY <1>5, <2>1, <2>2, <2>3 DEF Execute
  <1> QED
    BY <1>2, <1>3, <1>4, <1>5, LocksRunReview, LocksReview DEF Next, RunReview

\* Runs, clicks and transactions stay what Base says.
LEMMA BaseStep == Base /\ [Next]_vars => Base'
  <1> SUFFICES ASSUME Base, [Next]_vars PROVE Base'
    OBVIOUS
  <1>1. TypeInv'
    BY TypeStep DEF Base
  <1>2. CASE UNCHANGED vars
    BY <1>1, <1>2 DEF vars, Base, NoRunNoRow, ClickOnRun, LocksHold
  <1>3. CASE Next
    BY <1>1, <1>3, RunsStayStep, ClickOnRunStep, LocksStep DEF Base, RunsStay
  <1> QED BY <1>2, <1>3

(***************************************************************************)
(* One live row per group and month, whatever operators do.                *)
(***************************************************************************)

\* The planner writes a live row only into a slot it has just emptied.
LEMMA SlotPlan ==
    ASSUME TypeInv, OneLiveRow, NEW r \in Run, NEW m \in Month,
           NEW found \in [Group -> Finding], Plan(r, m, found)
    PROVE  OneLiveRow'
  <1> SUFFICES ASSUME NEW x \in Run, NEW y \in Run, NEW g \in Group,
                      x # y, runMonth'[x] = runMonth'[y], item'[x][g] \in Live
               PROVE  item'[y][g] \notin Live
    BY DEF OneLiveRow
  <1> USE DEF TypeInv, TypeOK
  <1>1. ASSUME NEW z \in Run, z # r, item'[z][g] \in Live
        PROVE  /\ item[z][g] = item'[z][g]
               /\ runMonth[z] = runMonth'[z]
               /\ runMonth[z] = m => item[z][g] \in {"in_flight", "created"}
    BY <1>1 DEF Plan, Swept, ReviewableItem, Live, ItemStatus
  <1>2. ASSUME item'[r][g] \in Live, NEW z \in Run, runMonth[z] = m
        PROVE  item[z][g] \notin {"in_flight", "created"}
    BY <1>2 DEF Plan, PlannedRow, UnresolvedInFlight, CreatedThisMonth, Live,
       ItemStatus
  <1>3. runMonth'[r] = m
    BY DEF Plan
  <1> QED BY <1>1, <1>2, <1>3 DEF OneLiveRow

\* No row becomes live in this step.
NoNewLive ==
    /\ runMonth' = runMonth
    /\ \A x \in Run, g \in Group : item'[x][g] \in Live => item[x][g] \in Live

\* The only row that may become live is one whose slot is free.
LiveInFreeSlot(r, g) ==
    /\ runMonth' = runMonth
    /\ SlotFree(r, g)
    /\ \A x \in Run, h \in Group :
          x # r \/ h # g => (item'[x][h] \in Live => item[x][h] \in Live)

\* Under the unique index, a step that makes at most a free slot's row live
\* keeps one live row per group and month.
LEMMA SlotKept ==
    ASSUME OneLiveRow,
           NoNewLive \/ \E r \in Run, g \in Group : LiveInFreeSlot(r, g)
    PROVE  OneLiveRow'
  BY DEF OneLiveRow, SlotFree, NoNewLive, LiveInFreeSlot

\* Review makes no row live, except un-rejecting into a free slot.
LEMMA SlotReview ==
    ASSUME Base, NEW r \in Run, NEW g \in Group, Review(r, g)
    PROVE  NoNewLive \/ LiveInFreeSlot(r, g)
  <1> USE DEF Base, TypeInv, TypeOK, Live, ItemStatus, ReviewableItem, NoNewLive
  <1>1. ASSUME NEW approve \in BOOLEAN, NEW over \in BOOLEAN,
               SetItemApproval(r, g, approve, over)
        PROVE  NoNewLive
    BY <1>1 DEF SetItemApproval
  <1>2. CASE RejectItem(r, g)
    BY <1>2 DEF RejectItem
  <1>3. CASE UnrejectItem(r, g)
    BY <1>3 DEF UnrejectItem, LiveInFreeSlot
  <1>4. CASE SetResolution(r, g)
    BY <1>4 DEF SetResolution, PlaceholderEditable
  <1>5. CASE ClearResolution(r, g)
    BY <1>5 DEF ClearResolution, PlaceholderEditable
  <1>6. CASE Resolves(r, g)
    BY <1>6 DEF Resolves, ResolveLink, ResolveFailed, Resolve, ledger
  <1>7. CASE ResolveWrite(r, g)
    BY <1>7 DEF ResolveWrite, LocksHold
  <1> QED BY <1>1, <1>2, <1>3, <1>4, <1>5, <1>6, <1>7, ReviewKinds DEF ReviewOpen

\* A click makes no row live, except recording an invoice in a free slot.
LEMMA SlotWorker ==
    ASSUME TypeInv, NEW w \in Worker, Execute(w) \/ Die(w) \/ \E r \in Run : Start(w, r)
    PROVE  NoNewLive \/ \E r \in Run, g \in Group : LiveInFreeSlot(r, g)
  <1> USE DEF TypeInv, TypeOK, WorkerTyped, Live, ItemStatus, NoNewLive, ledger
  <1>1. ASSUME NEW g \in Group, TakeLock(w, g) PROVE NoNewLive
    BY <1>1 DEF TakeLock
  <1>2. CASE RecordCreated(w)
    <2>1. at[w] \in Run /\ cur[w] \in Group
      BY <1>2 DEF RecordCreated
    <2>2. LiveInFreeSlot(at[w], cur[w])
      BY <1>2, <2>1 DEF RecordCreated, LiveInFreeSlot
    <2> QED BY <2>1, <2>2
  <1>3. CASE RecordFailure(w)
    BY <1>3 DEF RecordFailure
  <1>4. CASE FinalizeWrite(w)
    BY <1>4 DEF FinalizeWrite
  <1>5. CASE \/ \E g \in Group : SkipItem(w, g)
             \/ SendPost(w) \/ RecordCreatedRaises(w) \/ RecordUnknown(w)
             \/ FinalizeCount(w) \/ Die(w)
    BY <1>5 DEF SkipItem, SendPost, RecordCreatedRaises, RecordUnknown,
       FinalizeCount, Die
  <1>6. CASE \E r \in Run : Start(w, r)
    BY <1>6 DEF Start
  <1> QED BY <1>1, <1>2, <1>3, <1>4, <1>5, <1>6 DEF Execute

\* One live row per group and month survives every step.
LEMMA SlotNext ==
    ASSUME Base, OneLiveRow, Next
    PROVE  OneLiveRow'
  <1>1. ASSUME NEW r \in Run, RunReview(r) PROVE NoNewLive
    <2> USE DEF Base, TypeInv, TypeOK, Live, ItemStatus, ReviewableItem, NoNewLive
    <2>1. CASE AbandonCheck(r) \/ CloseCheck(r) \/ CloseCount(r)
      BY <2>1 DEF AbandonCheck, CloseCheck, CloseCount, ledger
    <2>2. CASE AbandonWrite(r)
      BY <2>2 DEF AbandonWrite
    <2>3. CASE ApproveAll(r)
      BY <2>3 DEF ApproveAll
    <2>4. CASE ClearApprovals(r)
      BY <2>4 DEF ClearApprovals
    <2>5. CASE CloseWrite(r)
      BY <2>5 DEF CloseWrite
    <2> QED BY <1>1, <2>1, <2>2, <2>3, <2>4, <2>5 DEF RunReview
  <1>2. ASSUME NEW r \in Run, NEW g \in Group, HarvestCreates(r, g) \/ HarvestRefuses(r, g)
        PROVE  NoNewLive
    BY <1>2 DEF HarvestCreates, HarvestRefuses, ledger, NoNewLive
  <1>3. TypeInv
    BY DEF Base
  <1> QED
    BY <1>1, <1>2, <1>3, SlotPlan, SlotReview, SlotWorker, SlotKept DEF Next, RunReview

\* However operators and clicks interleave, even when one settles a row whose
\* POST is still running, no group has two live rows in a month.
THEOREM OneLiveRowCorrect == Spec => []OneLiveRow
  <1>1. Init => OneLiveRow
    BY DEF Init, OneLiveRow, Live, ItemStatus
  <1>2. Base /\ OneLiveRow /\ [Next]_vars => OneLiveRow'
    BY SlotNext DEF vars, OneLiveRow
  <1> QED BY <1>1, <1>2, BaseInit, BaseStep, PTL DEF Spec

(***************************************************************************)
(* The write protocol.                                                     *)
(***************************************************************************)

\* Row, POST and click agree.
Agreement == PostMatchesRow /\ WorkerKnows /\ OneHolder

Inv ==
    /\ TypeOK /\ WorkerTyped
    /\ NoRunNoRow /\ ClickOnRun /\ LocksHold
    /\ ResolvedRight
    /\ Agreement

\* Statuses of a row that has not been sent, and was not.
Unsent == {"none", "planned", "approved", "skipped", "abandoned"}

\* A step of planning or review: clicks and Harvest are left alone, and only
\* rows that have not been sent change.
LedgerStep ==
    /\ UNCHANGED <<harvest, worker>>
    /\ \A x \in Run, g \in Group :
          \/ item'[x][g] = item[x][g]
          \/ item[x][g] \in Unsent /\ item'[x][g] \in Unsent

\* Planning and review keep the agreement, since they touch unsent rows only.
LEMMA AgreementLedger ==
    ASSUME Inv, LedgerStep
    PROVE  Agreement'
  <1>1. UNCHANGED <<post, invoices, pc, at, cur>>
    BY DEF LedgerStep, harvest, worker
  <1>2. PostMatchesRow'
    <2> SUFFICES ASSUME NEW r \in Run, NEW g \in Group PROVE RowAgrees(r, g)'
      BY DEF PostMatchesRow
    <2>1. RowAgrees(r, g) /\ post[r][g] \in PostState
      BY DEF Inv, Agreement, TypeOK, PostMatchesRow
    <2>2. \/ item'[r][g] = item[r][g]
          \/ item[r][g] \in Unsent /\ item'[r][g] \in Unsent
      BY DEF LedgerStep
    <2> QED BY <1>1, <2>1, <2>2 DEF RowAgrees, PostState, Unsent
  <1>3. WorkerKnows'
    <2>1. \A w \in Worker : pc[w] \in {"locked", "waiting"} =>
             /\ at[w] \in Run /\ cur[w] \in Group
             /\ item[at[w]][cur[w]] \in {"in_flight", "created"}
      BY DEF Inv, Agreement, WorkerTyped, WorkerKnows, Knows
    <2>2. \A w \in Worker : pc[w] \in {"locked", "waiting"} =>
             item'[at[w]][cur[w]] = item[at[w]][cur[w]]
      BY <2>1 DEF LedgerStep, Unsent
    <2> QED BY <1>1, <2>2 DEF Inv, Agreement, WorkerKnows, Knows
  <1>4. OneHolder'
    BY <1>1 DEF Inv, Agreement, OneHolder, Holds
  <1> QED BY <1>2, <1>3, <1>4 DEF Agreement

\* The planner changes only rows that were never sent.
LEMMA PlanIsLedgerStep ==
    ASSUME Inv, NEW r \in Run, NEW m \in Month,
           NEW found \in [Group -> Finding], Plan(r, m, found)
    PROVE  LedgerStep
  <1>1. \A g \in Group : item[r][g] = "none" /\ item'[r][g] \in {"none", "planned", "skipped"}
    BY DEF Plan, PlannedRow, Inv, NoRunNoRow, TypeOK
  <1>2. \A x \in Run \ {r}, g \in Group :
          \/ item'[x][g] = item[x][g]
          \/ item[x][g] \in ReviewableItem /\ item'[x][g] = "abandoned"
    BY DEF Plan, Swept, Inv, TypeOK
  <1> QED BY <1>1, <1>2 DEF Plan, LedgerStep, Unsent, ReviewableItem

\* So do the operations on a whole run.
LEMMA RunReviewIsLedgerStep ==
    ASSUME Inv, NEW r \in Run, RunReview(r)
    PROVE  LedgerStep
  <1> USE DEF Inv, TypeOK, LedgerStep, Unsent, ReviewableItem
  <1>1. CASE AbandonCheck(r) \/ CloseCheck(r) \/ CloseCount(r)
    BY <1>1 DEF AbandonCheck, CloseCheck, CloseCount, ledger
  <1>2. CASE AbandonWrite(r)
    BY <1>2 DEF AbandonWrite
  <1>3. CASE ApproveAll(r)
    BY <1>3 DEF ApproveAll
  <1>4. CASE ClearApprovals(r)
    BY <1>4 DEF ClearApprovals
  <1>5. CASE CloseWrite(r)
    BY <1>5 DEF CloseWrite, LocksHold
  <1> QED BY <1>1, <1>2, <1>3, <1>4, <1>5 DEF RunReview

\* The only row whose status, POST or invoice may change.
OnlyRow(r, g) ==
    \A x \in Run, h \in Group :
        x # r \/ h # g =>
            /\ item'[x][h] = item[x][h]
            /\ post'[x][h] = post[x][h]
            /\ invoices'[x][h] = invoices[x][h]

\* A worker this step does not move.
Stays(w) == pc'[w] = pc[w] /\ at'[w] = at[w] /\ cur'[w] = cur[w]

\* A step on one row keeps the agreement if it keeps it for that row and for
\* whoever holds that row afterwards, and gives nobody another row to hold.
LEMMA AgreementRow ==
    ASSUME Inv, TypeInv', NEW r \in Run, NEW g \in Group,
           OnlyRow(r, g), RowAgrees(r, g)', OneHolder',
           \A v \in Worker : Holds(v, r, g)' => Knows(v)',
           \A v \in Worker : Stays(v) \/ \A x \in Run, h \in Group :
               Holds(v, x, h)' => x = r /\ h = g
    PROVE  Agreement'
  <1>1. PostMatchesRow'
    <2> SUFFICES ASSUME NEW x \in Run, NEW h \in Group PROVE RowAgrees(x, h)'
      BY DEF PostMatchesRow
    <2>1. CASE x = r /\ h = g
      BY <2>1
    <2>2. CASE x # r \/ h # g
      BY <2>2 DEF OnlyRow, Inv, Agreement, PostMatchesRow, RowAgrees
    <2> QED BY <2>1, <2>2
  <1>2. WorkerKnows'
    <2> SUFFICES ASSUME NEW v \in Worker, pc'[v] \in {"locked", "waiting"}
                 PROVE  Knows(v)'
      BY DEF WorkerKnows, Knows
    <2>1. at'[v] \in Run /\ cur'[v] \in Group
      BY DEF TypeInv, WorkerTyped
    <2>2. CASE at'[v] = r /\ cur'[v] = g
      BY <2>2 DEF Holds
    <2>3. CASE at'[v] # r \/ cur'[v] # g
      <3>1. Stays(v)
        BY <2>1, <2>3 DEF Holds
      <3>2. Knows(v)
        BY DEF Inv, Agreement, WorkerKnows
      <3> QED BY <2>1, <2>3, <3>1, <3>2 DEF Stays, OnlyRow, Knows
    <2> QED BY <2>2, <2>3
  <1> QED BY <1>1, <1>2 DEF Agreement

\* A step that changes no row keeps the agreement if whoever it moves ends up
\* holding nothing.
LEMMA AgreementQuiet ==
    ASSUME Inv, TypeInv', UNCHANGED <<item, post, invoices>>, NEW w \in Worker,
           pc'[w] \notin {"locked", "waiting"},
           \A v \in Worker \ {w} : Stays(v)
    PROVE  Agreement'
  <1>1. PostMatchesRow'
    BY DEF Inv, Agreement, PostMatchesRow, RowAgrees
  <1>2. WorkerKnows'
    <2> SUFFICES ASSUME NEW v \in Worker PROVE Knows(v)'
      BY DEF WorkerKnows
    <2>1. CASE v = w
      BY <2>1 DEF Knows
    <2>2. CASE v # w
      BY <2>2 DEF Stays, Inv, Agreement, WorkerKnows, Knows
    <2> QED BY <2>1, <2>2
  <1>3. OneHolder'
    BY DEF OneHolder, Holds, Stays, Inv, Agreement
  <1> QED BY <1>1, <1>2, <1>3 DEF Agreement

\* Review of single rows changes only rows that were never sent.
LEMMA ReviewIsLedgerStep ==
    ASSUME Inv, NEW r \in Run, NEW g \in Group, ReviewOpen(r, g)
    PROVE  LedgerStep
  <1> USE DEF Inv, TypeOK, LedgerStep, Unsent, ReviewableItem
  <1>1. ASSUME NEW approve \in BOOLEAN, NEW over \in BOOLEAN,
               SetItemApproval(r, g, approve, over)
        PROVE  LedgerStep
    BY <1>1 DEF SetItemApproval
  <1>2. CASE RejectItem(r, g)
    BY <1>2 DEF RejectItem
  <1>3. CASE UnrejectItem(r, g)
    BY <1>3 DEF UnrejectItem
  <1>4. CASE SetResolution(r, g)
    BY <1>4 DEF SetResolution, PlaceholderEditable
  <1>5. CASE ClearResolution(r, g)
    BY <1>5 DEF ClearResolution, PlaceholderEditable
  <1> QED BY <1>1, <1>2, <1>3, <1>4, <1>5 DEF ReviewOpen

\* Settling by hand agrees with Harvest: a link finds the invoice, and a
\* failure is declared only when no POST can still create one.
LEMMA AgreementReview ==
    ASSUME Inv, TypeInv', NEW r \in Run, NEW g \in Group, Review(r, g)
    PROVE  Agreement'
  <1>1. CASE ReviewOpen(r, g)
    BY <1>1, ReviewIsLedgerStep, AgreementLedger
  <1>2. CASE Resolves(r, g)
    BY <1>2, AgreementLedger DEF Resolves, ResolveLink, ResolveFailed, Resolve, LedgerStep, ledger
  <1>3. CASE ResolveWrite(r, g)
    <2> DEFINE status == resolving[r][g].row
    <2>1. UNCHANGED <<post, invoices, pc, at, cur>>
      BY <1>3 DEF ResolveWrite, harvest, worker
    <2>2. item[r][g] = "in_flight" /\ item'[r][g] = status /\ OnlyRow(r, g)
      BY <1>3, <2>1 DEF ResolveWrite, OnlyRow, Inv, TypeOK, LocksHold
    <2>3. RowAgrees(r, g) /\ post[r][g] \in PostState
      BY DEF Inv, Agreement, PostMatchesRow, TypeOK
    <2>4. \/ status = "created" /\ invoices[r][g] > 0
          \/ status = "failed" /\ invoices[r][g] = 0 /\ PostSettled(r, g)
      <3>1. status \in {"created", "failed"}
        BY <1>3 DEF ResolveWrite, Inv, TypeOK, Resolution
      <3> QED BY <1>3, <3>1 DEF ResolveWrite, Inv, ResolvedRight
    <2> HIDE DEF status
    <2>5. RowAgrees(r, g)'
      BY <2>1, <2>2, <2>3, <2>4 DEF RowAgrees, PostState, PostSettled
    <2>6. ASSUME NEW v \in Worker, Holds(v, r, g)' PROVE Knows(v)'
      <3>1. Holds(v, r, g) /\ Knows(v)
        BY <2>1, <2>6 DEF Holds, Inv, Agreement, WorkerKnows
      <3>2. status = "created" /\ post[r][g] = "accepted"
        BY <2>3, <2>4, <3>1 DEF PostSettled, RowAgrees
      <3> QED BY <2>1, <2>2, <3>1, <3>2 DEF Holds, Knows
    <2>7. OneHolder'
      BY <2>1 DEF OneHolder, Holds, Inv, Agreement
    <2> QED
      BY <2>1, <2>2, <2>5, <2>6, <2>7, AgreementRow DEF Stays
  <1> QED BY <1>1, <1>2, <1>3, ReviewKinds

\* Whatever Harvest answers, and whenever it does, agrees with the row.
LEMMA AgreementHarvest ==
    ASSUME Inv, TypeInv', NEW r \in Run, NEW g \in Group,
           HarvestCreates(r, g) \/ HarvestRefuses(r, g)
    PROVE  Agreement'
  <1>1. UNCHANGED <<item, pc, at, cur>> /\ post[r][g] = "sent"
    BY DEF HarvestCreates, HarvestRefuses, ledger, worker
  <1>2. OnlyRow(r, g)
    BY <1>1 DEF HarvestCreates, HarvestRefuses, OnlyRow, Inv, TypeOK
  <1>3. RowAgrees(r, g)
    BY DEF Inv, Agreement, PostMatchesRow
  <1>4. \/ post'[r][g] = "accepted" /\ invoices'[r][g] = invoices[r][g] + 1
        \/ post'[r][g] = "refused" /\ invoices'[r][g] = invoices[r][g]
    BY DEF HarvestCreates, HarvestRefuses, Inv, TypeOK
  <1>5. RowAgrees(r, g)'
    BY <1>1, <1>3, <1>4 DEF RowAgrees
  <1>6. ASSUME NEW v \in Worker, Holds(v, r, g)' PROVE Knows(v)'
    <2>1. Holds(v, r, g) /\ Knows(v)
      BY <1>1, <1>6 DEF Holds, Inv, Agreement, WorkerKnows
    <2> QED BY <1>1, <1>4, <2>1 DEF Holds, Knows
  <1>7. OneHolder'
    BY <1>1 DEF OneHolder, Holds, Inv, Agreement
  <1> QED BY <1>1, <1>2, <1>5, <1>6, <1>7, AgreementRow DEF Stays

\* Taking the lock: an approved row has no POST and no holder.
LEMMA AgreementLock ==
    ASSUME Inv, TypeInv', NEW w \in Worker, NEW g \in Group, TakeLock(w, g)
    PROVE  Agreement'
  <1> DEFINE r == at[w]
  <1>1. r \in Run /\ item[r][g] = "approved"
    BY DEF TakeLock, Inv, WorkerTyped
  <1>2. item'[r][g] = "in_flight" /\ OnlyRow(r, g) /\ UNCHANGED <<post, invoices, at>>
    BY <1>1 DEF TakeLock, OnlyRow, harvest, Inv, TypeOK
  <1>3. pc'[w] = "locked" /\ cur'[w] = g /\ \A v \in Worker \ {w} : Stays(v)
    BY <1>2 DEF TakeLock, Stays, Inv, TypeOK
  <1>4. post[r][g] = "none" /\ invoices[r][g] = 0
    <2>1. RowAgrees(r, g) /\ post[r][g] \in PostState
      BY <1>1 DEF Inv, Agreement, PostMatchesRow, TypeOK
    <2> QED BY <1>1, <2>1 DEF RowAgrees, PostState
  <1>5. RowAgrees(r, g)'
    BY <1>2, <1>4 DEF RowAgrees
  <1>6. \A v \in Worker : ~Holds(v, r, g)
    BY <1>1 DEF Holds, Inv, Agreement, WorkerKnows, Knows
  <1>7. \A v \in Worker, x \in Run, h \in Group :
          Holds(v, x, h)' => \/ v = w /\ x = r /\ h = g
                             \/ v # w /\ Holds(v, x, h)
    BY <1>2, <1>3 DEF Holds, Stays
  <1>8. OneHolder'
    BY <1>6, <1>7 DEF OneHolder, Inv, Agreement
  <1>9. Knows(w)'
    BY <1>2, <1>3, <1>4 DEF Knows
  <1> QED
    BY <1>1, <1>2, <1>3, <1>5, <1>6, <1>7, <1>8, <1>9, AgreementRow

\* Sending the POST, and recording its outcome: nobody else holds the row.
LEMMA AgreementRecord ==
    ASSUME Inv, TypeInv', NEW w \in Worker,
           SendPost(w) \/ RecordCreated(w) \/ RecordFailure(w)
    PROVE  Agreement'
  <1> PICK r \in Run, g \in Group : r = at[w] /\ g = cur[w]
    BY DEF SendPost, RecordCreated, RecordFailure, Inv, WorkerTyped
  <1>1. Holds(w, r, g) /\ Knows(w)
    BY DEF SendPost, RecordCreated, RecordFailure, Inv, Holds, Agreement,
       WorkerKnows
  <1>2. OnlyRow(r, g) /\ UNCHANGED <<invoices, at>>
    BY <1>1 DEF SendPost, RecordCreated, RecordFailure, NextItem, OnlyRow,
       ledger, harvest, Inv, TypeOK
  <1>3. \A v \in Worker \ {w} : Stays(v)
    BY <1>2 DEF SendPost, RecordCreated, RecordFailure, NextItem, Stays, Inv, TypeOK
  <1>4. RowAgrees(r, g)
    BY <1>1 DEF Inv, Agreement, PostMatchesRow
  <1>5. \/ /\ pc'[w] = "waiting" /\ cur'[w] = g
           /\ item'[r][g] = "in_flight" /\ post[r][g] = "none" /\ post'[r][g] = "sent"
        \/ /\ pc'[w] = "loop" /\ post[r][g] = "accepted" /\ post'[r][g] = "accepted"
           /\ item'[r][g] = "created"
        \/ /\ pc'[w] = "loop" /\ post[r][g] = "refused" /\ post'[r][g] = "refused"
           /\ item'[r][g] = "failed"
    BY <1>1 DEF SendPost, RecordCreated, RecordFailure, NextItem, ledger,
       harvest, Inv, TypeOK, Knows
  <1>6. RowAgrees(r, g)'
    BY <1>2, <1>4, <1>5 DEF RowAgrees
  <1>7. \A v \in Worker, x \in Run, h \in Group :
          Holds(v, x, h)' => \/ v = w /\ x = r /\ h = g
                             \/ v # w /\ Holds(v, x, h)
    BY <1>2, <1>3, <1>5 DEF Holds, Stays
  <1>8. \A v \in Worker \ {w} : ~Holds(v, r, g)
    BY <1>1 DEF OneHolder, Inv, Agreement
  <1>9. OneHolder'
    BY <1>1, <1>7 DEF OneHolder, Inv, Agreement
  <1>10. Holds(w, r, g)' => Knows(w)'
    BY <1>2, <1>5 DEF Holds, Knows
  <1> QED
    BY <1>1, <1>2, <1>3, <1>6, <1>7, <1>8, <1>9, <1>10, AgreementRow

\* Every step of a click keeps row, POST and click in agreement.
LEMMA AgreementWorker ==
    ASSUME Inv, TypeInv', NEW w \in Worker,
           Execute(w) \/ Die(w) \/ \E r \in Run : Start(w, r)
    PROVE  Agreement'
  <1>1. ASSUME \/ \E g \in Group : SkipItem(w, g)
               \/ \E r \in Run : Start(w, r)
               \/ RecordCreatedRaises(w) \/ RecordUnknown(w)
               \/ FinalizeCount(w) \/ FinalizeWrite(w) \/ Die(w)
        PROVE  Agreement'
    <2> USE <1>1 DEF SkipItem, Start, RecordCreatedRaises, RecordUnknown,
        FinalizeCount, FinalizeWrite, Die, Leave, NextItem
    <2>1. UNCHANGED <<item, post, invoices>>
      BY DEF ledger, harvest
    <2>2. pc'[w] \notin {"locked", "waiting"}
      BY DEF Inv, TypeOK
    <2>3. \A v \in Worker \ {w} : Stays(v)
      BY DEF Stays, Inv, TypeOK
    <2> QED BY <2>1, <2>2, <2>3, AgreementQuiet
  <1> QED BY <1>1, AgreementLock, AgreementRecord DEF Execute

\* A step that starts no resolution leaves those on their way right, if no
\* invoice is lost, and a POST that is settled stays so and creates none.
LEMMA ResolvedKept ==
    ASSUME Inv,
           \A r \in Run, g \in Group :
              resolving'[r][g] # None => resolving'[r][g] = resolving[r][g],
           \A r \in Run, g \in Group : item[r][g] = "in_flight" =>
              /\ invoices[r][g] > 0 => invoices'[r][g] > 0
              /\ PostSettled(r, g) =>
                    PostSettled(r, g)' /\ invoices'[r][g] = invoices[r][g]
    PROVE  ResolvedRight'
  BY DEF Inv, ResolvedRight, LocksHold

\* A resolution says what is true when it is entered, and nothing that happens
\* before its commit makes it false.
LEMMA ResolvedStep ==
    ASSUME "failed" \in OperatorWaits, Inv, Next
    PROVE  ResolvedRight'
  <1> USE DEF Inv, TypeOK, WorkerTyped
  <1>1. ASSUME UNCHANGED <<harvest, worker, resolving>> PROVE ResolvedRight'
    BY <1>1, ResolvedKept DEF harvest, worker, PostSettled, Holds
  <1>2. ASSUME \/ \E r \in Run, m \in Month, found \in [Group -> Finding] : Plan(r, m, found)
               \/ \E r \in Run : RunReview(r)
               \/ \E r \in Run, g \in Group : ReviewOpen(r, g)
        PROVE  ResolvedRight'
    <2> HIDE DEF Inv, TypeOK, WorkerTyped
    <2>1. CASE \E r \in Run : RunReview(r)
      BY <1>1, <2>1 DEF RunReview, ApproveAll, ClearApprovals, AbandonCheck, AbandonWrite,
         CloseCheck, CloseCount, CloseWrite, open
    <2>2. CASE \E r \in Run, g \in Group : ReviewOpen(r, g)
      BY <1>1, <2>2 DEF ReviewOpen, SetItemApproval, RejectItem, UnrejectItem, SetResolution,
         ClearResolution, open
    <2>3. CASE \E r \in Run, m \in Month, found \in [Group -> Finding] : Plan(r, m, found)
      BY <1>1, <2>3 DEF Plan, open
    <2> QED BY <1>2, <2>1, <2>2, <2>3
  <1>3. ASSUME NEW r \in Run, NEW g \in Group, Resolves(r, g) PROVE ResolvedRight'
    <2>1. PICK outcome \in {"created", "failed"} :
             /\ Resolve(r, g, outcome)
             /\ outcome = "created" => invoices[r][g] > 0
             /\ outcome = "failed" => invoices[r][g] = 0 /\ PostSettled(r, g)
      BY <1>3 DEF Resolves, ResolveLink, ResolveFailed, Resolve
    <2>2. UNCHANGED <<post, invoices, pc, at, cur>>
      BY <2>1 DEF Resolve, harvest, worker
    <2>3. /\ resolving'[r][g].row = outcome
          /\ \A x \in Run, h \in Group : x # r \/ h # g => resolving'[x][h] = resolving[x][h]
      BY <2>1 DEF Resolve
    <2>4. \A x \in Run, h \in Group : PostSettled(x, h)' <=> PostSettled(x, h)
      BY <2>2 DEF PostSettled, Holds
    <2>5. ASSUME NEW x \in Run, NEW h \in Group, resolving'[x][h] # None
          PROVE  /\ resolving'[x][h].row = "created" => invoices[x][h] > 0
                 /\ resolving'[x][h].row = "failed" =>
                       invoices[x][h] = 0 /\ PostSettled(x, h)
      <3>1. CASE x = r /\ h = g
        BY <2>1, <2>3, <3>1
      <3>2. CASE x # r \/ h # g
        <4>1. resolving'[x][h] = resolving[x][h] /\ resolving[x][h] # None
          BY <2>3, <2>5, <3>2
        <4> QED BY <4>1 DEF ResolvedRight
      <3> QED BY <3>1, <3>2
    <2> HIDE DEF Inv, TypeOK, WorkerTyped
    <2> QED BY <2>2, <2>4, <2>5 DEF ResolvedRight
  <1>4. ASSUME NEW r \in Run, NEW g \in Group, ResolveWrite(r, g) PROVE ResolvedRight'
    BY <1>4, ResolvedKept DEF ResolveWrite, harvest, worker, PostSettled, Holds
  <1>5. ASSUME NEW r \in Run, NEW g \in Group, HarvestCreates(r, g) \/ HarvestRefuses(r, g)
        PROVE  ResolvedRight'
    <2>1. UNCHANGED <<pc, at, cur, resolving>> /\ ~PostSettled(r, g)
      BY <1>5 DEF HarvestCreates, HarvestRefuses, worker, open, PostSettled
    <2>2. /\ \A x \in Run, h \in Group : x # r \/ h # g =>
                post'[x][h] = post[x][h] /\ invoices'[x][h] = invoices[x][h]
          /\ invoices[r][g] > 0 => invoices'[r][g] > 0
      BY <1>5 DEF HarvestCreates, HarvestRefuses
    <2> QED BY <2>1, <2>2, ResolvedKept DEF PostSettled, Holds
  <1>6. ASSUME NEW w \in Worker, Execute(w) \/ Die(w) \/ \E r \in Run : Start(w, r)
        PROVE  ResolvedRight'
    <2>1. UNCHANGED <<invoices, resolving>>
      BY <1>6 DEF Execute, TakeLock, SkipItem, SendPost, RecordCreated, RecordCreatedRaises,
         RecordFailure, RecordUnknown, FinalizeCount, FinalizeWrite, Die, Start, harvest, open
    <2>2. ASSUME NEW x \in Run, NEW h \in Group, item[x][h] = "in_flight", PostSettled(x, h)
          PROVE  PostSettled(x, h)'
      <3>1. ASSUME UNCHANGED post, \A v \in Worker : Holds(v, x, h)' => Holds(v, x, h)
            PROVE  PostSettled(x, h)'
        BY <2>2, <3>1 DEF PostSettled
      <3>2. ASSUME NEW g \in Group, TakeLock(w, g) PROVE PostSettled(x, h)'
        <4>1. at[w] # x \/ g # h
          BY <2>2, <3>2 DEF TakeLock
        <4> QED BY <3>1, <3>2, <4>1 DEF TakeLock, Holds, harvest
      <3>3. CASE SendPost(w)
        <4>1. PICK r \in Run, g \in Group : r = at[w] /\ g = cur[w]
          BY <3>3 DEF SendPost
        <4>2. r # x \/ g # h
          BY <2>2, <3>3, <4>1 DEF SendPost, PostSettled, Holds
        <4>3. post'[x][h] = post[x][h]
          BY <3>3, <4>1, <4>2 DEF SendPost
        <4>4. \A v \in Worker : Holds(v, x, h)' => Holds(v, x, h)
          BY <3>3 DEF SendPost, Holds
        <4> QED BY <2>2, <4>3, <4>4 DEF PostSettled
      <3>4. CASE \/ \E g \in Group : SkipItem(w, g)
                 \/ \E r \in Run : Start(w, r)
                 \/ RecordCreated(w) \/ RecordCreatedRaises(w) \/ RecordFailure(w)
                 \/ RecordUnknown(w) \/ FinalizeCount(w) \/ FinalizeWrite(w) \/ Die(w)
        <4>1. UNCHANGED post
          BY <3>4 DEF SkipItem, Start, RecordCreated, RecordCreatedRaises, RecordFailure,
             RecordUnknown, FinalizeCount, FinalizeWrite, Die, harvest
        <4>2. pc'[w] \notin {"locked", "waiting"} /\ \A v \in Worker \ {w} : Stays(v)
          BY <3>4 DEF SkipItem, Start, RecordCreated, RecordCreatedRaises, RecordFailure,
             RecordUnknown, FinalizeCount, FinalizeWrite, Die, NextItem, Leave, Stays
        <4> QED BY <3>1, <4>1, <4>2 DEF Holds, Stays
      <3> QED BY <1>6, <3>2, <3>3, <3>4 DEF Execute
    <2> QED BY <2>1, <2>2, ResolvedKept
  <1> QED BY <1>2, <1>3, <1>4, <1>5, <1>6, ReviewKinds DEF Next, RunReview

\* The invariant of the write protocol is inductive, given that nobody marks a
\* row failed while its POST is running.
LEMMA InvStep ==
    ASSUME "failed" \in OperatorWaits PROVE Inv /\ [Next]_vars => Inv'
  <1> SUFFICES ASSUME Inv, [Next]_vars PROVE Inv'
    OBVIOUS
  <1>1. Base'
    BY BaseStep DEF Inv, Base, TypeInv
  <1>2. CASE UNCHANGED vars
    BY <1>1, <1>2 DEF vars, Inv, Base, TypeInv, ResolvedRight, PostSettled, Agreement,
       PostMatchesRow, RowAgrees, WorkerKnows, Knows, OneHolder, Holds
  <1>3. CASE Next
    <2>1. TypeInv'
      BY <1>1 DEF Base
    <2>2. Agreement'
      BY <1>3, <2>1, PlanIsLedgerStep, RunReviewIsLedgerStep, AgreementLedger,
         AgreementReview, AgreementHarvest, AgreementWorker DEF Next, RunReview
    <2>3. ResolvedRight'
      BY <1>3, ResolvedStep
    <2> QED BY <1>1, <2>2, <2>3 DEF Inv, Base, TypeInv
  <1> QED BY <1>2, <1>3

\* The invariant holds before the first plan.
LEMMA InvInit == Init => Inv
  BY BaseInit DEF Inv, Base, TypeInv, Init, ResolvedRight, Agreement, PostMatchesRow, RowAgrees,
     WorkerKnows, Knows, OneHolder, Holds

\* The protocol of the write: row, POST and click agree, one click holds a row,
\* and the month's slot is never doubled, as long as nobody marks a row failed
\* while its POST is running.
THEOREM ProtocolCorrect == ASSUME "failed" \in OperatorWaits PROVE Spec => []ProtocolInv
  <1>1. Inv /\ OneLiveRow => ProtocolInv
    BY DEF Inv, Agreement, ProtocolInv
  <1> QED BY <1>1, InvInit, InvStep, OneLiveRowCorrect, PTL DEF Spec

\* An invoice in Harvest has a row that says so, and a row that says created
\* has an invoice: nothing is drafted that the ledger cannot find again.
THEOREM InvoiceAccountedCorrect ==
    ASSUME "failed" \in OperatorWaits PROVE Spec => []InvoiceAccounted
  <1>1. ProtocolInv => InvoiceAccounted
    BY DEF ProtocolInv, PostMatchesRow, RowAgrees, InvoiceAccounted
  <1> QED BY <1>1, ProtocolCorrect, PTL

\* No group is invoiced twice in a month, by any number of clicks, plans and
\* process deaths, as long as nobody marks a row failed while its POST is
\* running.
THEOREM OneInvoiceCorrect ==
    ASSUME "failed" \in OperatorWaits PROVE Spec => []OneInvoice
  <1>1. ProtocolInv => OneInvoice
    BY DEF ProtocolInv, PostMatchesRow, RowAgrees, OneLiveRow, Live, ItemStatus,
       OneInvoice
  <1> QED BY <1>1, ProtocolCorrect, PTL

(***************************************************************************)
(* What the gate of approval withholds.                                    *)
(***************************************************************************)

ReviewTyped == TypeInv /\ ClickOnRun /\ LocksHold /\ ReviewInv

\* Planning touches the rows of its own run, which had none, and abandons rows
\* that are open elsewhere.
LEMMA ReviewPlan ==
    ASSUME ReviewTyped, NEW r \in Run, NEW m \in Month,
           NEW found \in [Group -> Finding], Plan(r, m, found)
    PROVE  ReviewInv'
  <1> USE DEF ReviewTyped, TypeInv, TypeOK, ReviewInv
  <1>1. NoRunNoRow'
    BY DEF Plan, SweptStatus, Swept, SettleStatus, ReviewableItem, NoRunNoRow
  <1>2. HeldAttempted'
    BY DEF Plan, Swept, ReviewableItem, NoRunNoRow, HeldAttempted, Attempted, Holds,
       worker
  <1>3. RejectedByPerson'
    BY DEF Plan, Swept, ReviewableItem, NoRunNoRow, RejectedByPerson
  <1>4. BlockedStaysOut'
    BY DEF Plan, Swept, ReviewableItem, PlannedRow, PlannedFlag, WithheldNotSent,
       BlockedStaysOut
  <1>5. UndecidedNotSent'
    <2> SUFFICES ASSUME NEW x \in Run, NEW g \in undecided'[x]
                 PROVE  item'[x][g] \notin {"approved", "in_flight", "created", "failed"}
      BY DEF UndecidedNotSent
    <2>1. CASE x = r
      <3>1. g \in Group /\ PlannedRow(g, m, found[g]) = "planned"
        BY <2>1, BillingAssumption DEF Plan
      <3> QED BY <2>1, <3>1 DEF Plan
    <2>2. CASE x # r
      BY <2>2 DEF Plan, Swept, ReviewableItem, WithheldNotSent, UndecidedNotSent
    <2> QED BY <2>1, <2>2
  <1> QED BY <1>1, <1>2, <1>3, <1>4, <1>5 DEF WithheldNotSent

\* Every path of review asks what the gate asks, or leaves the row out.
LEMMA ReviewReview ==
    ASSUME ReviewTyped, NEW r \in Run, RunReview(r) \/ \E g \in Group : Review(r, g)
    PROVE  ReviewInv'
  <1> USE DEF ReviewTyped, TypeInv, TypeOK, ReviewInv, NoRunNoRow, HeldAttempted,
              RejectedByPerson, WithheldNotSent, BlockedStaysOut, UndecidedNotSent,
              Holds, Attempted, worker
  <1>1. ASSUME UNCHANGED <<ledger, worker>> PROVE ReviewInv'
    BY <1>1 DEF ledger
  <1>2. CASE AbandonCheck(r) \/ CloseCheck(r) \/ CloseCount(r)
    BY <1>1, <1>2 DEF AbandonCheck, CloseCheck, CloseCount
  <1>3. CASE AbandonWrite(r)
    BY <1>3 DEF AbandonWrite, ReviewableItem
  <1>4. CASE ApproveAll(r)
    BY <1>4 DEF ApproveAll, Approvable, ReviewableRun
  <1>5. CASE ClearApprovals(r)
    BY <1>5 DEF ClearApprovals, ReviewableRun
  <1>6. CASE CloseWrite(r)
    <2>1. runStatus'[r] # "none" /\ \A x \in Run \ {r} : runStatus'[x] = runStatus[x]
      BY <1>6 DEF CloseWrite, RunStatus
    <2>2. \A g \in closing[r] : item[r][g] \in ReviewableItem
      BY DEF LocksHold
    <2>8. \A x \in Run, g \in Group :
             \/ item'[x][g] = item[x][g]
             \/ item[x][g] \in ReviewableItem /\ item'[x][g] = "skipped"
      BY <1>6, <2>2 DEF CloseWrite
    <2>9. /\ UNCHANGED <<flag, undecided, pc, at, cur>>
          /\ \A x \in Run : \A g \in rejected'[x] :
                g \in rejected[x] \/ item[x][g] \in ReviewableItem
      BY <1>6, <2>2 DEF CloseWrite
    <2>3. NoRunNoRow'
      BY <1>6, <2>1 DEF CloseWrite
    <2>4. HeldAttempted'
      <3>1. ASSUME NEW v \in Worker, NEW x \in Run, NEW g \in Group, Holds(v, x, g)'
            PROVE  item'[x][g] \in Attempted
        <4>1. item[x][g] \in Attempted
          BY <2>9, <3>1
        <4> QED BY <2>8, <4>1 DEF ReviewableItem
      <3> HIDE DEF Holds, Attempted
      <3> QED BY <3>1
    <2>5. RejectedByPerson'
      <3>1. ASSUME NEW x \in Run, NEW g \in rejected'[x]
            PROVE  item'[x][g] # "none" /\ flag'[x][g] # "blocking"
        <4>1. g \in Group
          BY <1>6, <3>1 DEF CloseWrite
        <4>2. item[x][g] # "none" /\ flag[x][g] # "blocking"
          <5>1. CASE g \in rejected[x]
            BY <5>1
          <5>2. CASE item[x][g] \in ReviewableItem
            BY <4>1, <5>2 DEF ReviewableItem
          <5> QED BY <2>9, <3>1, <5>1, <5>2
        <4> QED BY <2>8, <2>9, <4>1, <4>2
      <3> QED BY <3>1
    <2>6. BlockedStaysOut'
      BY <2>8, <2>9 DEF ReviewableItem
    <2>7. UndecidedNotSent'
      <3>1. ASSUME NEW x \in Run, NEW g \in undecided[x]
            PROVE  item'[x][g] \notin {"approved", "in_flight", "created", "failed"}
        <4>1. item[x][g] \notin {"approved", "in_flight", "created", "failed"}
          OBVIOUS
        <4> QED BY <2>8, <4>1
      <3> QED BY <2>9, <3>1
    <2> QED BY <2>3, <2>4, <2>5, <2>6, <2>7
  <1>7. ASSUME NEW g \in Group, ReviewOpen(r, g) PROVE ReviewInv'
    <2>1. ASSUME NEW approve \in BOOLEAN, NEW over \in BOOLEAN,
                 SetItemApproval(r, g, approve, over)
          PROVE  ReviewInv'
      BY <2>1 DEF SetItemApproval, SeenIn, ReviewableItem, Approvable, ReviewableRun
    <2>2. CASE RejectItem(r, g)
      BY <2>2 DEF RejectItem, SeenIn, ReviewableItem, RejectableRun
    <2>3. CASE UnrejectItem(r, g)
      BY <2>3 DEF UnrejectItem, SeenIn, RejectableRun
    <2>4. CASE SetResolution(r, g)
      BY <2>4 DEF SetResolution, PlaceholderEditable, SeenIn, ReviewableItem, ReviewableRun
    <2>5. CASE ClearResolution(r, g)
      BY <2>5 DEF ClearResolution, PlaceholderEditable, SeenIn, ReviewableItem,
         ReviewableRun
    <2> QED BY <1>7, <2>1, <2>2, <2>3, <2>4, <2>5 DEF ReviewOpen
  <1>8. ASSUME NEW g \in Group, Resolves(r, g) PROVE ReviewInv'
    BY <1>1, <1>8 DEF Resolves, ResolveLink, ResolveFailed, Resolve
  <1>9. ASSUME NEW g \in Group, ResolveWrite(r, g) PROVE ReviewInv'
    <2>8. resolving[r][g] \in Resolution
      BY <1>9 DEF ResolveWrite
    <2>9. resolving[r][g].row \in {"created", "failed"} /\ resolving[r][g].run \in RunStatus
      BY <2>8 DEF Resolution
    <2>1. PICK to \in {"created", "failed"} : item' = [item EXCEPT ![r][g] = to]
      BY <1>9, <2>9 DEF ResolveWrite
    <2>2. item[r][g] = "in_flight"
      BY <1>9 DEF ResolveWrite, LocksHold
    <2>3. runStatus'[r] # "none" /\ \A x \in Run \ {r} : runStatus'[x] = runStatus[x]
      BY <1>9, <2>9 DEF ResolveWrite, RunStatus
    <2>4. UNCHANGED <<rejected, flag, undecided, pc, at, cur>>
      BY <1>9 DEF ResolveWrite
    <2>5. NoRunNoRow'
      BY <2>1, <2>3
    <2>6. HeldAttempted'
      BY <2>1, <2>4
    <2>7. RejectedByPerson' /\ WithheldNotSent'
      BY <2>1, <2>2, <2>4
    <2> QED BY <2>5, <2>6, <2>7
  <1> QED
    BY <1>2, <1>3, <1>4, <1>5, <1>6, <1>7, <1>8, <1>9, ReviewKinds DEF RunReview

\* A click takes approved rows only, and records nothing on any other row.
LEMMA ReviewExecute ==
    ASSUME ReviewTyped,
           \/ \E w \in Worker : Execute(w) \/ Die(w) \/ \E r \in Run : Start(w, r)
           \/ \E r \in Run, g \in Group : HarvestCreates(r, g) \/ HarvestRefuses(r, g)
    PROVE  ReviewInv'
  <1> USE DEF ReviewTyped, TypeInv, TypeOK, WorkerTyped, ReviewInv, NoRunNoRow,
              HeldAttempted, RejectedByPerson, WithheldNotSent, BlockedStaysOut,
              UndecidedNotSent, Holds, Attempted, ledger, worker
  <1>1. ASSUME NEW w \in Worker, Execute(w) PROVE ReviewInv'
    <2>1. ASSUME NEW g \in Group, TakeLock(w, g) PROVE ReviewInv'
      BY <2>1 DEF TakeLock
    <2>2. ASSUME NEW g \in Group, SkipItem(w, g) PROVE ReviewInv'
      BY <2>2 DEF SkipItem
    <2>3. CASE SendPost(w)
      BY <2>3 DEF SendPost
    <2>4. CASE RecordCreated(w) \/ RecordFailure(w)
      <3>1. PICK r \in Run, g \in Group : r = at[w] /\ g = cur[w]
        BY <2>4 DEF RecordCreated, RecordFailure
      <3>2. item[r][g] \in Attempted
        BY <2>4, <3>1 DEF RecordCreated, RecordFailure
      <3>3. PICK to \in {"created", "failed"} : item' = [item EXCEPT ![r][g] = to]
        BY <2>4, <3>1 DEF RecordCreated, RecordFailure
      <3>4. pc' = [pc EXCEPT ![w] = "loop"]
        BY <2>4 DEF RecordCreated, RecordFailure, NextItem
      <3>5. UNCHANGED <<runStatus, rejected, flag, undecided, at>>
        BY <2>4 DEF RecordCreated, RecordFailure, NextItem
      <3>6. \A v \in Worker \ {w} : cur'[v] = cur[v]
        BY <2>4 DEF RecordCreated, RecordFailure, NextItem
      <3>7. NoRunNoRow'
        BY <3>2, <3>3, <3>5
      <3>8. HeldAttempted'
        BY <3>3, <3>4, <3>5, <3>6
      <3>9. RejectedByPerson' /\ WithheldNotSent'
        BY <3>2, <3>3, <3>5
      <3> QED BY <3>7, <3>8, <3>9
    <2>5. CASE RecordCreatedRaises(w)
      BY <2>5 DEF RecordCreatedRaises, Leave
    <2>7. CASE RecordUnknown(w)
      BY <2>7 DEF RecordUnknown, NextItem
    <2>8. CASE FinalizeCount(w)
      BY <2>8 DEF FinalizeCount
    <2>9. CASE FinalizeWrite(w)
      <3>1. derived[w] # "none"
        BY <2>9 DEF FinalizeWrite, RunStatus
      <3>2. NoRunNoRow'
        BY <2>9, <3>1 DEF FinalizeWrite
      <3>3. HeldAttempted'
        BY <2>9 DEF FinalizeWrite, Leave
      <3>4. RejectedByPerson' /\ WithheldNotSent'
        BY <2>9 DEF FinalizeWrite
      <3> QED BY <3>2, <3>3, <3>4
    <2> QED BY <1>1, <2>1, <2>2, <2>3, <2>4, <2>5, <2>7, <2>8, <2>9 DEF Execute
  <1>2. ASSUME NEW w \in Worker, Die(w) PROVE ReviewInv'
    BY <1>2 DEF Die, Leave
  <1>3. ASSUME NEW w \in Worker, NEW r \in Run, Start(w, r) PROVE ReviewInv'
    BY <1>3 DEF Start
  <1>4. ASSUME NEW r \in Run, NEW g \in Group,
               HarvestCreates(r, g) \/ HarvestRefuses(r, g)
        PROVE  ReviewInv'
    BY <1>4 DEF HarvestCreates, HarvestRefuses
  <1> QED BY <1>1, <1>2, <1>3, <1>4

\* The invariant of review holds before the first plan.
LEMMA ReviewTypedInit == Init => ReviewTyped
  BY BaseInit DEF Base, ReviewTyped, Init, ReviewInv, NoRunNoRow, HeldAttempted,
     RejectedByPerson, WithheldNotSent, BlockedStaysOut, UndecidedNotSent, Holds

\* No step of planning, review, a click or Harvest breaks it.
LEMMA ReviewTypedStep == ReviewTyped /\ [Next]_vars => ReviewTyped'
  <1> SUFFICES ASSUME ReviewTyped, [Next]_vars PROVE ReviewTyped'
    OBVIOUS
  <1>1. Base'
    BY BaseStep DEF Base, ReviewTyped, ReviewInv
  <1>2. CASE UNCHANGED vars
    BY <1>1, <1>2 DEF vars, Base, ReviewTyped, ReviewInv, NoRunNoRow, HeldAttempted,
       RejectedByPerson, WithheldNotSent, BlockedStaysOut, UndecidedNotSent, Holds
  <1>3. CASE Next
    <2>1. ReviewInv'
      BY <1>3, ReviewPlan, ReviewReview, ReviewExecute DEF Next, RunReview
    <2> QED BY <1>1, <2>1 DEF Base, ReviewTyped
  <1> QED BY <1>2, <1>3

\* What the gate of approval withholds is never sent: no row with a blocking
\* flag or an undecided placeholder line reaches Harvest, for any number of
\* clicks and also when a call acts on a run's status of some time ago.
THEOREM WithheldNotSentCorrect == Spec => []WithheldNotSent
  <1>1. ReviewTyped => WithheldNotSent
    BY DEF ReviewTyped, ReviewInv
  <1> QED BY <1>1, ReviewTypedInit, ReviewTypedStep, PTL DEF Spec

(***************************************************************************)
(* Outcomes are final.                                                     *)
(***************************************************************************)

\* No step touches a row that was created, failed or abandoned: the recorders
\* ask nothing of the status, but the click that calls them holds the row.
LEMMA FinalStep ==
    ASSUME Inv, [Next]_vars, NEW r \in Run, NEW g \in Group,
           item[r][g] \in {"created", "failed", "abandoned"}
    PROVE  item'[r][g] = item[r][g]
  <1> USE DEF Inv, TypeOK, WorkerTyped, ReviewableItem
  <1>1. ASSUME UNCHANGED item PROVE item'[r][g] = item[r][g]
    BY <1>1
  <1>2. ASSUME NEW x \in Run, NEW m \in Month, NEW found \in [Group -> Finding],
               Plan(x, m, found)
        PROVE  item'[r][g] = item[r][g]
    BY <1>2 DEF Plan, Swept, NoRunNoRow
  <1>3. ASSUME NEW x \in Run, RunReview(x) PROVE item'[r][g] = item[r][g]
    <2>1. CASE AbandonCheck(x) \/ CloseCheck(x) \/ CloseCount(x)
      BY <1>1, <2>1 DEF AbandonCheck, CloseCheck, CloseCount, ledger
    <2>2. CASE AbandonWrite(x)
      BY <2>2 DEF AbandonWrite
    <2>3. CASE ApproveAll(x)
      BY <2>3 DEF ApproveAll
    <2>4. CASE ClearApprovals(x)
      BY <2>4 DEF ClearApprovals
    <2>5. CASE CloseWrite(x)
      BY <2>5 DEF CloseWrite, LocksHold
    <2> QED BY <1>3, <2>1, <2>2, <2>3, <2>4, <2>5 DEF RunReview
  <1>4. ASSUME NEW x \in Run, NEW h \in Group, Review(x, h)
        PROVE  item'[r][g] = item[r][g]
    <2>1. ASSUME NEW status, item[x][h] \notin {"created", "failed", "abandoned"},
                 item' = [item EXCEPT ![x][h] = status]
          PROVE  item'[r][g] = item[r][g]
      BY <2>1
    <2>2. CASE ReviewOpen(x, h) \/ ResolveWrite(x, h)
      <3>1. item[x][h] \notin {"created", "failed", "abandoned"}
        BY <2>2 DEF ReviewOpen, SetItemApproval, RejectItem, UnrejectItem, SetResolution,
           ClearResolution, PlaceholderEditable, ResolveWrite, LocksHold
      <3>2. \E status : item' = [item EXCEPT ![x][h] = status]
        BY <2>2 DEF ReviewOpen, SetItemApproval, RejectItem, UnrejectItem, SetResolution,
           ClearResolution, ResolveWrite
      <3> QED BY <2>1, <3>1, <3>2
    <2>3. CASE Resolves(x, h)
      BY <1>1, <2>3 DEF Resolves, ResolveLink, ResolveFailed, Resolve, ledger
    <2> QED BY <1>4, <2>2, <2>3, ReviewKinds
  <1>5. ASSUME NEW x \in Run, NEW h \in Group, HarvestCreates(x, h) \/ HarvestRefuses(x, h)
        PROVE  item'[r][g] = item[r][g]
    BY <1>1, <1>5 DEF HarvestCreates, HarvestRefuses, ledger
  <1>6. ASSUME NEW w \in Worker, NEW x \in Run, Start(w, x) PROVE item'[r][g] = item[r][g]
    BY <1>1, <1>6 DEF Start
  <1>7. ASSUME NEW w \in Worker, Execute(w) \/ Die(w) PROVE item'[r][g] = item[r][g]
    <2>1. ASSUME NEW h \in Group, TakeLock(w, h) PROVE item'[r][g] = item[r][g]
      BY <2>1 DEF TakeLock
    <2>2. CASE RecordCreated(w)
      <3>1. item[at[w]][cur[w]] \in {"in_flight", "created"}
        BY <2>2 DEF RecordCreated, Agreement, WorkerKnows, Knows
      <3> QED BY <2>2, <3>1 DEF RecordCreated
    <2>3. CASE RecordFailure(w)
      <3>1. at[w] \in Run /\ cur[w] \in Group /\ Knows(w)
        BY <2>3 DEF RecordFailure, Agreement, WorkerKnows
      <3>2. item[at[w]][cur[w]] = "in_flight"
        BY <2>3, <3>1 DEF RecordFailure, Agreement, Knows, PostMatchesRow, RowAgrees
      <3> QED BY <2>3, <3>1, <3>2 DEF RecordFailure
    <2>4. CASE \/ \E h \in Group : SkipItem(w, h)
               \/ SendPost(w) \/ RecordCreatedRaises(w) \/ RecordUnknown(w)
               \/ FinalizeCount(w) \/ FinalizeWrite(w) \/ Die(w)
      BY <1>1, <2>4 DEF SkipItem, SendPost, RecordCreatedRaises, RecordUnknown,
         FinalizeCount, FinalizeWrite, Die, ledger
    <2> QED BY <1>7, <2>1, <2>2, <2>3, <2>4 DEF Execute
  <1>8. CASE UNCHANGED vars
    BY <1>1, <1>8 DEF vars
  <1> QED BY <1>2, <1>3, <1>4, <1>5, <1>6, <1>7, <1>8 DEF Next, RunReview

\* The outcome of a row is final, as long as nobody marks a row failed while
\* its POST is running.
THEOREM OutcomeIsFinalCorrect == ASSUME "failed" \in OperatorWaits PROVE Spec => OutcomeIsFinal
  <1>1. Inv /\ [Next]_vars => [\A r \in Run, g \in Group :
                                  item[r][g] \in {"created", "failed", "abandoned"}
                                  => item'[r][g] = item[r][g]]_vars
    BY FinalStep
  <1> QED BY <1>1, InvInit, InvStep, PTL DEF Spec, OutcomeIsFinal

(***************************************************************************)
(* Refinement: a group's month is a slot.                                  *)
(***************************************************************************)

\* What a slot shows of its one row that may be live.
Face(status) ==
    IF status = "created" THEN "billed" ELSE IF status = "in_flight" THEN "claimed" ELSE "open"

\* Planning and review claim, bill and release nothing.
LEMMA LedgerStepKeepsSlots ==
    ASSUME Inv, LedgerStep,
           \A x \in Run : runMonth'[x] = runMonth[x] \/ \A g \in Group : item[x][g] \in Unsent
    PROVE  UNCHANGED Slots!vars
  <1>1. ASSUME NEW s \in Slot, NEW v \in {"created", "in_flight"}
        PROVE  (\E x \in RowsOf(s) : item[x][s[1]] = v)'
               <=> \E x \in RowsOf(s) : item[x][s[1]] = v
    BY <1>1 DEF LedgerStep, RowsOf, Slot, Unsent
  <1>2. SlotState' = SlotState
    BY <1>1 DEF SlotState
  <1>3. \A x \in Run, g \in Group : invoices[x][g] > 0 => item[x][g] \notin Unsent
    BY DEF Inv, Agreement, PostMatchesRow, RowAgrees, Unsent
  <1>4. invoices' = invoices
    BY DEF LedgerStep, harvest
  <1>5. \A s \in Slot : (\E x \in RowsOf(s) : invoices[x][s[1]] > 0)'
                        <=> \E x \in RowsOf(s) : invoices[x][s[1]] > 0
    BY <1>3, <1>4 DEF RowsOf, Slot
  <1>6. SlotInvoiced' = SlotInvoiced
    BY <1>5 DEF SlotInvoiced
  <1> QED BY <1>2, <1>6 DEF Slots!vars

\* Neither does a step that leaves rows and invoices alone.
LEMMA QuietKeepsSlots ==
    ASSUME UNCHANGED <<item, runMonth, invoices>>
    PROVE  UNCHANGED Slots!vars
  BY DEF Slots!vars, SlotState, SlotInvoiced, RowsOf

\* A live row is all that its slot shows.
LEMMA SlotShowsRow ==
    ASSUME Inv, OneLiveRow, NEW r \in Run, NEW g \in Group, item[r][g] \in Live,
           runMonth[r] \in Month
    PROVE  /\ <<g, runMonth[r]>> \in Slot
           /\ SlotState[<<g, runMonth[r]>>] = Face(item[r][g])
           /\ <<g, runMonth[r]>> \in SlotInvoiced <=> invoices[r][g] > 0
  <1> DEFINE s == <<g, runMonth[r]>>
  <1>1. s \in Slot /\ s[1] = g /\ s[2] = runMonth[r]
    BY DEF Slot
  <1>2. \A x \in RowsOf(s) : x # r => item[x][g] \notin Live
    BY <1>1 DEF RowsOf, OneLiveRow
  <1>3. \A x \in RowsOf(s) : x # r => item[x][g] \notin {"created", "in_flight"}
    BY <1>2 DEF Live, ItemStatus
  <1>4. \A x \in RowsOf(s) : x # r => ~(invoices[x][g] > 0)
    BY <1>3 DEF RowsOf, Inv, Agreement, PostMatchesRow, RowAgrees
  <1>5. r \in RowsOf(s)
    BY <1>1 DEF RowsOf
  <1> HIDE DEF s
  <1>6. SlotState[s] = Face(item[r][g])
    BY <1>1, <1>3, <1>5 DEF SlotState, Face
  <1>7. s \in SlotInvoiced <=> invoices[r][g] > 0
    BY <1>1, <1>4, <1>5 DEF SlotInvoiced
  <1> QED BY <1>1, <1>6, <1>7 DEF s

\* A step on one live row moves its slot and no other.
LEMMA RowMovesSlot ==
    ASSUME Inv, OneLiveRow, NEW r \in Run, NEW g \in Group, item[r][g] \in Live,
           runMonth[r] \in Month, OnlyRow(r, g), runMonth' = runMonth
    PROVE  /\ SlotState' = [SlotState EXCEPT ![<<g, runMonth[r]>>] = Face(item'[r][g])]
           /\ SlotInvoiced' = IF invoices'[r][g] > 0
                              THEN SlotInvoiced \cup {<<g, runMonth[r]>>}
                              ELSE SlotInvoiced \ {<<g, runMonth[r]>>}
  <1> DEFINE s == <<g, runMonth[r]>>
  <1>1. s \in Slot /\ s[1] = g /\ s[2] = runMonth[r]
    BY DEF Slot
  <1>2. \A x \in RowsOf(s) : x # r => item[x][g] \notin {"created", "in_flight"}
    BY <1>1 DEF RowsOf, OneLiveRow, Live, ItemStatus
  <1>3. \A x \in RowsOf(s) : x # r => ~(invoices[x][g] > 0)
    BY <1>2 DEF RowsOf, Inv, Agreement, PostMatchesRow, RowAgrees
  <1>4. r \in RowsOf(s)
    BY <1>1 DEF RowsOf
  <1>5. \A t \in Slot : RowsOf(t)' = RowsOf(t)
    BY DEF RowsOf
  <1>6. \A x \in Run : x # r => item'[x][g] = item[x][g] /\ invoices'[x][g] = invoices[x][g]
    BY DEF OnlyRow
  <1>7. ASSUME NEW t \in Slot, t # s, NEW x \in RowsOf(t)
        PROVE  item'[x][t[1]] = item[x][t[1]] /\ invoices'[x][t[1]] = invoices[x][t[1]]
    <2>1. x \in Run /\ t[1] \in Group /\ runMonth[x] = t[2] /\ t = <<t[1], t[2]>>
      BY <1>7 DEF RowsOf, Slot
    <2>2. x # r \/ t[1] # g
      BY <1>7, <2>1
    <2> QED BY <2>1, <2>2 DEF OnlyRow
  <1>8. \A x \in RowsOf(s) : x \in Run
    BY DEF RowsOf
  <1> HIDE DEF s
  <1>9. SlotState'[s] = Face(item'[r][g])
    BY <1>1, <1>2, <1>4, <1>5, <1>6, <1>8 DEF SlotState, Face
  <1>10. \A t \in Slot : t # s => SlotState'[t] = SlotState[t]
    BY <1>5, <1>7 DEF SlotState
  <1>11. SlotState' = [t \in Slot |-> SlotState'[t]] /\ SlotState = [t \in Slot |-> SlotState[t]]
    BY DEF SlotState
  <1>12. SlotState' = [SlotState EXCEPT ![s] = Face(item'[r][g])]
    <2> HIDE DEF SlotState, Face
    <2> QED BY <1>9, <1>10, <1>11
  <1>13. s \in SlotInvoiced' <=> invoices'[r][g] > 0
    BY <1>1, <1>3, <1>4, <1>5, <1>6, <1>8 DEF SlotInvoiced
  <1>14. \A t \in Slot : t # s => (t \in SlotInvoiced' <=> t \in SlotInvoiced)
    BY <1>5, <1>7 DEF SlotInvoiced
  <1>15. SlotInvoiced \subseteq Slot /\ SlotInvoiced' \subseteq Slot
    BY DEF SlotInvoiced
  <1>16. SlotInvoiced' = IF invoices'[r][g] > 0 THEN SlotInvoiced \cup {s}
                         ELSE SlotInvoiced \ {s}
    BY <1>1, <1>13, <1>14, <1>15
  <1> QED BY <1>12, <1>16 DEF s

\* What a step on the row of a slot may do to it.
RowTransition(r, g) ==
    \/ /\ item[r][g] = "approved" /\ item'[r][g] = "in_flight"
       /\ ~(invoices[r][g] > 0) /\ ~(invoices'[r][g] > 0)
    \/ /\ item[r][g] = "in_flight" /\ item'[r][g] = "in_flight"
       /\ ~(invoices[r][g] > 0) /\ invoices'[r][g] > 0
    \/ /\ item[r][g] \in {"in_flight", "created"} /\ item'[r][g] = "created"
       /\ invoices[r][g] > 0 /\ invoices'[r][g] > 0
    \/ /\ item[r][g] = "in_flight" /\ item'[r][g] = "failed"
       /\ ~(invoices[r][g] > 0) /\ ~(invoices'[r][g] > 0)

\* Locking claims, Harvest creates, recording and linking bill, failing
\* releases; recording what was linked meanwhile changes nothing.
LEMMA RowIsSlotStep ==
    ASSUME Inv, OneLiveRow, NEW r \in Run, NEW g \in Group, OnlyRow(r, g),
           runMonth' = runMonth, RowTransition(r, g)
    PROVE  Slots!Next \/ UNCHANGED Slots!vars
  <1>1. CASE runMonth[r] \notin Month
    <2>1. \A s \in Slot : RowsOf(s)' = RowsOf(s) /\ r \notin RowsOf(s) /\ RowsOf(s) \subseteq Run
      BY <1>1 DEF RowsOf, Slot
    <2>2. \A s \in Slot : \A x \in RowsOf(s) :
             item'[x][s[1]] = item[x][s[1]] /\ invoices'[x][s[1]] = invoices[x][s[1]]
      BY <2>1 DEF OnlyRow, Slot
    <2> QED BY <2>1, <2>2 DEF Slots!vars, SlotState, SlotInvoiced
  <1>2. CASE runMonth[r] \in Month
    <2> DEFINE s == <<g, runMonth[r]>>
    <2>1. item[r][g] \in Live
      BY DEF RowTransition, Live, ItemStatus
    <2>2. /\ s \in Slot
          /\ SlotState[s] = Face(item[r][g])
          /\ s \in SlotInvoiced <=> invoices[r][g] > 0
      BY <1>2, <2>1, SlotShowsRow
    <2>3. /\ SlotState' = [SlotState EXCEPT ![s] = Face(item'[r][g])]
          /\ SlotInvoiced' = IF invoices'[r][g] > 0 THEN SlotInvoiced \cup {s}
                             ELSE SlotInvoiced \ {s}
      BY <1>2, <2>1, RowMovesSlot
    <2>4. SlotState = [SlotState EXCEPT ![s] = SlotState[s]]
      BY <2>2 DEF SlotState
    <2> HIDE DEF s
    <2>5. \/ Slots!Claim(s) \/ Slots!Create(s) \/ Slots!Bill(s) \/ Slots!Release(s)
          \/ UNCHANGED Slots!vars
      BY <2>2, <2>3, <2>4 DEF RowTransition, Face, Slots!Claim, Slots!Create, Slots!Bill,
         Slots!Release, Slots!vars
    <2> QED BY <2>2, <2>5 DEF Slots!Next
  <1> QED BY <1>1, <1>2

\* Every step of runs, reviews, clicks and Harvest is a step of the slots.
LEMMA SlotsStep ==
    ASSUME Inv, OneLiveRow, Next
    PROVE  Slots!Next \/ UNCHANGED Slots!vars
  <1> USE DEF Inv, TypeOK, WorkerTyped
  <1>1. ASSUME NEW r \in Run, NEW m \in Month, NEW found \in [Group -> Finding],
               Plan(r, m, found)
        PROVE  UNCHANGED Slots!vars
    <2>1. \A x \in Run \ {r} : runMonth'[x] = runMonth[x]
      BY <1>1 DEF Plan
    <2>2. \A g \in Group : item[r][g] \in Unsent
      BY <1>1 DEF Plan, NoRunNoRow, Unsent
    <2> QED BY <1>1, <2>1, <2>2, PlanIsLedgerStep, LedgerStepKeepsSlots
  <1>2. ASSUME NEW r \in Run, RunReview(r) PROVE UNCHANGED Slots!vars
    <2>1. runMonth' = runMonth
      BY <1>2 DEF RunReview, ApproveAll, ClearApprovals, AbandonCheck, AbandonWrite, CloseCheck,
         CloseCount, CloseWrite, ledger
    <2> QED BY <1>2, <2>1, RunReviewIsLedgerStep, LedgerStepKeepsSlots
  <1>3. ASSUME NEW r \in Run, NEW g \in Group, ReviewOpen(r, g)
        PROVE  UNCHANGED Slots!vars
    <2>1. runMonth' = runMonth
      BY <1>3 DEF ReviewOpen, SetItemApproval, RejectItem, UnrejectItem, SetResolution,
         ClearResolution
    <2> QED BY <1>3, <2>1, ReviewIsLedgerStep, LedgerStepKeepsSlots
  <1>4. ASSUME NEW r \in Run, NEW g \in Group, ResolveWrite(r, g)
        PROVE  Slots!Next \/ UNCHANGED Slots!vars
    <2>1. UNCHANGED <<runMonth, invoices, post>>
      BY <1>4 DEF ResolveWrite, harvest
    <2>2. item[r][g] = "in_flight"
      BY <1>4 DEF ResolveWrite, LocksHold
    <2>3. PICK to \in {"created", "failed"} :
             /\ item' = [item EXCEPT ![r][g] = to]
             /\ to = "created" => invoices[r][g] > 0
             /\ to = "failed" => invoices[r][g] = 0
      <3>1. resolving[r][g].row \in {"created", "failed"}
        BY <1>4 DEF ResolveWrite, Resolution
      <3> QED BY <1>4, <3>1 DEF ResolveWrite, ResolvedRight
    <2>4. RowTransition(r, g) /\ OnlyRow(r, g)
      BY <2>1, <2>2, <2>3 DEF RowTransition, OnlyRow
    <2> QED BY <2>1, <2>4, RowIsSlotStep
  <1>5. ASSUME NEW r \in Run, NEW g \in Group, HarvestCreates(r, g)
        PROVE  Slots!Next \/ UNCHANGED Slots!vars
    <2>1. RowAgrees(r, g)
      BY DEF Agreement, PostMatchesRow
    <2>2. UNCHANGED <<runMonth, item>> /\ invoices'[r][g] = invoices[r][g] + 1
      BY <1>5 DEF HarvestCreates, ledger
    <2>3. RowTransition(r, g)
      BY <1>5, <2>1, <2>2 DEF HarvestCreates, RowAgrees, RowTransition
    <2>4. OnlyRow(r, g)
      BY <1>5, <2>2 DEF HarvestCreates, OnlyRow
    <2> QED BY <2>2, <2>3, <2>4, RowIsSlotStep
  <1>6. ASSUME NEW w \in Worker, NEW g \in Group, TakeLock(w, g)
        PROVE  Slots!Next \/ UNCHANGED Slots!vars
    <2>1. PICK r \in Run : r = at[w]
      BY <1>6 DEF TakeLock
    <2>2. UNCHANGED <<runMonth, invoices, post>> /\ item[r][g] = "approved"
      BY <1>6, <2>1 DEF TakeLock, harvest
    <2>3. item' = [item EXCEPT ![r][g] = "in_flight"]
      BY <1>6, <2>1 DEF TakeLock
    <2>4. ~(invoices[r][g] > 0)
      <3>1. RowAgrees(r, g)
        BY DEF Agreement, PostMatchesRow
      <3>2. invoices[r][g] = 0
        BY <2>2, <3>1 DEF RowAgrees
      <3> QED BY <3>2
    <2> QED BY <2>2, <2>3, <2>4, RowIsSlotStep DEF RowTransition, OnlyRow
  <1>7. ASSUME NEW w \in Worker, RecordCreated(w) \/ RecordFailure(w)
        PROVE  Slots!Next \/ UNCHANGED Slots!vars
    <2>1. PICK r \in Run, g \in Group : r = at[w] /\ g = cur[w]
      BY <1>7 DEF RecordCreated, RecordFailure
    <2>2. RowAgrees(r, g) /\ item[r][g] \in {"in_flight", "created"}
      BY <1>7, <2>1 DEF RecordCreated, RecordFailure, Agreement, PostMatchesRow, WorkerKnows,
         Knows
    <2>3. UNCHANGED <<runMonth, invoices, post>>
      BY <1>7 DEF RecordCreated, RecordFailure, harvest
    <2>4. \/ /\ post[r][g] = "accepted"
             /\ item' = [item EXCEPT ![r][g] = "created"]
          \/ /\ post[r][g] = "refused"
             /\ item' = [item EXCEPT ![r][g] = "failed"]
      BY <1>7, <2>1 DEF RecordCreated, RecordFailure
    <2>5. RowTransition(r, g) /\ OnlyRow(r, g)
      BY <2>2, <2>3, <2>4 DEF RowAgrees, RowTransition, OnlyRow
    <2> QED BY <2>3, <2>5, RowIsSlotStep
  <1>8. ASSUME NEW r \in Run, NEW g \in Group, HarvestRefuses(r, g)
        PROVE  UNCHANGED Slots!vars
    BY <1>8, QuietKeepsSlots DEF HarvestRefuses, ledger
  <1>9. ASSUME NEW w \in Worker,
               \/ \E r \in Run : Start(w, r)
               \/ \E g \in Group : SkipItem(w, g)
               \/ SendPost(w) \/ RecordCreatedRaises(w) \/ RecordUnknown(w)
               \/ FinalizeCount(w) \/ FinalizeWrite(w) \/ Die(w)
        PROVE  UNCHANGED Slots!vars
    BY <1>9, QuietKeepsSlots DEF Start, SkipItem, SendPost, RecordCreatedRaises,
       RecordUnknown, FinalizeCount, FinalizeWrite, Die, ledger, harvest
  <1>10. ASSUME NEW r \in Run, NEW g \in Group, Resolves(r, g) PROVE UNCHANGED Slots!vars
    BY <1>10, QuietKeepsSlots DEF Resolves, ResolveLink, ResolveFailed, Resolve, ledger, harvest
  <1> QED
    BY <1>1, <1>2, <1>3, <1>4, <1>5, <1>6, <1>7, <1>8, <1>9, <1>10, ReviewKinds
       DEF Next, RunReview, Execute

\* The ledger, the clicks and Harvest together implement the abstract slot, as
\* long as nobody marks a row failed while its POST is running.
THEOREM RefinesSlotsCorrect == ASSUME "failed" \in OperatorWaits PROVE Spec => RefinesSlots
  <1>1. Init => Slots!Init
    BY DEF Init, Slots!Init, SlotState, SlotInvoiced, RowsOf, Slot
  <1>2. Inv /\ OneLiveRow /\ [Next]_vars => [Slots!Next]_(Slots!vars)
    <2> SUFFICES ASSUME Inv, OneLiveRow, [Next]_vars PROVE [Slots!Next]_(Slots!vars)
      OBVIOUS
    <2>1. CASE UNCHANGED vars
      BY <2>1, QuietKeepsSlots DEF vars
    <2>2. CASE Next
      BY <2>2, SlotsStep
    <2> QED BY <2>1, <2>2
  <1> QED
    BY <1>1, <1>2, InvInit, InvStep, OneLiveRowCorrect, PTL DEF Spec, RefinesSlots, Slots!Spec

(***************************************************************************)
(* One click on a run at a time.  Nothing in the code enforces it: two     *)
(* clicks may pass the checks of _start one after the other.  What         *)
(* follows is proved of the behaviours in which it is so.                  *)
(***************************************************************************)
OneClick ==
    \A v, w \in Worker : v # w /\ pc[v] # "idle" /\ pc[w] # "idle" => at[v] # at[w]

\* No step but _take_lock's sends a row.
NothingTaken == \A x \in Run, g \in Group : item'[x][g] = "in_flight" => item[x][g] = "in_flight"

\* A click that may take another row has left none in flight, and one that waits
\* for an answer has the only row in flight of its run.
Halts ==
    /\ \A w \in Worker, g \in Group :
          pc[w] = "loop" /\ todo[w] # {} => item[at[w]][g] # "in_flight"
    /\ \A w \in Worker, g \in Group :
          pc[w] \in {"locked", "waiting"} /\ item[at[w]][g] = "in_flight" => g = cur[w]

\* Before anything is planned nothing is sent.
LEMMA HaltsInit == Init => Halts
  BY DEF Init, Halts

\* Where no row is taken and no click moves, a halted run stays halted.
LEMMA NothingTakenKeeps ==
    ASSUME TypeInv, Halts, UNCHANGED <<pc, at, todo, cur>>, NothingTaken
    PROVE  Halts'
  BY DEF TypeInv, WorkerTyped, Halts, NothingTaken

\* A re-plan sends nothing.
LEMMA PlanTakesNothing ==
    ASSUME TypeInv, NEW r \in Run, NEW m \in Month, NEW found \in [Group -> Finding],
           Plan(r, m, found)
    PROVE  NothingTaken
  BY DEF TypeInv, TypeOK, Plan, PlannedRow, Swept, NothingTaken

\* Nor does anybody who reviews a run, closes it or settles a row of it.
LEMMA ReviewTakesNothing ==
    ASSUME TypeInv, NEW r \in Run, RunReview(r) \/ \E g \in Group : Review(r, g)
    PROVE  NothingTaken /\ UNCHANGED worker
  <1> USE DEF TypeInv, TypeOK, NothingTaken
  <1>1. CASE AbandonWrite(r)
    BY <1>1 DEF AbandonWrite
  <1>2. CASE ApproveAll(r)
    BY <1>2 DEF ApproveAll
  <1>3. CASE ClearApprovals(r)
    BY <1>3 DEF ClearApprovals
  <1>8. CASE CloseWrite(r)
    BY <1>8 DEF CloseWrite
  <1>4. CASE AbandonCheck(r) \/ CloseCheck(r) \/ CloseCount(r)
    BY <1>4 DEF AbandonCheck, CloseCheck, CloseCount, ledger
  <1>5. ASSUME NEW g \in Group, ReviewOpen(r, g) PROVE NothingTaken /\ UNCHANGED worker
    <2>1. \E status : status # "in_flight" /\ item' = [item EXCEPT ![r][g] = status]
      BY <1>5 DEF ReviewOpen, SetItemApproval, RejectItem, UnrejectItem, SetResolution,
         ClearResolution
    <2>2. UNCHANGED worker
      BY <1>5 DEF ReviewOpen, SetItemApproval, RejectItem, UnrejectItem, SetResolution,
         ClearResolution
    <2> QED BY <2>1, <2>2
  <1>6. ASSUME NEW g \in Group, Resolves(r, g) PROVE NothingTaken /\ UNCHANGED worker
    BY <1>6 DEF Resolves, ResolveLink, ResolveFailed, Resolve, ledger
  <1>7. ASSUME NEW g \in Group, ResolveWrite(r, g) PROVE NothingTaken /\ UNCHANGED worker
    <2>1. resolving[r][g] \in Resolution
      BY <1>7 DEF ResolveWrite
    <2>2. resolving[r][g].row # "in_flight"
      BY <2>1 DEF Resolution
    <2> QED BY <1>7, <2>2 DEF ResolveWrite
  <1> QED
    BY <1>1, <1>2, <1>3, <1>4, <1>5, <1>6, <1>7, <1>8, ReviewKinds DEF RunReview

\* A click that leaves changes no other click.
LEMMA LeaveAlone ==
    ASSUME TypeInv, NEW w \in Worker, Leave(w)
    PROVE  /\ pc'[w] = "idle"
           /\ \A v \in Worker : v # w =>
                 /\ pc'[v] = pc[v] /\ at'[v] = at[v] /\ todo'[v] = todo[v]
                 /\ cur'[v] = cur[v] /\ derived'[v] = derived[v]
  BY DEF TypeInv, TypeOK, Leave

\* Only a click that has left nothing in flight takes a row; nobody else sends.
LEMMA TakesOnlyAfterAnswer ==
    ASSUME TypeInv, Halts, OneClick, OneClick', [Next]_vars
    PROVE  /\ Halts'
           /\ \/ NothingTaken
              \/ \E w \in Worker, g \in Group : TakeLock(w, g)
  <1> USE DEF TypeInv, TypeOK, WorkerTyped
  <1> DEFINE Goal == Halts' /\ NothingTaken
  <1>1. ASSUME NEW r \in Run, NEW m \in Month, NEW found \in [Group -> Finding],
               Plan(r, m, found)
        PROVE  Goal
    BY <1>1, PlanTakesNothing, NothingTakenKeeps DEF Plan, worker
  <1>2. ASSUME NEW r \in Run, RunReview(r) \/ \E g \in Group : Review(r, g) PROVE Goal
    BY <1>2, ReviewTakesNothing, NothingTakenKeeps DEF worker
  <1>4. ASSUME NEW r \in Run, NEW g \in Group, HarvestCreates(r, g) \/ HarvestRefuses(r, g)
        PROVE  Goal
    BY <1>4 DEF HarvestCreates, HarvestRefuses, ledger, worker, Halts, NothingTaken
  <1>5. ASSUME NEW w \in Worker, NEW r \in Run, Start(w, r) PROVE Goal
    BY <1>5 DEF Start, Halts, NothingTaken
  <1>6. ASSUME NEW w \in Worker, NEW g \in Group, TakeLock(w, g) PROVE Halts'
    <2>1. PICK r \in Run : r = at[w]
      BY <1>6 DEF TakeLock
    <2>2. \A v \in Worker \ {w} : pc[v] # "idle" => at[v] # r
      BY <1>6, <2>1 DEF TakeLock, OneClick
    <2>3. \A h \in Group : item[r][h] # "in_flight"
      BY <1>6, <2>1 DEF TakeLock, Halts
    <2>4. /\ UNCHANGED at
          /\ item' = [item EXCEPT ![r][g] = "in_flight"]
          /\ pc' = [pc EXCEPT ![w] = "locked"] /\ cur' = [cur EXCEPT ![w] = g]
          /\ \A v \in Worker \ {w} : todo'[v] = todo[v]
      BY <1>6, <2>1 DEF TakeLock
    <2>5. \A x \in Run \ {r} : item'[x] = item[x]
      BY <2>4
    <2> QED BY <2>1, <2>2, <2>3, <2>4, <2>5 DEF Halts
  <1>7. ASSUME NEW w \in Worker, RecordCreated(w) \/ RecordFailure(w) PROVE Goal
    <2>1. PICK r \in Run, g \in Group : r = at[w] /\ g = cur[w]
      BY <1>7 DEF RecordCreated, RecordFailure
    <2>2. /\ UNCHANGED at
          /\ pc' = [pc EXCEPT ![w] = "loop"] /\ pc[w] = "waiting"
          /\ \E status \in {"created", "failed"} : item' = [item EXCEPT ![r][g] = status]
          /\ \A v \in Worker \ {w} : todo'[v] = todo[v] /\ cur'[v] = cur[v]
      BY <1>7, <2>1 DEF RecordCreated, RecordFailure, NextItem
    <2>3. NothingTaken
      BY <2>2 DEF NothingTaken
    <2>4. \A h \in Group : item'[r][h] # "in_flight"
      BY <2>1, <2>2 DEF Halts
    <2> QED BY <2>1, <2>2, <2>3, <2>4 DEF Halts, NothingTaken
  <1>8. ASSUME NEW w \in Worker, NEW g \in Group, SkipItem(w, g) PROVE Goal
    BY <1>8 DEF SkipItem, ledger, Halts, NothingTaken
  <1>9. ASSUME NEW w \in Worker, SendPost(w) PROVE Goal
    BY <1>9 DEF SendPost, ledger, Halts, NothingTaken
  <1>10. ASSUME NEW w \in Worker, RecordCreatedRaises(w) \/ Die(w) PROVE Goal
    <2>1. Leave(w) /\ item' = item
      BY <1>10 DEF RecordCreatedRaises, Die, ledger
    <2>2. \A v \in Worker : pc'[v] # "idle" =>
             pc'[v] = pc[v] /\ at'[v] = at[v] /\ cur'[v] = cur[v] /\ todo'[v] = todo[v]
      BY <2>1, LeaveAlone
    <2> HIDE DEF TypeInv, TypeOK, WorkerTyped
    <2>3. Halts'
      BY <2>1, <2>2 DEF Halts
    <2> QED BY <2>1, <2>3 DEF NothingTaken
  <1>11. ASSUME NEW w \in Worker, RecordUnknown(w) PROVE Goal
    BY <1>11 DEF RecordUnknown, NextItem, ledger, Halts, NothingTaken
  <1>12. ASSUME NEW w \in Worker, FinalizeCount(w) PROVE Goal
    BY <1>12 DEF FinalizeCount, ledger, Halts, NothingTaken
  <1>13. ASSUME NEW w \in Worker, FinalizeWrite(w) PROVE Goal
    BY <1>13 DEF FinalizeWrite, Leave, Halts, NothingTaken
  <1>14. CASE UNCHANGED vars
    BY <1>14 DEF vars, Halts, NothingTaken
  <1> QED
    BY <1>1, <1>2, <1>4, <1>5, <1>6, <1>7, <1>8, <1>9, <1>10, <1>11, <1>12, <1>13, <1>14
       DEF Next, Execute, RunReview

\* While a row's outcome is unknown nothing else of its run is sent.
LEMMA HaltedStep ==
    ASSUME TypeInv, Halts, OneClick, OneClick', [Next]_vars,
           NEW r \in Run, NEW g \in Group, NEW h \in Group,
           Unknown(r, g), item'[r][h] = "in_flight"
    PROVE  item[r][h] = "in_flight"
  <1>1. CASE NothingTaken
    BY <1>1 DEF NothingTaken
  <1>2. ASSUME NEW w \in Worker, NEW k \in Group, TakeLock(w, k)
        PROVE  item[r][h] = "in_flight"
    <2>1. at[w] # r
      BY <1>2 DEF TakeLock, Halts, Unknown
    <2> QED BY <1>2, <2>1 DEF TakeLock, TypeInv, TypeOK
  <1> QED BY <1>1, <1>2, TakesOnlyAfterAnswer

\* One unresolvable row does not become a handful: while the outcome of a row is
\* unknown no other row of its run is sent, as long as one click works on a run
\* at a time.
THEOREM HaltedRunDraftsNothingCorrect == Spec /\ []OneClick => HaltedRunDraftsNothing
  <1>1. TypeInv /\ Halts /\ OneClick /\ OneClick' /\ [Next]_vars => Halts'
    BY TakesOnlyAfterAnswer
  <1>2. TypeInv /\ Halts /\ OneClick /\ OneClick' /\ [Next]_vars =>
           [\A r \in Run, g, h \in Group :
               Unknown(r, g) /\ item'[r][h] = "in_flight" => item[r][h] = "in_flight"]_vars
    BY HaltedStep
  <1> QED
    BY <1>1, <1>2, HaltsInit, TypeInit, TypeStep, PTL DEF Spec, HaltedRunDraftsNothing

(***************************************************************************)
(* An abandoned run produced nothing.                                      *)
(***************************************************************************)

\* Something of the run was attempted in Harvest.
Tried(r) == \E g \in Group : item[r][g] \in Attempted

\* A run that is abandoned, or about to be, has nothing attempted; a click that
\* may still take a row works on no such run, nor on one that could become such;
\* and no count about to be written calls a run abandoned.
Thrown ==
    /\ \A r \in Run : runStatus[r] = "abandoned" \/ desk[r] = "abandoning" => ~Tried(r)
    /\ \A w \in Worker : pc[w] \in {"loop", "locked", "waiting"} =>
          /\ runStatus[at[w]] # "abandoned"
          /\ desk[at[w]] # "abandoning"
          /\ runStatus[at[w]] \in ReviewableRun => Tried(at[w])
    /\ \A w \in Worker : pc[w] = "write" => derived[w] # "abandoned"
    /\ \A r \in Run : desk[r] \notin ReviewableRun \cup {"abandoned"}
    /\ \A r \in Run, g \in Group : resolving[r][g] # None => resolving[r][g].run # "abandoned"

\* settle_run_status abandons nothing, and leaves a run open to review only if
\* a row of it is planned.
LEMMA SettleAbandonsNothing ==
    ASSUME NEW row
    PROVE  /\ SettleStatus(row) \notin {"abandoned", "planning"}
           /\ SettleStatus(row) \in ReviewableRun => \E g \in Group : row[g] = "planned"
  BY DEF SettleStatus, ReviewableRun

\* A row enters Harvest by _take_lock alone, and what was attempted stays so.
SameTried == \A x \in Run, g \in Group : item'[x][g] \in Attempted <=> item[x][g] \in Attempted

\* Planning, review and settling by hand attempt nothing.
LEMMA SameTriedReview ==
    ASSUME ReviewTyped,
           \/ \E r \in Run, m \in Month, found \in [Group -> Finding] : Plan(r, m, found)
           \/ \E r \in Run : RunReview(r) \/ \E g \in Group : Review(r, g)
    PROVE  SameTried /\ UNCHANGED worker
  <1> USE DEF ReviewTyped, TypeInv, TypeOK, SameTried, Attempted, ReviewableItem
  <1>1. ASSUME NEW r \in Run, NEW m \in Month, NEW found \in [Group -> Finding],
               Plan(r, m, found)
        PROVE  SameTried /\ UNCHANGED worker
    BY <1>1 DEF Plan, Swept, PlannedRow, ReviewInv, NoRunNoRow
  <1>2. ASSUME NEW r \in Run, RunReview(r) PROVE SameTried /\ UNCHANGED worker
    <2>1. CASE AbandonCheck(r) \/ CloseCheck(r) \/ CloseCount(r)
      BY <2>1 DEF AbandonCheck, CloseCheck, CloseCount, ledger
    <2>2. CASE AbandonWrite(r)
      BY <2>2 DEF AbandonWrite
    <2>3. CASE ApproveAll(r)
      BY <2>3 DEF ApproveAll
    <2>4. CASE ClearApprovals(r)
      BY <2>4 DEF ClearApprovals
    <2>5. CASE CloseWrite(r)
      BY <2>5 DEF CloseWrite, LocksHold
    <2> QED BY <1>2, <2>1, <2>2, <2>3, <2>4, <2>5 DEF RunReview
  <1>3. ASSUME NEW r \in Run, NEW g \in Group, ReviewOpen(r, g)
        PROVE  SameTried /\ UNCHANGED worker
    <2>1. item[r][g] \notin Attempted
      BY <1>3 DEF ReviewOpen, SetItemApproval, RejectItem, UnrejectItem, SetResolution,
         ClearResolution, PlaceholderEditable
    <2>2. \E status : status \notin Attempted /\ item' = [item EXCEPT ![r][g] = status]
      BY <1>3 DEF ReviewOpen, SetItemApproval, RejectItem, UnrejectItem, SetResolution,
         ClearResolution
    <2>3. UNCHANGED worker
      BY <1>3 DEF ReviewOpen, SetItemApproval, RejectItem, UnrejectItem, SetResolution,
         ClearResolution
    <2> QED BY <2>1, <2>2, <2>3
  <1>4. ASSUME NEW r \in Run, NEW g \in Group, Resolves(r, g)
        PROVE  SameTried /\ UNCHANGED worker
    BY <1>4 DEF Resolves, ResolveLink, ResolveFailed, Resolve, ledger
  <1>5. ASSUME NEW r \in Run, NEW g \in Group, ResolveWrite(r, g)
        PROVE  SameTried /\ UNCHANGED worker
    <2>1. resolving[r][g] \in Resolution /\ item[r][g] = "in_flight"
      BY <1>5 DEF ResolveWrite, LocksHold
    <2>2. resolving[r][g].row \in Attempted
      BY <2>1 DEF Resolution
    <2> QED BY <1>5, <2>1, <2>2 DEF ResolveWrite
  <1> QED BY <1>1, <1>2, <1>3, <1>4, <1>5, ReviewKinds

\* What planning and review may do to the statuses and transactions of a run
\* without breaking the invariant.
ThrownFine(x) ==
    /\ runStatus'[x] = "abandoned" \/ desk'[x] = "abandoning" =>
          \/ runStatus[x] = "abandoned" \/ desk[x] = "abandoning"
          \/ runStatus[x] \in ReviewableRun /\ ~Tried(x)
    /\ runStatus'[x] \in ReviewableRun =>
          runStatus[x] \in ReviewableRun \cup {"none"} \/ Tried(x)
    /\ desk'[x] \notin ReviewableRun \cup {"abandoned"}
    /\ \A g \in Group : resolving'[x][g] # None => resolving'[x][g].run # "abandoned"

\* Where every run is treated so, the invariant stays.
LEMMA ThrownFineKeeps ==
    ASSUME ReviewTyped, Thrown, SameTried, UNCHANGED worker, \A x \in Run : ThrownFine(x)
    PROVE  Thrown'
  <1>1. \A x \in Run : Tried(x)' <=> Tried(x)
    BY DEF SameTried, Tried
  <1>2. ASSUME NEW x \in Run, runStatus'[x] = "abandoned" \/ desk'[x] = "abandoning"
        PROVE  ~Tried(x)
    BY <1>2 DEF Thrown, ThrownFine
  <1>3. ASSUME NEW w \in Worker, pc[w] \in {"loop", "locked", "waiting"}
        PROVE  /\ runStatus'[at[w]] # "abandoned"
               /\ desk'[at[w]] # "abandoning"
               /\ runStatus'[at[w]] \in ReviewableRun => Tried(at[w])
    <2>1. at[w] \in Run /\ runStatus[at[w]] # "none"
      BY <1>3 DEF ReviewTyped, TypeInv, WorkerTyped, ClickOnRun
    <2> QED BY <1>3, <2>1 DEF Thrown, ThrownFine
  <1>4. UNCHANGED <<pc, at, derived>>
    BY DEF worker
  <1>5. \A w \in Worker : pc[w] # "idle" => at[w] \in Run
    BY DEF ReviewTyped, TypeInv, WorkerTyped
  <1> QED BY <1>1, <1>2, <1>3, <1>4, <1>5 DEF Thrown, ThrownFine

\* A run nobody writes to is one of those.
LEMMA ThrownSame ==
    ASSUME Thrown, NEW x \in Run, runStatus'[x] = runStatus[x], desk'[x] = desk[x],
           \A g \in Group : resolving'[x][g] # None => resolving'[x][g] = resolving[x][g]
    PROVE  ThrownFine(x)
  BY DEF Thrown, ThrownFine

\* Planning throws away what attempted nothing, and review leaves that to it and
\* to abandon_run, which looked.
LEMMA ThrownReview ==
    ASSUME ReviewTyped, Thrown,
           \/ \E r \in Run, m \in Month, found \in [Group -> Finding] : Plan(r, m, found)
           \/ \E r \in Run : RunReview(r) \/ \E g \in Group : Review(r, g)
    PROVE  Thrown'
  <1> USE DEF ReviewTyped, TypeInv, TypeOK
  <1>1. ASSUME NEW r \in Run, NEW m \in Month, NEW found \in [Group -> Finding],
               Plan(r, m, found), NEW x \in Run
        PROVE  ThrownFine(x)
    <2>1. desk' = desk /\ resolving' = resolving
      BY <1>1 DEF Plan, open
    <2>2. CASE x = r
      BY <1>1, <2>1, <2>2 DEF Plan, Thrown, ThrownFine
    <2>3. CASE x # r /\ Swept(x, m) = item[x]
      BY <1>1, <2>1, <2>3, ThrownSame DEF Plan, SweptStatus
    <2>4. CASE x # r /\ Swept(x, m) # item[x]
      <3>1. runStatus'[x] = SweptStatus(x, m)
        BY <1>1, <2>4 DEF Plan
      <3>2. \A g \in Group : Swept(x, m)[g] # "planned"
        BY <2>4 DEF Swept, ReviewableItem
      <3>3. CASE SweptStatus(x, m) = SettleStatus(Swept(x, m))
        <4>1. runStatus'[x] \notin ReviewableRun \cup {"abandoned"}
          BY <3>1, <3>2, <3>3, SettleAbandonsNothing
        <4> QED BY <2>1, <4>1 DEF Thrown, ThrownFine
      <3>4. CASE /\ SweptStatus(x, m) = "abandoned"
                 /\ runStatus[x] \in ReviewableRun /\ ~Tried(x)
        BY <2>1, <3>1, <3>4 DEF Thrown, ThrownFine, ReviewableRun
      <3> QED BY <2>4, <3>3, <3>4 DEF SweptStatus, Tried, ReviewableRun
    <2> QED BY <2>2, <2>3, <2>4
  <1>2. ASSUME NEW r \in Run, RunReview(r), NEW x \in Run PROVE ThrownFine(x)
    <2>1. CASE x # r
      <3>1. runStatus'[x] = runStatus[x] /\ desk'[x] = desk[x] /\ resolving' = resolving
        BY <1>2, <2>1 DEF RunReview, AbandonCheck, AbandonWrite, ApproveAll, ClearApprovals,
           CloseCheck, CloseCount, CloseWrite, ledger, open
      <3> QED BY <3>1, ThrownSame
    <2>2. CASE x = r /\ AbandonCheck(r)
      <3>1. runStatus[r] \in ReviewableRun /\ ~Tried(r)
        BY <2>2 DEF AbandonCheck, Tried, ReviewableRun
      <3>2. runStatus' = runStatus /\ desk'[r] = "abandoning" /\ resolving' = resolving
        BY <2>2 DEF AbandonCheck, ledger
      <3> QED BY <2>2, <3>1, <3>2 DEF Thrown, ThrownFine, ReviewableRun
    <2>3. CASE x = r /\ AbandonWrite(r)
      <3>1. desk[r] = "abandoning" /\ runStatus'[r] = "abandoned" /\ desk'[r] = "free"
            /\ resolving' = resolving
        BY <2>3 DEF AbandonWrite
      <3> QED BY <2>3, <3>1 DEF Thrown, ThrownFine, ReviewableRun
    <2>4. CASE x = r /\ (ApproveAll(r) \/ ClearApprovals(r))
      <3>1. runStatus' = runStatus /\ desk' = desk /\ resolving' = resolving
        BY <2>4 DEF ApproveAll, ClearApprovals, open
      <3> QED BY <3>1, ThrownSame
    <2>5. CASE x = r /\ CloseCheck(r)
      <3>1. runStatus' = runStatus /\ desk'[r] = "closing" /\ resolving' = resolving
        BY <2>5 DEF CloseCheck, ledger
      <3> QED BY <2>5, <3>1 DEF Thrown, ThrownFine, ReviewableRun
    <2>6. CASE x = r /\ CloseCount(r)
      <3> DEFINE rest == {g \in Group : item[r][g] \in ReviewableItem}
                 left == [g \in Group |-> IF g \in rest THEN "skipped" ELSE item[r][g]]
      <3>1. runStatus' = runStatus /\ desk'[r] = SettleStatus(left) /\ resolving' = resolving
        BY <2>6 DEF CloseCount, ledger
      <3>2. \A g \in Group : left[g] # "planned"
        BY DEF ReviewableItem
      <3> HIDE DEF left
      <3>3. desk'[r] \notin ReviewableRun \cup {"abandoned", "abandoning"}
        BY <3>1, <3>2, SettleAbandonsNothing, SettleStatusType DEF RunStatus
      <3> QED BY <2>6, <3>1, <3>3 DEF Thrown, ThrownFine
    <2>7. CASE x = r /\ CloseWrite(r)
      <3>1. runStatus'[r] = desk[r] /\ desk'[r] = "free" /\ resolving' = resolving
        BY <2>7 DEF CloseWrite
      <3> QED BY <2>7, <3>1 DEF Thrown, ThrownFine, ReviewableRun
    <2> QED BY <1>2, <2>1, <2>2, <2>3, <2>4, <2>5, <2>6, <2>7 DEF RunReview
  <1>3. ASSUME NEW r \in Run, NEW g \in Group, ReviewOpen(r, g), NEW x \in Run
        PROVE  ThrownFine(x)
    <2>1. runStatus' = runStatus /\ desk' = desk /\ resolving' = resolving
      BY <1>3 DEF ReviewOpen, SetItemApproval, RejectItem, UnrejectItem, SetResolution,
         ClearResolution, open
    <2> QED BY <2>1, ThrownSame
  <1>4. ASSUME NEW r \in Run, NEW g \in Group, Resolves(r, g), NEW x \in Run
        PROVE  ThrownFine(x)
    <2>1. runStatus' = runStatus /\ desk' = desk
      BY <1>4 DEF Resolves, ResolveLink, ResolveFailed, Resolve, ledger
    <2>2. PICK outcome : Resolve(r, g, outcome)
      BY <1>4 DEF Resolves, ResolveLink, ResolveFailed
    <2>3. \A h \in Group : x # r \/ h # g => resolving'[x][h] = resolving[x][h]
      BY <2>2 DEF Resolve
    <2>4. resolving'[r][g].run = SettleStatus([item[r] EXCEPT ![g] = outcome])
      BY <2>2 DEF Resolve
    <2>5. ASSUME NEW h \in Group, resolving'[x][h] # None
          PROVE  resolving'[x][h].run # "abandoned"
      <3>1. CASE x = r /\ h = g
        BY <2>4, <3>1, SettleAbandonsNothing
      <3>2. CASE x # r \/ h # g
        BY <2>3, <2>5, <3>2 DEF Thrown
      <3> QED BY <3>1, <3>2
    <2> QED BY <2>1, <2>5 DEF Thrown, ThrownFine
  <1>5. ASSUME NEW r \in Run, NEW g \in Group, ResolveWrite(r, g), NEW x \in Run
        PROVE  ThrownFine(x)
    <2>1. desk' = desk /\ \A h \in Group : resolving'[x][h] # None =>
                             resolving'[x][h] = resolving[x][h]
      BY <1>5 DEF ResolveWrite
    <2>2. CASE x # r
      <3>1. runStatus'[x] = runStatus[x]
        BY <1>5, <2>2 DEF ResolveWrite
      <3> QED BY <2>1, <3>1, ThrownSame
    <2>3. CASE x = r
      <3>1. runStatus'[r] = resolving[r][g].run /\ runStatus'[r] # "abandoned"
        BY <1>5 DEF ResolveWrite, Thrown
      <3>2. Tried(r)
        BY <1>5 DEF ResolveWrite, LocksHold, Tried, Attempted
      <3> QED BY <2>1, <2>3, <3>1, <3>2 DEF Thrown, ThrownFine
    <2> QED BY <2>2, <2>3
  <1> HIDE DEF ReviewTyped, TypeInv, TypeOK
  <1> QED
    BY <1>1, <1>2, <1>3, <1>4, <1>5, SameTriedReview, ThrownFineKeeps, ReviewKinds

\* A click takes rows of a run that nobody can have thrown away, and writes a
\* status of its own when it is alone there.
LEMMA ThrownClick ==
    ASSUME ReviewTyped, Thrown, OneClick, OneClick', NEW w \in Worker,
           Execute(w) \/ Die(w) \/ \E r \in Run : Start(w, r)
    PROVE  Thrown'
  <1> USE DEF ReviewTyped, TypeInv, TypeOK, WorkerTyped
  <1>1. ASSUME UNCHANGED <<runStatus, desk, resolving, at>>, SameTried,
               \A v \in Worker :
                  /\ pc'[v] \in {"loop", "locked", "waiting"} =>
                        pc[v] \in {"loop", "locked", "waiting"}
                  /\ pc'[v] = "write" => derived'[v] # "abandoned"
        PROVE  Thrown'
    <2>1. \A x \in Run : Tried(x)' <=> Tried(x)
      BY <1>1 DEF SameTried, Tried
    <2>2. \A v \in Worker : pc[v] # "idle" => at[v] \in Run
      OBVIOUS
    <2> HIDE DEF ReviewTyped, TypeInv, TypeOK, WorkerTyped
    <2> QED BY <1>1, <2>1, <2>2 DEF Thrown
  <1>2. ASSUME Leave(w), UNCHANGED <<desk, resolving, item>>,
               \A v \in Worker \ {w} : pc[v] # "idle" => runStatus'[at[v]] = runStatus[at[v]],
               \A x \in Run : /\ runStatus'[x] = "abandoned" => runStatus[x] = "abandoned"
        PROVE  Thrown'
    <2>1. \A v \in Worker : pc'[v] # "idle" =>
             /\ v # w /\ pc'[v] = pc[v] /\ at'[v] = at[v] /\ derived'[v] = derived[v]
      BY <1>2, LeaveAlone
    <2>2. \A x \in Run : Tried(x)' <=> Tried(x)
      BY <1>2 DEF Tried
    <2>3. \A v \in Worker : pc[v] # "idle" => at[v] \in Run
      OBVIOUS
    <2> HIDE DEF ReviewTyped, TypeInv, TypeOK, WorkerTyped
    <2>4. \A v \in Worker : pc'[v] \in {"loop", "locked", "waiting"} =>
             /\ runStatus'[at'[v]] # "abandoned"
             /\ desk'[at'[v]] # "abandoning"
             /\ runStatus'[at'[v]] \in ReviewableRun => Tried(at[v])'
      BY <1>2, <2>1, <2>2, <2>3 DEF Thrown
    <2> QED BY <1>2, <2>1, <2>2, <2>4 DEF Thrown
  <1>3. ASSUME NEW g \in Group, TakeLock(w, g) PROVE Thrown'
    <2>1. PICK r \in Run : r = at[w]
      BY <1>3 DEF TakeLock
    <2>2. runStatus[r] # "abandoned" /\ desk[r] # "abandoning"
      BY <1>3, <2>1 DEF TakeLock, Thrown
    <2>3. /\ UNCHANGED <<runStatus, desk, resolving, at, derived>>
          /\ item' = [item EXCEPT ![r][g] = "in_flight"]
          /\ pc' = [pc EXCEPT ![w] = "locked"] /\ pc[w] = "loop"
      BY <1>3, <2>1 DEF TakeLock, open
    <2>4. /\ \A x \in Run \ {r} : Tried(x)' <=> Tried(x)
          /\ Tried(r)'
      BY <2>3 DEF Tried, Attempted
    <2>5. \A v \in Worker :
             /\ pc'[v] \in {"loop", "locked", "waiting"} =>
                   pc[v] \in {"loop", "locked", "waiting"} /\ at[v] \in Run
             /\ pc'[v] = "write" => pc[v] = "write"
      BY <2>3
    <2> HIDE DEF ReviewTyped, TypeInv, TypeOK, WorkerTyped
    <2> QED BY <2>2, <2>3, <2>4, <2>5 DEF Thrown
  <1>4. ASSUME RecordCreated(w) \/ RecordFailure(w) PROVE Thrown'
    <2>1. PICK r \in Run, g \in Group : r = at[w] /\ g = cur[w]
      BY <1>4 DEF RecordCreated, RecordFailure
    <2>2. item[r][g] \in Attempted
      BY <1>4, <2>1 DEF RecordCreated, RecordFailure, ReviewInv, HeldAttempted, Holds
    <2>3. /\ UNCHANGED <<runStatus, desk, resolving, at, derived>>
          /\ pc' = [pc EXCEPT ![w] = "loop"] /\ pc[w] = "waiting"
          /\ \E status \in Attempted : item' = [item EXCEPT ![r][g] = status]
      BY <1>4, <2>1 DEF RecordCreated, RecordFailure, NextItem, open, Attempted
    <2>4. SameTried
      BY <2>2, <2>3 DEF SameTried
    <2>5. \A v \in Worker : pc'[v] = "write" => derived'[v] # "abandoned"
      BY <2>3 DEF Thrown
    <2>6. \A v \in Worker : pc'[v] \in {"loop", "locked", "waiting"} =>
             pc[v] \in {"loop", "locked", "waiting"}
      BY <2>3
    <2> QED BY <1>1, <2>3, <2>4, <2>5, <2>6
  <1>5. ASSUME \/ \E g \in Group : SkipItem(w, g)
               \/ SendPost(w) \/ RecordUnknown(w)
        PROVE  Thrown'
    <2>1. /\ UNCHANGED <<runStatus, desk, resolving, at, derived, item>>
          /\ \A v \in Worker : pc'[v] \in {"loop", "locked", "waiting"} \/ pc'[v] = pc[v]
          /\ pc[w] \in {"loop", "locked", "waiting"}
          /\ \A v \in Worker \ {w} : pc'[v] = pc[v]
      BY <1>5 DEF SkipItem, SendPost, RecordUnknown, NextItem, ledger, open
    <2>2. \A v \in Worker : pc'[v] = "write" => derived'[v] # "abandoned"
      BY <2>1 DEF Thrown
    <2>3. \A v \in Worker : pc'[v] \in {"loop", "locked", "waiting"} =>
             pc[v] \in {"loop", "locked", "waiting"}
      BY <2>1
    <2>4. SameTried
      BY <2>1 DEF SameTried
    <2> QED BY <1>1, <2>1, <2>2, <2>3, <2>4
  <1>6. ASSUME RecordCreatedRaises(w) \/ Die(w) PROVE Thrown'
    BY <1>2, <1>6 DEF RecordCreatedRaises, Die, ledger, open
  <1>7. ASSUME FinalizeCount(w) PROVE Thrown'
    <2>1. /\ UNCHANGED <<runStatus, desk, resolving, at, item>>
          /\ pc' = [pc EXCEPT ![w] = "write"]
          /\ derived'[w] # "abandoned" /\ \A v \in Worker \ {w} : derived'[v] = derived[v]
      BY <1>7, SettleAbandonsNothing DEF FinalizeCount, ledger, open
    <2>2. \A v \in Worker :
             /\ pc'[v] = "write" => derived'[v] # "abandoned"
             /\ pc'[v] \in {"loop", "locked", "waiting"} =>
                   pc[v] \in {"loop", "locked", "waiting"}
      BY <2>1 DEF Thrown
    <2>3. SameTried
      BY <2>1 DEF SameTried
    <2> QED BY <1>1, <2>1, <2>2, <2>3
  <1>8. ASSUME FinalizeWrite(w) PROVE Thrown'
    <2>1. PICK r \in Run : r = at[w]
      BY <1>8 DEF FinalizeWrite
    <2>2. /\ Leave(w) /\ UNCHANGED <<desk, resolving, item>>
          /\ \A x \in Run \ {r} : runStatus'[x] = runStatus[x]
          /\ runStatus'[r] = derived[w] /\ pc[w] = "write"
      BY <1>8, <2>1 DEF FinalizeWrite, open
    <2>3. runStatus'[r] # "abandoned"
      BY <2>2 DEF Thrown
    <2>4. \A v \in Worker \ {w} : pc[v] # "idle" => at[v] \in Run \ {r}
      BY <2>1, <2>2 DEF OneClick
    <2> QED BY <1>2, <2>2, <2>3, <2>4
  <1>9. ASSUME NEW r \in Run, Start(w, r) PROVE Thrown'
    <2>1. /\ UNCHANGED <<desk, resolving, item, derived>>
          /\ runStatus' = [runStatus EXCEPT ![r] = "executing"]
          /\ pc' = [pc EXCEPT ![w] = "loop"] /\ at' = [at EXCEPT ![w] = r]
          /\ desk[r] = "free"
      BY <1>9 DEF Start, open
    <2>2. \A x \in Run : Tried(x)' <=> Tried(x)
      BY <2>1 DEF Tried
    <2>3. \A v \in Worker : pc[v] # "idle" => at[v] \in Run
      OBVIOUS
    <2>4. /\ pc'[w] = "loop" /\ at'[w] = r
          /\ \A v \in Worker \ {w} : pc'[v] = pc[v] /\ at'[v] = at[v]
          /\ \A x \in Run : runStatus'[x] = IF x = r THEN "executing" ELSE runStatus[x]
      BY <2>1
    <2> HIDE DEF ReviewTyped, TypeInv, TypeOK, WorkerTyped
    <2>5. \A v \in Worker : pc'[v] \in {"loop", "locked", "waiting"} =>
             /\ runStatus'[at'[v]] # "abandoned"
             /\ desk'[at'[v]] # "abandoning"
             /\ runStatus'[at'[v]] \in ReviewableRun => Tried(at[v])'
      BY <2>1, <2>2, <2>3, <2>4 DEF Thrown, ReviewableRun
    <2> QED BY <2>1, <2>2, <2>4, <2>5 DEF Thrown
  <1> QED
    BY <1>3, <1>4, <1>5, <1>6, <1>7, <1>8, <1>9 DEF Execute

\* The invariant behind AbandonedDraftedNothing is inductive.
LEMMA ThrownStep ==
    ReviewTyped /\ Thrown /\ OneClick /\ OneClick' /\ [Next]_vars => Thrown'
  <1> SUFFICES ASSUME ReviewTyped, Thrown, OneClick, OneClick', [Next]_vars
               PROVE  Thrown'
    OBVIOUS
  <1>1. ASSUME UNCHANGED <<ledger, worker, open>> PROVE Thrown'
    BY <1>1 DEF ledger, worker, open, Thrown, Tried
  <1>2. ASSUME NEW r \in Run, NEW g \in Group, HarvestCreates(r, g) \/ HarvestRefuses(r, g)
        PROVE  Thrown'
    BY <1>1, <1>2 DEF HarvestCreates, HarvestRefuses
  <1>3. CASE UNCHANGED vars
    BY <1>1, <1>3 DEF vars, ledger, worker, open
  <1> QED BY <1>2, <1>3, ThrownReview, ThrownClick DEF Next, RunReview

\* A run that reads as abandoned never attempted a row in Harvest, as long as
\* one click works on a run at a time: abandon_run looks for attempted rows
\* before it updates, and re-plans, closings, resolutions and late decisions
\* may come in between.
THEOREM AbandonedDraftedNothingCorrect ==
    Spec /\ []OneClick => []AbandonedDraftedNothing
  <1>1. Init => Thrown
    BY DEF Init, Thrown, Tried, Attempted, ReviewableRun
  <1>2. Thrown => AbandonedDraftedNothing
    BY DEF Thrown, Tried, AbandonedDraftedNothing
  <1> QED BY <1>1, <1>2, ThrownStep, ReviewTypedInit, ReviewTypedStep, PTL DEF Spec

(***************************************************************************)
(* A run that is over has nothing unaccounted for.                         *)
(***************************************************************************)
Over == {"completed", "failed", "abandoned"}

\* A click that still has rows to take.
Busy(w) == pc[w] \in {"loop", "locked", "waiting"} /\ todo[w] # {}

\* A run that is over, or counted as over by a transaction yet to commit, has no
\* row in flight, but for the row that transaction settles.
Tidy(r) ==
    /\ runStatus[r] \in Over \/ desk[r] \in Over => \A g \in Group : item[r][g] # "in_flight"
    /\ \A g, h \in Group :
          resolving[r][g] # None /\ resolving[r][g].run \in Over /\ h # g
          => item[r][h] # "in_flight"

\* A run in which a click may take no row that would contradict its status: if
\* it is over, or about to be, no row is approved.
Calm(r) ==
    /\ runStatus[r] \notin ReviewableRun
    /\ runStatus[r] \in Over => \A g \in Group : item[r][g] # "approved"
    /\ desk[r] \in Over => \A g \in Group \ closing[r] : item[r][g] # "approved"
    /\ \A g \in Group : resolving[r][g] = None

Accounted ==
    /\ \A r \in Run : Tidy(r)
    /\ \A w \in Worker : Busy(w) => Calm(at[w])
    /\ \A w \in Worker, g \in Group :
          pc[w] = "write" /\ derived[w] \in Over => item[at[w]][g] # "in_flight"

\* settle_run_status calls a run over only if none of its rows is sent or
\* waits to be.
LEMMA SettleOver ==
    ASSUME NEW row, SettleStatus(row) \in Over, NEW g \in Group
    PROVE  row[g] \notin {"in_flight", "approved"}
  BY DEF SettleStatus, Over

\* A step that writes nothing to a run.
Untouched(x) ==
    /\ runStatus'[x] = runStatus[x] /\ item'[x] = item[x]
    /\ desk'[x] = desk[x] /\ closing'[x] = closing[x] /\ resolving'[x] = resolving[x]

\* It leaves the run as it was.
LEMMA UntouchedSame ==
    ASSUME NEW x \in Run, Untouched(x) PROVE (Tidy(x)' <=> Tidy(x)) /\ (Calm(x)' <=> Calm(x))
  BY DEF Untouched, Tidy, Calm

\* A step that no click takes, that sends nothing and that keeps every run fit.
LEMMA BystanderKeeps ==
    ASSUME TypeInv, Accounted, UNCHANGED worker, NothingTaken,
           \A x \in Run : Tidy(x)',
           \A w \in Worker : Busy(w) => Calm(at[w])'
    PROVE  Accounted'
  <1>1. UNCHANGED <<pc, at, todo, derived>>
    BY DEF worker
  <1>2. \A w \in Worker : pc[w] # "idle" => at[w] \in Run
    BY DEF TypeInv, WorkerTyped
  <1> QED BY <1>1, <1>2 DEF Accounted, NothingTaken, Busy

\* The same of a step that writes to one run.
LEMMA BystanderAt ==
    ASSUME TypeInv, Accounted, UNCHANGED worker, NothingTaken, NEW r \in Run,
           \A x \in Run \ {r} : Untouched(x),
           Tidy(r)',
           \A w \in Worker : Busy(w) /\ at[w] = r => Calm(r)'
    PROVE  Accounted'
  <1>1. \A x \in Run : Tidy(x)'
    BY UntouchedSame DEF Accounted
  <1>2. ASSUME NEW w \in Worker, Busy(w) PROVE Calm(at[w])'
    <2>1. at[w] \in Run /\ at'[w] = at[w]
      BY <1>2 DEF TypeInv, WorkerTyped, Busy, worker
    <2>2. CASE at[w] = r
      BY <1>2, <2>1, <2>2
    <2>3. CASE at[w] # r
      <3>1. PICK x \in Run \ {r} : x = at[w]
        BY <2>1, <2>3
      <3>2. Calm(x)'
        BY <1>2, <3>1, UntouchedSame DEF Accounted
      <3> QED BY <2>1, <3>1, <3>2
    <2> QED BY <2>2, <2>3
  <1> QED BY <1>1, <1>2, BystanderKeeps

\* A re-plan settles the runs it takes rows from, and leaves their rows closed.
LEMMA AccountedPlan ==
    ASSUME ReviewTyped, Thrown, Accounted, NEW r \in Run, NEW m \in Month,
           NEW found \in [Group -> Finding], Plan(r, m, found)
    PROVE  Accounted'
  <1> USE DEF ReviewTyped, TypeInv, TypeOK
  <1>1. UNCHANGED worker /\ UNCHANGED <<desk, closing, resolving>>
    BY DEF Plan, open
  <1>2. NothingTaken
    BY PlanTakesNothing
  <1>3. ASSUME NEW x \in Run, x # r, Swept(x, m) # item[x]
        PROVE  /\ runStatus'[x] \in Over => \A g \in Group : item'[x][g] # "in_flight"
               /\ runStatus'[x] \in ReviewableRun \cup {"abandoned"} =>
                     runStatus[x] \in ReviewableRun /\ ~Tried(x)
               /\ \A g \in Group : item'[x][g] # "approved"
               /\ desk[x] = "free"
    <2>1. /\ runStatus'[x] = SweptStatus(x, m)
          /\ item'[x] = Swept(x, m)
          /\ desk[x] = "free"
      BY <1>3 DEF Plan
    <2>2. \A g \in Group : item'[x][g] \notin {"planned", "approved"}
      BY <1>3, <2>1 DEF Swept, ReviewableItem
    <2>3. CASE SweptStatus(x, m) = SettleStatus(item'[x])
      <3> DEFINE row == item'[x]
      <3>1. runStatus'[x] = SettleStatus(row) /\ \A g \in Group : row[g] # "planned"
        BY <2>1, <2>2, <2>3
      <3> HIDE DEF row
      <3>2. runStatus'[x] \notin ReviewableRun \cup {"abandoned"}
        BY <3>1, SettleAbandonsNothing
      <3>3. runStatus'[x] \in Over => \A g \in Group : row[g] # "in_flight"
        BY <3>1, SettleOver
      <3> QED BY <2>1, <2>2, <3>2, <3>3 DEF row
    <2>4. CASE runStatus[x] \in ReviewableRun /\ ~Tried(x)
      <3>1. \A g \in Group : item'[x][g] # "in_flight"
        BY <2>1, <2>4 DEF Swept, Tried, Attempted
      <3> QED BY <2>1, <2>2, <2>4, <3>1
    <2> QED BY <1>3, <2>1, <2>3, <2>4 DEF SweptStatus, Tried, ReviewableRun
  <1>4. \A x \in Run \ {r} : Swept(x, m) = item[x] => Untouched(x)
    BY <1>1 DEF Plan, SweptStatus, Untouched
  <1>5. ASSUME NEW x \in Run PROVE Tidy(x)'
    <2>1. CASE x = r
      <3>1. \A g \in Group : item'[x][g] # "in_flight"
        BY <2>1 DEF Plan, PlannedRow
      <3> QED BY <3>1 DEF Tidy
    <2>2. CASE x # r /\ Swept(x, m) = item[x]
      BY <1>4, <2>2, UntouchedSame DEF Accounted
    <2>3. CASE x # r /\ Swept(x, m) # item[x]
      <3>1. Tidy(x)
        BY DEF Accounted
      <3> HIDE DEF ReviewTyped, TypeInv, TypeOK
      <3>2. desk'[x] \notin Over
        BY <1>1, <1>3, <2>3 DEF Over
      <3>3. runStatus'[x] \in Over => \A g \in Group : item'[x][g] # "in_flight"
        BY <1>3, <2>3
      <3> QED BY <1>1, <1>2, <3>1, <3>2, <3>3 DEF Tidy, NothingTaken
    <2> QED BY <2>1, <2>2, <2>3
  <1>6. ASSUME NEW w \in Worker, Busy(w) PROVE Calm(at[w])'
    <2>1. PICK x \in Run : x = at[w]
      BY <1>6 DEF WorkerTyped, Busy
    <2>2. Calm(x) /\ runStatus[x] # "none" /\ at'[w] = x
      BY <1>1, <1>6, <2>1 DEF Accounted, ClickOnRun, Busy, worker
    <2>3. x # r
      BY <2>2 DEF Plan
    <2>4. CASE Swept(x, m) = item[x]
      BY <1>4, <2>1, <2>2, <2>3, <2>4, UntouchedSame
    <2>5. CASE Swept(x, m) # item[x]
      <3>1. runStatus'[x] \notin ReviewableRun
        BY <1>3, <2>2, <2>3, <2>5 DEF Calm
      <3>2. Calm(x)'
        BY <1>1, <1>3, <2>2, <2>3, <2>5, <3>1 DEF Calm, Over
      <3> QED BY <2>1, <2>2, <3>2
    <2> QED BY <2>4, <2>5
  <1> HIDE DEF ReviewTyped, TypeOK
  <1> QED BY <1>1, <1>2, <1>5, <1>6, BystanderKeeps DEF ReviewTyped

\* Throwing away, closing and approving a run as a whole.
LEMMA AccountedRunReview ==
    ASSUME ReviewTyped, Thrown, Accounted, NEW r \in Run, RunReview(r)
    PROVE  Accounted'
  <1> USE DEF ReviewTyped, TypeInv, TypeOK
  <1>1. NothingTaken /\ UNCHANGED worker
    BY ReviewTakesNothing
  <1>2. \A x \in Run \ {r} : Untouched(x)
    BY DEF RunReview, AbandonCheck, AbandonWrite, ApproveAll, ClearApprovals, CloseCheck,
       CloseCount, CloseWrite, ledger, open, Untouched
  <1>3. Tidy(r) /\ (\A w \in Worker : Busy(w) /\ at[w] = r => Calm(r))
    BY DEF Accounted
  <1>4. ASSUME Tidy(r)', \A w \in Worker : Busy(w) /\ at[w] = r => Calm(r)' PROVE Accounted'
    BY <1>1, <1>2, <1>4, BystanderAt
  <1>5. CASE AbandonCheck(r) \/ CloseCheck(r)
    <2>1. UNCHANGED <<runStatus, item, closing, resolving>> /\ desk'[r] \notin Over
      BY <1>5 DEF AbandonCheck, CloseCheck, ledger, Over
    <2> QED BY <1>3, <1>4, <2>1 DEF Tidy, Calm
  <1>6. CASE AbandonWrite(r)
    <2>1. ~Tried(r) /\ desk[r] = "abandoning"
      BY <1>6 DEF Thrown, AbandonWrite
    <2>2. \A g \in Group : item'[r][g] # "in_flight"
      BY <1>6, <2>1 DEF AbandonWrite, Tried, Attempted
    <2>3. \A w \in Worker : ~(Busy(w) /\ at[w] = r)
      BY <2>1 DEF Thrown, Busy
    <2> QED BY <1>4, <2>2, <2>3 DEF Tidy
  <1>7. CASE ApproveAll(r) \/ ClearApprovals(r)
    <2>1. runStatus[r] \in ReviewableRun /\ UNCHANGED <<runStatus, desk, closing, resolving>>
      BY <1>7 DEF ApproveAll, ClearApprovals, open
    <2>2. \A w \in Worker : ~(Busy(w) /\ at[w] = r)
      BY <1>3, <2>1 DEF Calm
    <2> QED BY <1>1, <1>3, <1>4, <2>1, <2>2 DEF Tidy, NothingTaken
  <1>8. CASE CloseCount(r)
    <2>1. UNCHANGED <<runStatus, item, resolving>>
      BY <1>8 DEF CloseCount, ledger
    <2>2. desk'[r] \in Over => \A g \in Group \ closing'[r] :
                                  item[r][g] \notin {"in_flight", "approved"}
      BY <1>8, SettleOver DEF CloseCount
    <2>3. desk'[r] \in Over => \A g \in Group : item[r][g] # "in_flight"
      <3>1. \A g \in closing'[r] : item[r][g] # "in_flight"
        BY <1>8 DEF CloseCount, ReviewableItem
      <3> QED BY <2>2, <3>1
    <2> QED BY <1>3, <1>4, <2>1, <2>2, <2>3 DEF Tidy, Calm
  <1>9. CASE CloseWrite(r)
    <2>1. /\ runStatus'[r] = desk[r] /\ desk'[r] = "free" /\ resolving' = resolving
          /\ \A g \in Group : item'[r][g] = IF g \in closing[r] THEN "skipped" ELSE item[r][g]
      BY <1>9 DEF CloseWrite
    <2>2. desk[r] \notin ReviewableRun
      BY DEF Thrown
    <2> HIDE DEF ReviewTyped, TypeInv, TypeOK
    <2>3. Tidy(r)'
      BY <1>3, <2>1 DEF Tidy, Over
    <2>4. Calm(r) => Calm(r)'
      BY <2>1, <2>2 DEF Calm, Over
    <2> QED BY <1>3, <1>4, <2>3, <2>4
  <1> QED BY <1>5, <1>6, <1>7, <1>8, <1>9 DEF RunReview

\* Decisions about one row, unless they act on the status of some time ago, and
\* resolutions, unless one is entered while the row's click or POST runs.
LEMMA AccountedReview ==
    ASSUME ~LateReviews, {"created", "failed"} \subseteq OperatorWaits,
           ReviewTyped, Thrown, Halts, Accounted,
           NEW r \in Run, NEW g \in Group, Review(r, g)
    PROVE  Accounted'
  <1> USE DEF ReviewTyped, TypeInv, TypeOK
  <1>1. NothingTaken /\ UNCHANGED worker
    BY ReviewTakesNothing
  <1>2. Tidy(r) /\ (\A w \in Worker : Busy(w) /\ at[w] = r => Calm(r))
    BY DEF Accounted
  <1>3. ASSUME \A x \in Run \ {r} : Untouched(x), Tidy(r)',
               \A w \in Worker : Busy(w) /\ at[w] = r => Calm(r)'
        PROVE  Accounted'
    BY <1>1, <1>3, BystanderAt
  <1>4. CASE ReviewOpen(r, g)
    <2>1. UNCHANGED <<runStatus, desk, closing, resolving>>
      BY <1>4 DEF ReviewOpen, SetItemApproval, RejectItem, UnrejectItem, SetResolution,
         ClearResolution, open
    <2>2. \E status : item' = [item EXCEPT ![r][g] = status]
      BY <1>4 DEF ReviewOpen, SetItemApproval, RejectItem, UnrejectItem, SetResolution,
         ClearResolution
    <2>3. \A x \in Run \ {r} : Untouched(x)
      BY <2>1, <2>2 DEF Untouched
    <2>4. Tidy(r)'
      BY <1>1, <1>2, <2>1 DEF Tidy, NothingTaken
    <2>5. Calm(r) => Calm(r)'
      <3>1. \/ runStatus[r] \in ReviewableRun
            \/ item'[r][g] # "approved"
        <4>1. ASSUME NEW approve \in BOOLEAN, NEW over \in BOOLEAN,
                     SetItemApproval(r, g, approve, over)
              PROVE  runStatus[r] \in ReviewableRun
          BY <4>1 DEF SetItemApproval, SeenIn
        <4> QED
          BY <1>4, <4>1 DEF ReviewOpen, RejectItem, UnrejectItem, SetResolution,
             ClearResolution
      <3>2. \A h \in Group \ {g} : item'[r][h] = item[r][h]
        BY <2>2
      <3> HIDE DEF ReviewTyped, TypeInv, TypeOK
      <3> QED BY <2>1, <3>1, <3>2 DEF Calm
    <2> QED BY <1>2, <1>3, <2>3, <2>4, <2>5
  <1>5. ASSUME NEW outcome \in {"created", "failed"}, Resolve(r, g, outcome)
        PROVE  Accounted'
    <2>1. UNCHANGED <<runStatus, item, desk, closing>> /\ item[r][g] = "in_flight"
      BY <1>5 DEF Resolve, ledger
    <2>2. \A x \in Run \ {r} : Untouched(x)
      BY <1>5, <2>1 DEF Resolve, Untouched
    <2>3. \A w \in Worker : ~(Busy(w) /\ at[w] = r)
      BY <1>5, <2>1 DEF Resolve, PostSettled, Holds, Halts, Busy
    <2>4. /\ \A h \in Group \ {g} : resolving'[r][h] = resolving[r][h]
          /\ resolving'[r][g].run = SettleStatus([item[r] EXCEPT ![g] = outcome])
      BY <1>5 DEF Resolve
    <2>5. ASSUME NEW h \in Group, NEW k \in Group, resolving'[r][h] # None,
                 resolving'[r][h].run \in Over, k # h
          PROVE  item'[r][k] # "in_flight"
      <3>1. CASE h = g
        <4>1. [item[r] EXCEPT ![g] = outcome][k] # "in_flight"
          BY <2>4, <2>5, <3>1, SettleOver
        <4> QED BY <2>1, <2>5, <3>1, <4>1
      <3>2. CASE h # g
        BY <1>2, <2>1, <2>4, <2>5, <3>2 DEF Tidy
      <3> QED BY <3>1, <3>2
    <2>6. Tidy(r)'
      BY <1>2, <2>1, <2>5 DEF Tidy
    <2> QED BY <1>3, <2>2, <2>3, <2>6
  <1>6. CASE ResolveWrite(r, g)
    <2>1. resolving[r][g] \in Resolution /\ resolving[r][g] # None
      BY <1>6 DEF ResolveWrite
    <2>2. /\ runStatus'[r] = resolving[r][g].run /\ desk' = desk
          /\ item'[r][g] # "in_flight"
          /\ \A h \in Group \ {g} : item'[r][h] = item[r][h]
          /\ \A h \in Group : resolving'[r][h] # None => resolving'[r][h] = resolving[r][h]
      <3>1. resolving[r][g].row # "in_flight"
        BY <2>1 DEF Resolution
      <3> QED BY <1>6, <3>1 DEF ResolveWrite
    <2>3. \A x \in Run \ {r} : Untouched(x)
      BY <1>6 DEF ResolveWrite, Untouched
    <2>4. \A w \in Worker : ~(Busy(w) /\ at[w] = r)
      BY <1>2, <2>1 DEF Calm
    <2>5. runStatus'[r] \in Over => \A h \in Group : item'[r][h] # "in_flight"
      BY <1>2, <2>1, <2>2 DEF Tidy
    <2> HIDE DEF ReviewTyped, TypeInv, TypeOK
    <2>6. Tidy(r)'
      BY <1>1, <1>2, <2>2, <2>5 DEF Tidy, NothingTaken
    <2> QED BY <1>3, <2>3, <2>4, <2>6
  <1> QED BY <1>4, <1>5, <1>6, ReviewKinds DEF Resolves, ResolveLink, ResolveFailed

\* The steps of a click, when it is alone on its run.
LEMMA AccountedClick ==
    ASSUME ReviewTyped, OneClick, OneClick', Accounted, NEW w \in Worker,
           Execute(w) \/ Die(w) \/ \E r \in Run : Start(w, r)
    PROVE  Accounted'
  <1> USE DEF ReviewTyped, TypeInv, TypeOK, WorkerTyped
  <1>1. \A v \in Worker : pc[v] # "idle" => at[v] \in Run
    OBVIOUS
  <1>2. ASSUME UNCHANGED <<runStatus, open, at>>,
               \A x \in Run, g \in Group :
                  item'[x][g] \in {"in_flight", "approved"} => item'[x][g] = item[x][g],
               \A v \in Worker :
                  /\ Busy(v)' => Busy(v)
                  /\ pc'[v] = "write" =>
                        \/ pc[v] = "write" /\ derived'[v] = derived[v]
                        \/ /\ pc[v] # "idle"
                           /\ derived'[v] \in Over =>
                                 \A g \in Group : item[at[v]][g] # "in_flight"
        PROVE  Accounted'
    <2> HIDE DEF ReviewTyped, TypeInv, TypeOK, WorkerTyped
    <2>1. UNCHANGED <<desk, closing, resolving>>
      BY <1>2 DEF open
    <2>2. \A x \in Run : (Tidy(x) => Tidy(x)') /\ (Calm(x) => Calm(x)')
      BY <1>2, <2>1 DEF Tidy, Calm
    <2>3. \A v \in Worker : Busy(v)' => at[v] \in Run /\ Calm(at[v])'
      BY <1>1, <1>2, <2>2 DEF Accounted, Busy
    <2>4. ASSUME NEW v \in Worker, NEW g \in Group, pc'[v] = "write", derived'[v] \in Over
          PROVE  item'[at'[v]][g] # "in_flight"
      BY <1>1, <1>2, <2>4 DEF Accounted
    <2> QED BY <1>2, <2>2, <2>3, <2>4 DEF Accounted
  <1>3. ASSUME NEW g \in Group, TakeLock(w, g) PROVE Accounted'
    <2>1. PICK r \in Run : r = at[w]
      BY <1>3 DEF TakeLock
    <2>2. Busy(w) /\ Calm(r) /\ Tidy(r)
      BY <1>3, <2>1 DEF TakeLock, Busy, Accounted
    <2>3. runStatus[r] \notin Over /\ desk[r] \notin Over
      BY <1>3, <2>1, <2>2 DEF TakeLock, Calm, Locked
    <2>4. /\ UNCHANGED <<runStatus, at, derived, desk, closing, resolving>>
          /\ item' = [item EXCEPT ![r][g] = "in_flight"]
          /\ pc' = [pc EXCEPT ![w] = "locked"] /\ pc[w] = "loop"
          /\ \A v \in Worker \ {w} : todo'[v] = todo[v]
      BY <1>3, <2>1 DEF TakeLock, open
    <2>5. \A v \in Worker \ {w} : pc[v] # "idle" => at[v] \in Run \ {r}
      BY <1>1, <2>1, <2>4 DEF OneClick
    <2>6. \A x \in Run \ {r} : Untouched(x)
      BY <2>4 DEF Untouched
    <2>7. \A v \in Worker :
             /\ Busy(v)' => Busy(v)
             /\ pc'[v] = "write" => v # w /\ pc[v] = "write"
      BY <2>2, <2>4 DEF Busy
    <2>8. Tidy(r)' /\ Calm(r)'
      BY <2>2, <2>3, <2>4 DEF Tidy, Calm
    <2> HIDE DEF ReviewTyped, TypeInv, TypeOK, WorkerTyped
    <2>9. \A x \in Run : Tidy(x)'
      BY <2>6, <2>8, UntouchedSame DEF Accounted
    <2>10. ASSUME NEW v \in Worker, Busy(v)' PROVE Calm(at[v])'
      <3>1. CASE v = w
        BY <2>1, <2>4, <2>8, <3>1
      <3>2. CASE v # w
        <4>1. PICK x \in Run \ {r} : x = at[v]
          BY <2>5, <2>7, <2>10, <3>2 DEF Busy
        <4>2. Calm(x)'
          BY <2>6, <2>7, <2>10, <4>1, UntouchedSame DEF Accounted
        <4> QED BY <2>4, <4>1, <4>2
      <3> QED BY <3>1, <3>2
    <2>11. ASSUME NEW v \in Worker, NEW h \in Group, pc'[v] = "write", derived'[v] \in Over
           PROVE  item'[at'[v]][h] # "in_flight"
      <3>1. pc[v] = "write" /\ at[v] \in Run \ {r}
        BY <2>5, <2>7, <2>11
      <3> QED BY <2>4, <2>6, <2>11, <3>1 DEF Accounted, Untouched
    <2> QED BY <2>4, <2>9, <2>10, <2>11 DEF Accounted
  <1>4. CASE RecordCreated(w) \/ RecordFailure(w)
    <2>1. PICK r \in Run, g \in Group : r = at[w] /\ g = cur[w]
      BY <1>4 DEF RecordCreated, RecordFailure
    <2>2. /\ UNCHANGED <<runStatus, at, derived, open>>
          /\ pc' = [pc EXCEPT ![w] = "loop"] /\ pc[w] = "waiting"
          /\ todo' = todo
          /\ \E status \in {"created", "failed"} : item' = [item EXCEPT ![r][g] = status]
      BY <1>4, <2>1 DEF RecordCreated, RecordFailure, NextItem
    <2>3. \A x \in Run, h \in Group :
             item'[x][h] \in {"in_flight", "approved"} => item'[x][h] = item[x][h]
      BY <2>2
    <2>4. \A v \in Worker : (Busy(v)' => Busy(v)) /\ (pc'[v] = "write" => pc[v] = "write")
      BY <2>2 DEF Busy
    <2> QED BY <1>2, <2>2, <2>3, <2>4
  <1>5. CASE \/ \E g \in Group : SkipItem(w, g)
             \/ SendPost(w) \/ RecordUnknown(w)
    <2>1. /\ UNCHANGED <<runStatus, at, derived, open, item>>
          /\ pc[w] \in {"loop", "locked", "waiting"}
          /\ pc'[w] \in {"loop", "locked", "waiting"}
          /\ todo'[w] \subseteq todo[w]
          /\ \A v \in Worker \ {w} : pc'[v] = pc[v] /\ todo'[v] = todo[v]
      BY <1>5 DEF SkipItem, SendPost, RecordUnknown, NextItem, ledger
    <2>2. \A v \in Worker : (Busy(v)' => Busy(v)) /\ (pc'[v] = "write" => pc[v] = "write")
      BY <2>1 DEF Busy
    <2> QED BY <1>2, <2>1, <2>2
  <1>6. CASE FinalizeCount(w)
    <2>1. PICK r \in Run : r = at[w]
      BY <1>6 DEF FinalizeCount
    <2>2. \A g \in Group : derived'[w] \in Over => item[r][g] # "in_flight"
      BY <1>6, <2>1, SettleOver DEF FinalizeCount
    <2>3. /\ UNCHANGED <<runStatus, at, open, item>>
          /\ pc[w] = "loop" /\ pc' = [pc EXCEPT ![w] = "write"] /\ todo' = todo
          /\ \A v \in Worker \ {w} : derived'[v] = derived[v]
      BY <1>6 DEF FinalizeCount, ledger
    <2>4. \A v \in Worker : Busy(v)' => Busy(v)
      BY <2>3 DEF Busy
    <2>5. \A v \in Worker \ {w} : pc'[v] = pc[v]
      BY <2>3
    <2> HIDE DEF ReviewTyped, TypeInv, TypeOK, WorkerTyped
    <2> QED BY <1>2, <2>1, <2>2, <2>3, <2>4, <2>5
  <1>7. CASE RecordCreatedRaises(w) \/ Die(w) \/ FinalizeWrite(w)
    <2>1. PICK r \in Run : r = at[w]
      BY <1>1, <1>7 DEF RecordCreatedRaises, Die, FinalizeWrite
    <2>2. Leave(w) /\ UNCHANGED <<item, desk, closing, resolving>> /\ pc[w] # "idle"
      BY <1>7 DEF RecordCreatedRaises, Die, FinalizeWrite, ledger, open
    <2>3. /\ \A x \in Run \ {r} : runStatus'[x] = runStatus[x]
          /\ \/ runStatus'[r] = runStatus[r]
             \/ runStatus'[r] = derived[w] /\ pc[w] = "write" /\ desk[r] = "free"
      BY <1>7, <2>1 DEF RecordCreatedRaises, Die, FinalizeWrite, ledger
    <2>4. \A v \in Worker : pc'[v] # "idle" =>
             /\ v # w /\ pc'[v] = pc[v] /\ at'[v] = at[v] /\ derived'[v] = derived[v]
             /\ todo'[v] = todo[v]
      BY <2>2, LeaveAlone
    <2>5. \A v \in Worker \ {w} : pc[v] # "idle" => at[v] \in Run \ {r}
      BY <1>1, <2>1, <2>2 DEF OneClick
    <2>6. \A x \in Run \ {r} : Untouched(x)
      BY <2>2, <2>3 DEF Untouched
    <2>7. runStatus'[r] \in Over => \A g \in Group : item'[r][g] # "in_flight"
      BY <2>1, <2>2, <2>3 DEF Accounted, Tidy
    <2> HIDE DEF ReviewTyped, TypeInv, TypeOK, WorkerTyped
    <2>8. Tidy(r)'
      BY <2>2, <2>7 DEF Accounted, Tidy
    <2>9. \A x \in Run : Tidy(x)'
      BY <2>6, <2>8, UntouchedSame DEF Accounted
    <2>10. ASSUME NEW v \in Worker, Busy(v)' PROVE Calm(at[v])'
      <3>1. v # w /\ Busy(v)
        BY <2>4, <2>10 DEF Busy
      <3>2. PICK x \in Run \ {r} : x = at[v]
        BY <2>5, <3>1 DEF Busy
      <3>3. Calm(x)'
        BY <2>6, <3>1, <3>2, UntouchedSame DEF Accounted
      <3> QED BY <2>4, <2>10, <3>2, <3>3 DEF Busy
    <2>11. ASSUME NEW v \in Worker, NEW h \in Group, pc'[v] = "write", derived'[v] \in Over
           PROVE  item'[at'[v]][h] # "in_flight"
      BY <2>2, <2>4, <2>11 DEF Accounted
    <2> QED BY <2>9, <2>10, <2>11 DEF Accounted
  <1>8. ASSUME NEW r \in Run, Start(w, r) PROVE Accounted'
    <2>1. /\ UNCHANGED <<item, derived, desk, closing, resolving>>
          /\ runStatus' = [runStatus EXCEPT ![r] = "executing"]
          /\ pc' = [pc EXCEPT ![w] = "loop"] /\ at' = [at EXCEPT ![w] = r]
          /\ \A v \in Worker \ {w} : todo'[v] = todo[v]
          /\ desk[r] = "free"
          /\ \A g \in Group : item[r][g] # "in_flight"
      BY <1>8 DEF Start, open
    <2>2. \A g \in Group : resolving[r][g] = None
      BY <2>1 DEF LocksHold
    <2>3. /\ runStatus'[r] = "executing" /\ pc'[w] = "loop" /\ at'[w] = r
          /\ \A v \in Worker \ {w} : pc'[v] = pc[v] /\ at'[v] = at[v]
          /\ \A x \in Run \ {r} : Untouched(x)
      BY <2>1 DEF Untouched
    <2> HIDE DEF ReviewTyped, TypeInv, TypeOK, WorkerTyped
    <2>4. Tidy(r)' /\ Calm(r)'
      BY <2>1, <2>2, <2>3 DEF Tidy, Calm, Over, ReviewableRun
    <2>5. \A x \in Run : Tidy(x)'
      BY <2>3, <2>4, UntouchedSame DEF Accounted
    <2>6. ASSUME NEW v \in Worker, Busy(v)' PROVE Calm(at[v])'
      <3>1. CASE at'[v] = r
        BY <2>4, <3>1
      <3>2. CASE at'[v] # r
        <4>1. v # w /\ Busy(v)
          BY <2>1, <2>3, <2>6, <3>2 DEF Busy
        <4>2. PICK x \in Run \ {r} : x = at[v]
          BY <1>1, <2>3, <3>2, <4>1 DEF Busy
        <4>3. Calm(x)'
          BY <2>3, <4>1, <4>2, UntouchedSame DEF Accounted
        <4> QED BY <2>3, <4>1, <4>2, <4>3
      <3> QED BY <3>1, <3>2
    <2>7. ASSUME NEW v \in Worker, NEW h \in Group, pc'[v] = "write", derived'[v] \in Over
          PROVE  item'[at'[v]][h] # "in_flight"
      BY <2>1, <2>3, <2>7 DEF Accounted
    <2> QED BY <2>5, <2>6, <2>7 DEF Accounted
  <1> QED BY <1>3, <1>4, <1>5, <1>6, <1>7, <1>8 DEF Execute

\* The invariant behind OverMeansAccounted is inductive.
LEMMA AccountedStep ==
    ASSUME ~LateReviews, {"created", "failed"} \subseteq OperatorWaits
    PROVE  ReviewTyped /\ Thrown /\ Halts /\ Accounted /\ OneClick /\ OneClick' /\ [Next]_vars
           => Accounted'
  <1> SUFFICES ASSUME ReviewTyped, Thrown, Halts, Accounted, OneClick, OneClick', [Next]_vars
               PROVE  Accounted'
    OBVIOUS
  <1>1. ASSUME UNCHANGED <<ledger, worker, open>> PROVE Accounted'
    BY <1>1 DEF ledger, worker, open, Accounted, Tidy, Calm, Busy
  <1>2. ASSUME NEW r \in Run, NEW g \in Group, HarvestCreates(r, g) \/ HarvestRefuses(r, g)
        PROVE  Accounted'
    BY <1>1, <1>2 DEF HarvestCreates, HarvestRefuses
  <1>3. CASE UNCHANGED vars
    BY <1>1, <1>3 DEF vars, ledger, worker, open
  <1> QED
    BY <1>2, <1>3, AccountedPlan, AccountedRunReview, AccountedReview, AccountedClick
       DEF Next, RunReview

\* A run that is over has no invoice unaccounted for, as long as one click works
\* on a run at a time, no decision about a row is written late, and nobody
\* settles a row whose click or POST still runs.
THEOREM OverMeansAccountedCorrect ==
    ASSUME ~LateReviews, {"created", "failed"} \subseteq OperatorWaits
    PROVE  Spec /\ []OneClick => []OverMeansAccounted
  <1>1. Accounted => OverMeansAccounted
    BY DEF Accounted, Tidy, OverMeansAccounted, Over
  <1>2. Init => Thrown /\ Accounted
    BY DEF Init, Thrown, Tried, Attempted, ReviewableRun, Accounted, Tidy, Busy, Over
  <1>3. TypeInv /\ Halts /\ OneClick /\ OneClick' /\ [Next]_vars => Halts'
    BY TakesOnlyAfterAnswer
  <1> QED
    BY <1>1, <1>2, <1>3, HaltsInit, ThrownStep, AccountedStep, TypeInit, TypeStep,
       ReviewTypedInit, ReviewTypedStep, PTL DEF Spec
=============================================================================
