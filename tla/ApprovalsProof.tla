----------------------------- MODULE ApprovalsProof -----------------------------
(***************************************************************************)
(* Proofs about the approval gate, for any number of proposals and         *)
(* batches, and about the assistant beside it, for any number of turns,    *)
(* agents and tools.                                                       *)
(***************************************************************************)
EXTENDS AssistantProps, FiniteSetTheorems, SequenceTheorems, TLAPS

\* The row agrees with what the human did, and with the task of the grant.
RowInv(p) ==
    /\ granted[p] = "none" <=> status[p] \in {"pending", "rejected"}
    /\ status[p] = "pending" => payload[p] = "none"
    /\ task[p] # "none" => granted[p] # "none"
    /\ task[p] \in {"running", "waiting"} =>
          status[p] = "approved" /\ work[p] = granted[p]
    /\ status[p] = "approved" => task[p] # "none" \/ p \in lost

\* Airtable has what was sent, and only the granted version is sent, in order.
WriteInv(p) ==
    /\ \A s \in Slot : records[p][s] = IF request[p][s] = "landed" THEN 1 ELSE 0
    /\ \A s \in Slot : request[p][s] # "none" => s[1] = granted[p]
    /\ task[p] \in {"running", "waiting"} =>
          \A i \in Part : i < next[p] => request[p][<<work[p], i>>] = "landed"
    /\ task[p] = "running" =>
          \A i \in Part : i >= next[p] => request[p][<<work[p], i>>] = "none"
    /\ task[p] = "waiting" =>
          /\ next[p] <= Batches[work[p]]
          /\ \A i \in Part : i > next[p] => request[p][<<work[p], i>>] = "none"
    /\ status[p] = "executed" => \A s \in Parts(granted[p]) : request[p][s] = "landed"

\* Nothing of a row without an executor is sent.
LegacyInv(p) ==
    p \in Legacy =>
        /\ task[p] \in {"none", "failing"}
        /\ \A s \in Slot : request[p][s] = "none"

PerProposal(p) == RowInv(p) /\ WriteInv(p) /\ LegacyInv(p)

Inv == TypeOK /\ \A p \in Proposal : PerProposal(p)

\* Nothing of proposal q changes.
Same(q) ==
    /\ status'[q] = status[q] /\ payload'[q] = payload[q] /\ granted'[q] = granted[q]
    /\ task'[q] = task[q] /\ work'[q] = work[q] /\ next'[q] = next[q]
    /\ request'[q] = request[q] /\ records'[q] = records[q]
    /\ q \in lost <=> q \in lost'

LEMMA PartFacts ==
    /\ Part \subseteq Nat \ {0}
    /\ \A v \in Version : Batches[v] \in Nat /\ Parts(v) \subseteq Slot
    /\ \A v \in Version, i \in Nat \ {0} : i <= Batches[v] => <<v, i>> \in Slot /\ i \in Part
  BY ApprovalsAssumption DEF Part, Slot, Parts, Version

LEMMA InvInit == Init => Inv
  BY ApprovalsAssumption, PartFacts
  DEF Init, Inv, TypeOK, PerProposal, RowInv, WriteInv, LegacyInv, Status,
      Payload, TaskState, RequestState, Version

\* What is not changed keeps its invariant.
LEMMA SameKeeps ==
    ASSUME Inv, NEW q \in Proposal, Same(q)
    PROVE  PerProposal(q)'
  <1>1. RowInv(q)'
    BY DEF Inv, PerProposal, Same, RowInv
  <1>2. WriteInv(q)'
    BY DEF Inv, PerProposal, Same, WriteInv
  <1>3. LegacyInv(q)'
    BY DEF Inv, PerProposal, Same, LegacyInv
  <1> QED BY <1>1, <1>2, <1>3 DEF PerProposal

LEMMA UnchangedKeeps == Inv /\ UNCHANGED vars => Inv'
  <1> SUFFICES ASSUME Inv, UNCHANGED vars PROVE Inv'
    OBVIOUS
  <1>1. TypeOK'
    BY DEF Inv, TypeOK, vars
  <1>2. ASSUME NEW q \in Proposal PROVE PerProposal(q)'
    <2>1. Same(q)
      BY DEF vars, Same
    <2> QED BY <2>1, SameKeeps
  <1> QED BY <1>1, <1>2 DEF Inv

\* The inbox.
LEMMA InboxStep ==
    ASSUME Inv, NEW p \in Proposal, Inbox(p)
    PROVE  Inv' /\ \A q \in Proposal \ {p} : Same(q)
  <1> USE ApprovalsAssumption DEF Inv, TypeOK, row, executor, airtable, Status, Payload
  <1>0. SUFFICES TypeOK' /\ PerProposal(p)' /\ \A q \in Proposal \ {p} : Same(q)
    BY SameKeeps
  <1>1. ASSUME NEW e \in BOOLEAN, Approve(p, e)
        PROVE  TypeOK' /\ PerProposal(p)' /\ \A q \in Proposal \ {p} : Same(q)
    <2>1. TypeOK' /\ \A q \in Proposal \ {p} : Same(q)
      BY <1>1 DEF Approve, Same, TaskState, Version, Effective
    <2>2. RowInv(p)'
      BY <1>1 DEF Approve, PerProposal, RowInv, LegacyInv, Unregistered, Effective, Version
    <2>3. /\ \A s \in Slot : request[p][s] = "none"
          /\ task[p] = "none" /\ granted[p] = "none" /\ request' = request
      BY <1>1 DEF Approve, PerProposal, RowInv, WriteInv, Slot, Version
    <2>4. \A v \in Version, i \in Part : request'[p][<<v, i>>] = "none"
      BY <2>3 DEF Slot
    <2>5. WriteInv(p)'
      BY <1>1, <2>1, <2>3, <2>4, PartFacts DEF Approve, PerProposal, WriteInv
    <2>6. LegacyInv(p)'
      BY <1>1, <2>3 DEF Approve, PerProposal, LegacyInv, Unregistered
    <2> QED BY <2>1, <2>2, <2>5, <2>6 DEF PerProposal
  <1>2. ASSUME NEW e \in BOOLEAN, ApproveRaises(p, e)
        PROVE  TypeOK' /\ PerProposal(p)' /\ \A q \in Proposal \ {p} : Same(q)
    <2>1. TypeOK' /\ \A q \in Proposal \ {p} : Same(q)
      BY <1>2 DEF ApproveRaises, Same, Version
    <2>2. RowInv(p)'
      BY <1>2 DEF ApproveRaises, PerProposal, RowInv, Version
    <2>3. /\ \A s \in Slot : request[p][s] = "none"
          /\ task[p] = "none" /\ request' = request /\ records' = records
      BY <1>2 DEF ApproveRaises, PerProposal, RowInv, WriteInv, Slot, Version
    <2>4. WriteInv(p)'
      BY <1>2, <2>3 DEF ApproveRaises, PerProposal, WriteInv
    <2>5. LegacyInv(p)'
      BY <1>2, <2>3 DEF ApproveRaises, PerProposal, LegacyInv
    <2> QED BY <2>1, <2>2, <2>4, <2>5 DEF PerProposal
  <1>3. ASSUME Reject(p)
        PROVE  TypeOK' /\ PerProposal(p)' /\ \A q \in Proposal \ {p} : Same(q)
    <2>1. TypeOK' /\ \A q \in Proposal \ {p} : Same(q)
      BY <1>3 DEF Reject, Same
    <2>2. PerProposal(p)'
      BY <1>3 DEF Reject, PerProposal, RowInv, WriteInv, LegacyInv
    <2> QED BY <2>1, <2>2
  <1> QED BY <1>1, <1>2, <1>3 DEF Inbox

\* The executor.
LEMMA SendStep ==
    ASSUME Inv, NEW p \in Proposal, SendBatch(p)
    PROVE  Inv' /\ \A q \in Proposal \ {p} : Same(q)
  <1> USE ApprovalsAssumption DEF Inv, TypeOK, row, executor, airtable, TaskState,
      RequestState
  <1>0. SUFFICES TypeOK' /\ PerProposal(p)' /\ \A q \in Proposal \ {p} : Same(q)
    BY SameKeeps
  <1>1. /\ work[p] \in Version /\ next[p] \in Part /\ Batch(p) \in Slot
        /\ Batch(p) = <<work[p], next[p]>>
    BY PartFacts DEF SendBatch, Batch
  <1>2. /\ request' = [request EXCEPT ![p] = [request[p] EXCEPT ![Batch(p)] = "sent"]]
        /\ request[p] \in [Slot -> RequestState]
    BY DEF SendBatch
  <1>3. TypeOK' /\ \A q \in Proposal \ {p} : Same(q)
    BY <1>1, <1>2 DEF SendBatch, Same
  <1>4. RowInv(p)'
    BY DEF SendBatch, PerProposal, RowInv
  <1>5. request[p][Batch(p)] = "none" /\ work[p] = granted[p] /\ status[p] = "approved"
    BY <1>1 DEF SendBatch, PerProposal, RowInv, WriteInv
  <1>6. /\ \A s \in Slot : s # Batch(p) => request'[p][s] = request[p][s]
        /\ request'[p][Batch(p)] = "sent"
        /\ \A i \in Part : i # next[p] =>
              request'[p][<<work[p], i>>] = request[p][<<work[p], i>>]
    BY <1>1, <1>2 DEF Slot
  <1>7. WriteInv(p)'
    <2>1. \A s \in Slot : records'[p][s] = IF request'[p][s] = "landed" THEN 1 ELSE 0
      BY <1>5, <1>6 DEF SendBatch, PerProposal, WriteInv
    <2>2. \A s \in Slot : request'[p][s] # "none" => s[1] = granted'[p]
      BY <1>1, <1>5, <1>6 DEF SendBatch, PerProposal, WriteInv
    <2>3. \A i \in Part : i < next'[p] => request'[p][<<work'[p], i>>] = "landed"
      BY <1>1, <1>6, PartFacts DEF SendBatch, PerProposal, WriteInv
    <2>4. \A i \in Part : i > next'[p] => request'[p][<<work'[p], i>>] = "none"
      BY <1>1, <1>6, PartFacts DEF SendBatch, PerProposal, WriteInv
    <2> QED BY <2>1, <2>2, <2>3, <2>4, <1>5 DEF SendBatch, WriteInv
  <1>8. LegacyInv(p)'
    BY DEF SendBatch, PerProposal, LegacyInv
  <1> QED BY <1>0, <1>3, <1>4, <1>7, <1>8 DEF PerProposal

LEMMA AnsweredStep ==
    ASSUME Inv, NEW p \in Proposal, BatchAnswered(p)
    PROVE  Inv' /\ \A q \in Proposal \ {p} : Same(q)
  <1> USE ApprovalsAssumption DEF Inv, TypeOK, row, executor, airtable, TaskState,
      RequestState
  <1>0. SUFFICES TypeOK' /\ PerProposal(p)' /\ \A q \in Proposal \ {p} : Same(q)
    BY SameKeeps
  <1>1. TypeOK' /\ \A q \in Proposal \ {p} : Same(q)
    BY DEF BatchAnswered, Same
  <1>2. RowInv(p)'
    BY DEF BatchAnswered, PerProposal, RowInv
  <1>3. WriteInv(p)'
    <2>1. /\ request' = request /\ records' = records /\ UNCHANGED <<row, work>>
          /\ status[p] = "approved" /\ request[p][<<work[p], next[p]>>] = "landed"
          /\ task'[p] = "running" /\ next'[p] = next[p] + 1 /\ next[p] \in Nat
      BY DEF BatchAnswered, Batch, PerProposal, RowInv
    <2>2. /\ \A i \in Part : i < next'[p] => request[p][<<work[p], i>>] = "landed"
          /\ \A i \in Part : i >= next'[p] => request[p][<<work[p], i>>] = "none"
      <3>1. /\ task[p] = "waiting" /\ Part \subseteq Nat
            /\ \A i \in Part : i < next[p] => request[p][<<work[p], i>>] = "landed"
            /\ \A i \in Part : i > next[p] => request[p][<<work[p], i>>] = "none"
        BY PartFacts DEF BatchAnswered, PerProposal, WriteInv
      <3>2. ASSUME NEW i \in Part, i < next'[p]
            PROVE  request[p][<<work[p], i>>] = "landed"
        <4> HIDE DEF Inv, TypeOK, row, airtable, executor
        <4>0. i \in Nat /\ next[p] \in Nat /\ i < next[p] + 1
          BY <2>1, <3>1, <3>2
        <4>1. i \in Nat /\ (i < next[p] \/ i = next[p])
          BY <4>0
        <4> QED BY <2>1, <3>1, <4>1
      <3>3. ASSUME NEW i \in Part, i >= next'[p]
            PROVE  request[p][<<work[p], i>>] = "none"
        BY <2>1, <3>1, <3>3
      <3> QED BY <3>2, <3>3
    <2> QED BY <2>1, <2>2 DEF PerProposal, WriteInv
  <1>4. LegacyInv(p)'
    BY DEF BatchAnswered, PerProposal, LegacyInv
  <1> QED BY <1>0, <1>1, <1>2, <1>3, <1>4 DEF PerProposal

LEMMA OutcomeStep ==
    ASSUME Inv, NEW p \in Proposal,
           \/ BatchFails(p) \/ MarkFailed(p) \/ MarkFailedRaises(p)
           \/ MarkExecuted(p) \/ \E committed \in BOOLEAN : MarkExecutedRaises(p, committed)
    PROVE  Inv' /\ \A q \in Proposal \ {p} : Same(q)
  <1> USE ApprovalsAssumption DEF Inv, TypeOK, row, executor, airtable, TaskState,
      Status, Payload
  <1>0. SUFFICES TypeOK' /\ PerProposal(p)' /\ \A q \in Proposal \ {p} : Same(q)
    BY SameKeeps
  <1>1. ASSUME BatchFails(p) \/ MarkFailed(p) \/ MarkFailedRaises(p)
        PROVE  TypeOK' /\ PerProposal(p)' /\ \A q \in Proposal \ {p} : Same(q)
    <2>1. TypeOK' /\ \A q \in Proposal \ {p} : Same(q)
      BY <1>1 DEF BatchFails, MarkFailed, MarkFailedRaises, Same
    <2>2. RowInv(p)'
      BY <1>1 DEF BatchFails, MarkFailed, MarkFailedRaises, PerProposal, RowInv
    <2>3. WriteInv(p)' /\ LegacyInv(p)'
      BY <1>1 DEF BatchFails, MarkFailed, MarkFailedRaises, PerProposal, WriteInv, LegacyInv
    <2> QED BY <2>1, <2>2, <2>3 DEF PerProposal
  <1>2. ASSUME MarkExecuted(p) \/ \E committed \in BOOLEAN : MarkExecutedRaises(p, committed)
        PROVE  TypeOK' /\ PerProposal(p)' /\ \A q \in Proposal \ {p} : Same(q)
    <2>1. TypeOK' /\ \A q \in Proposal \ {p} : Same(q)
      <3>1. CASE MarkExecuted(p)
        BY <3>1 DEF MarkExecuted, Same
      <3>2. ASSUME NEW committed \in BOOLEAN, MarkExecutedRaises(p, committed)
            PROVE  TypeOK' /\ \A q \in Proposal \ {p} : Same(q)
        BY <3>2 DEF MarkExecutedRaises, Same
      <3> QED BY <1>2, <3>1, <3>2
    <2>2. RowInv(p)'
      BY <1>2 DEF MarkExecuted, MarkExecutedRaises, PerProposal, RowInv
    <2>3. /\ work[p] = granted[p] /\ next[p] > Batches[work[p]] /\ task[p] = "running"
          /\ \A i \in Part : i < next[p] => request[p][<<work[p], i>>] = "landed"
      BY <1>2 DEF MarkExecuted, MarkExecutedRaises, PerProposal, RowInv, WriteInv
    <2>4. \A s \in Parts(granted[p]) : request[p][s] = "landed"
      BY <2>3, PartFacts DEF Parts
    <2>5. WriteInv(p)' /\ LegacyInv(p)'
      BY <1>2, <2>4 DEF MarkExecuted, MarkExecutedRaises, PerProposal, WriteInv, LegacyInv
    <2> QED BY <2>1, <2>2, <2>5 DEF PerProposal
  <1> QED BY <1>1, <1>2

LEMMA ExecutorStep ==
    ASSUME Inv, NEW p \in Proposal, Executor(p)
    PROVE  Inv' /\ \A q \in Proposal \ {p} : Same(q)
  BY SendStep, AnsweredStep, OutcomeStep DEF Executor

\* Airtable.
LEMMA AirtableStep ==
    ASSUME Inv, NEW p \in Proposal, NEW s \in Slot,
           AirtableCreates(p, s) \/ AirtableRefuses(p, s)
    PROVE  Inv' /\ \A q \in Proposal \ {p} : Same(q)
  <1> USE ApprovalsAssumption DEF Inv, TypeOK, row, executor, airtable, RequestState
  <1>0. SUFFICES TypeOK' /\ PerProposal(p)' /\ \A q \in Proposal \ {p} : Same(q)
    BY SameKeeps
  <1>1. TypeOK' /\ \A q \in Proposal \ {p} : Same(q)
    <2>1. CASE AirtableCreates(p, s)
      <3>1. /\ records' = [records EXCEPT ![p] = [records[p] EXCEPT ![s] = records[p][s] + 1]]
            /\ request' = [request EXCEPT ![p] = [request[p] EXCEPT ![s] = "landed"]]
            /\ records[p] \in [Slot -> Nat] /\ request[p] \in [Slot -> RequestState]
        BY <2>1 DEF AirtableCreates
      <3> QED BY <2>1, <3>1 DEF AirtableCreates, Same
    <2>2. CASE AirtableRefuses(p, s)
      BY <2>2 DEF AirtableRefuses, Same
    <2> QED BY <2>1, <2>2
  <1>2. RowInv(p)'
    BY DEF AirtableCreates, AirtableRefuses, PerProposal, RowInv
  <1>3. /\ request[p][s] = "sent" /\ request'[p][s] \in {"landed", "refused"}
        /\ \A x \in Slot \ {s} : request'[p][x] = request[p][x] /\ records'[p][x] = records[p][x]
        /\ records'[p][s] = IF request'[p][s] = "landed" THEN 1 ELSE 0
        /\ UNCHANGED <<row, executor, lost>>
    BY DEF AirtableCreates, AirtableRefuses, PerProposal, WriteInv
  <1>4. WriteInv(p)'
    <2>1. \A x \in Slot : records'[p][x] = IF request'[p][x] = "landed" THEN 1 ELSE 0
      BY <1>3 DEF PerProposal, WriteInv
    <2>2. \A x \in Slot : /\ request'[p][x] = "none" <=> request[p][x] = "none"
                          /\ request[p][x] = "landed" => request'[p][x] = "landed"
      BY <1>3
    <2>3. \A v \in Version, i \in Part : <<v, i>> \in Slot
      BY DEF Slot
    <2>4. \A x \in Parts(granted[p]) : status[p] = "executed" => x \in Slot
      BY PartFacts DEF PerProposal, RowInv
    <2> QED BY <1>3, <2>1, <2>2, <2>3, <2>4 DEF PerProposal, WriteInv
  <1>5. LegacyInv(p)'
    BY <1>3 DEF PerProposal, LegacyInv
  <1> QED BY <1>0, <1>1, <1>2, <1>4, <1>5 DEF PerProposal

\* The process ends.
LEMMA DeathStep == ASSUME Inv, ProcessDies PROVE Inv'
  <1> USE DEF Inv, TypeOK, row, airtable, TaskState
  <1>1. TypeOK'
    BY DEF ProcessDies
  <1>2. ASSUME NEW p \in Proposal PROVE PerProposal(p)'
    BY DEF ProcessDies, PerProposal, RowInv, WriteInv, LegacyInv
  <1> QED BY <1>1, <1>2

LEMMA InvStep == Inv /\ [Next]_vars => Inv'
  <1> SUFFICES ASSUME Inv, Next PROVE Inv'
    BY UnchangedKeeps
  <1>1. ASSUME NEW p \in Proposal, Inbox(p) \/ Executor(p) \/ Airtable(p)
        PROVE  Inv'
    BY <1>1, InboxStep, ExecutorStep, AirtableStep DEF Airtable
  <1>2. CASE ProcessDies
    BY <1>2, DeathStep
  <1> QED BY <1>1, <1>2 DEF Next

(***************************************************************************)
(* The promises.                                                           *)
(***************************************************************************)

\* Everything has its type, whatever is clicked or lost (approvals.py).
THEOREM Typing == Spec => []TypeOK
  <1>1. Inv => TypeOK
    BY DEF Inv
  <1> QED BY <1>1, InvInit, InvStep, PTL DEF Spec

LEMMA Invariance == Spec => []Inv
  BY InvInit, InvStep, PTL DEF Spec

\* A proposal shown as executed is in Airtable completely, as the human
\* granted it (_run_executor).
THEOREM Executed == Spec => []ExecutedMeansWritten
  <1>1. ASSUME Inv, NEW p \in Proposal, status[p] = "executed", NEW s \in Parts(granted[p])
        PROVE  records[p][s] = 1
    <2>1. granted[p] \in Version
      BY <1>1 DEF Inv, TypeOK, PerProposal, RowInv
    <2>2. s \in Slot /\ request[p][s] = "landed"
      BY <1>1, <2>1, PartFacts DEF Inv, PerProposal, WriteInv
    <2> QED BY <1>1, <2>2 DEF Inv, PerProposal, WriteInv
  <1>2. Inv => ExecutedMeansWritten
    BY <1>1 DEF ExecutedMeansWritten
  <1> QED BY <1>2, Invariance, PTL

\* A row that says approved is worked on, or lost (_run_executor).
THEOREM Held == Spec => []ApprovedIsHeld
  <1>1. Inv => ApprovedIsHeld
    BY DEF Inv, PerProposal, RowInv, ApprovedIsHeld
  <1> QED BY <1>1, Invariance, PTL

\* The rows, the clicks and Airtable implement the gate: one decision, nothing
\* written before it, nothing but what was granted, nothing twice.
LEMMA GateInit == Init => Gate!Init
  <1> SUFFICES ASSUME Init PROVE Gate!Init
    OBVIOUS
  <1>1. ASSUME NEW p \in Proposal PROVE Decision(p) = "open"
    BY DEF Init, Decision
  <1>2. records = [p \in Proposal |-> [s \in Version \X Part |-> 0]]
    BY DEF Init, Slot
  <1> QED BY <1>1, <1>2 DEF Gate!Init

LEMMA GateStep == Inv /\ [Next]_vars => [Gate!Next]_(Gate!vars)
  <1> SUFFICES ASSUME Inv, [Next]_vars PROVE [Gate!Next]_(Gate!vars)
    OBVIOUS
  <1> DEFINE D == [p \in Proposal |-> Decision(p)]
  <1>0. Inv'
    BY InvStep
  <1>1. ASSUME \A p \in Proposal : Decision(p)' = Decision(p), records' = records
        PROVE  UNCHANGED Gate!vars
    BY <1>1 DEF Gate!vars
  <1>2. ASSUME NEW p \in Proposal, \A q \in Proposal \ {p} : Same(q),
               Decision(p)' # Decision(p)
        PROVE  D' = [D EXCEPT ![p] = Decision(p)']
    <2>1. \A q \in Proposal \ {p} : Decision(q)' = Decision(q)
      BY <1>2 DEF Same, Decision
    <2> QED BY <2>1
  <1>3. ASSUME NEW p \in Proposal, Inbox(p) PROVE [Gate!Next]_(Gate!vars)
    <2>1. records' = records /\ \A q \in Proposal \ {p} : Same(q)
      BY <1>3, InboxStep DEF Inbox, Approve, ApproveRaises, Reject, airtable
    <2>2. status[p] = "pending" /\ granted[p] = "none" /\ Decision(p) = "open"
      BY <1>3 DEF Inbox, Approve, ApproveRaises, Reject, Decision, Inv, PerProposal, RowInv
    <2>3. CASE Reject(p)
      <3>1. Decision(p)' = "refused"
        BY <2>2, <2>3 DEF Reject, Decision, Inv, TypeOK
      <3>2. D[p] = "open" /\ D' = [D EXCEPT ![p] = "refused"]
        BY <1>2, <2>1, <2>2, <3>1
      <3> QED BY <2>1, <3>2 DEF Gate!Next, Gate!Refuse
    <2>4. ASSUME NEW e \in BOOLEAN, Approve(p, e) \/ ApproveRaises(p, e)
          PROVE  [Gate!Next]_(Gate!vars)
      <3> DEFINE v == IF e THEN "edited" ELSE "proposed"
      <3>1. v \in Version /\ Decision(p)' = v /\ v # "open"
        BY <2>4 DEF Approve, ApproveRaises, Decision, Inv, TypeOK, Version
      <3>2. D[p] = "open" /\ D' = [D EXCEPT ![p] = v]
        BY <1>2, <2>1, <2>2, <3>1
      <3> QED BY <2>1, <3>1, <3>2 DEF Gate!Next, Gate!Grant
    <2> QED BY <1>3, <2>3, <2>4 DEF Inbox
  <1>4. ASSUME NEW p \in Proposal, Executor(p) PROVE [Gate!Next]_(Gate!vars)
    <2>1. records' = records /\ granted' = granted /\ \A q \in Proposal \ {p} : Same(q)
      BY <1>4, ExecutorStep
      DEF Executor, SendBatch, BatchAnswered, BatchFails, MarkExecuted, MarkExecutedRaises,
          MarkFailed, MarkFailedRaises, row, airtable
    <2>2. granted[p] # "none"
      BY <1>4 DEF Inv, PerProposal, RowInv, Executor, SendBatch, BatchAnswered, BatchFails,
         MarkExecuted, MarkExecutedRaises, MarkFailed, MarkFailedRaises
    <2> QED BY <1>1, <2>1, <2>2 DEF Decision, Same
  <1>5. ASSUME NEW p \in Proposal, NEW s \in Slot,
               AirtableCreates(p, s) \/ AirtableRefuses(p, s)
        PROVE  [Gate!Next]_(Gate!vars)
    <2>1. UNCHANGED row
      BY <1>5 DEF AirtableCreates, AirtableRefuses
    <2>2. \A q \in Proposal : Decision(q)' = Decision(q)
      BY <2>1 DEF row, Decision
    <2>3. CASE AirtableRefuses(p, s)
      BY <1>1, <2>2, <2>3 DEF AirtableRefuses
    <2>4. CASE AirtableCreates(p, s)
      <3>1. PICK v \in Version, b \in Part : s = <<v, b>>
        BY DEF Slot
      <3>2. granted[p] = v /\ records[p][s] = 0
        BY <2>4, <3>1 DEF AirtableCreates, Inv, PerProposal, WriteInv
      <3>3. Decision(p) = v
        BY <3>2 DEF Decision, Version
      <3>4. records' = [records EXCEPT ![p][<<v, b>>] = 1]
        BY <2>4, <3>1, <3>2 DEF AirtableCreates, Inv, TypeOK
      <3>5. D' = D
        BY <2>2
      <3> QED BY <3>1, <3>2, <3>3, <3>4, <3>5 DEF Gate!Next, Gate!Write
    <2> QED BY <1>5, <2>3, <2>4
  <1>6. CASE ProcessDies \/ UNCHANGED vars
    BY <1>1, <1>6 DEF ProcessDies, vars, row, airtable, Decision
  <1> QED BY <1>3, <1>4, <1>5, <1>6 DEF Next, Airtable

\* Approvals implements the gate (routers/approvals.py, approvals.py:158).
THEOREM GateHolds == Spec => RefinesGate
  <1> QED BY GateInit, GateStep, Invariance, PTL DEF Spec, RefinesGate, Gate!Spec

(***************************************************************************)
(* The assistant: its proposals live as Approvals says.                    *)
(***************************************************************************)
LEMMA AssistantStep == [AssistantNext]_assistantVars => [Next]_vars
  BY DEF AssistantNext, assistantVars, LoopAlone, TurnCancelled, Approval, AllDie, Next

\* Inside the assistant a proposal lives exactly as Approvals says, however
\* turns, cancellations and deaths interleave (dispatch.py:41).
THEOREM AssistantApproves == AssistantSpec => Spec
  <1>1. AssistantInit => Init
    BY DEF AssistantInit
  <1> QED BY <1>1, AssistantStep, PTL DEF AssistantSpec, Spec

\* So the promises of the gate are promises of the assistant.
THEOREM AssistantKeepsGate ==
    AssistantSpec => RefinesGate /\ [](ExecutedMeansWritten /\ ApprovedIsHeld)
  BY AssistantApproves, GateHolds, Executed, Held, PTL

(***************************************************************************)
(* The turns of the assistant: a stack of frames, and what the audit log   *)
(* has open because of it.                                                 *)
(***************************************************************************)

Frame == [agent : Agent, round : 0 .. MaxIterations, left : 0 .. MaxCalls, at : At,
          tool : ToolName \cup {AskAgent}, out : Outcome]

\* Only a task that is about to fail has used up its rounds.
GoodFrame == {f \in Frame : f.at # "failing" => f.round < MaxIterations}

\* Every frame below the top waits for the one above it, and the front door is
\* no task of another agent.
Nested(s) ==
    /\ s \in Seq(GoodFrame)
    /\ \A i \in 1 .. Len(s) - 1 : s[i].at = "delegated"
    /\ Len(s) > 0 => s[1].at \notin {"invoking", "completing", "failing"}

CallAt == {"executing", "delegated", "answering", "closing"}
InCall(f) == IF f.at \in CallAt THEN 1 ELSE 0
InTask(f) == IF f.at # "invoking" THEN 1 ELSE 0

\* The calls and the invocations a nested stack is inside of, counted.
Calls(s) == IF Len(s) < 1 THEN 0 ELSE Len(s) - 1 + InCall(s[Len(s)])
Tasks(s) == IF Len(s) < 2 THEN 0 ELSE Len(s) - 2 + InTask(s[Len(s)])

\* An interval of numbers has as many elements as it spans.
LEMMA IntervalCounted ==
    /\ \A m \in Nat : Cardinality(1 .. m) = m
    /\ \A m \in Nat : m >= 2 => Cardinality(2 .. m) = m - 1 /\ Cardinality(2 .. m - 1) = m - 2
  <1>1. ASSUME NEW m \in Nat
        PROVE  Cardinality(1 .. m) = m
    <2>1. m \in Int /\ 1 \in Int
      OBVIOUS
    <2>2. Cardinality(1 .. m) = IF 1 > m THEN 0 ELSE m - 1 + 1
      BY <2>1, FS_Interval
    <2> QED BY <2>2
  <1>2. ASSUME NEW m \in Nat, m >= 2
        PROVE  Cardinality(2 .. m) = m - 1 /\ Cardinality(2 .. m - 1) = m - 2
    <2>1. 2 \in Int /\ m \in Int /\ m - 1 \in Int
      OBVIOUS
    <2>2. Cardinality(2 .. m) = IF 2 > m THEN 0 ELSE m - 2 + 1
      BY <2>1, FS_Interval
    <2>3. Cardinality(2 .. m - 1) = IF 2 > m - 1 THEN 0 ELSE (m - 1) - 2 + 1
      BY <2>1, FS_Interval
    <2> QED BY <1>2, <2>2, <2>3
  <1> QED BY <1>1, <1>2

\* Counting the frames that are inside a call comes to Calls.
LEMMA CallsCounted ==
    ASSUME NEW s, Nested(s)
    PROVE  Cardinality({i \in 1 .. Len(s) : s[i].at \in CallAt}) = Calls(s)
  <1> DEFINE n == Len(s)
             C == {i \in 1 .. n : s[i].at \in CallAt}
  <1>1. n \in Nat
    BY DEF Nested
  <1>2. \A i \in 1 .. n - 1 : s[i].at \in CallAt
    BY DEF Nested, CallAt
  <1>3. \A i : i \in C <=> i \in 1 .. n /\ s[i].at \in CallAt
    OBVIOUS
  <1> HIDE DEF C
  <1>4. \A m \in Nat : Cardinality(1 .. m) = m
    BY IntervalCounted
  <1>5. CASE n = 0
    <2>1. C = 1 .. 0
      BY <1>3, <1>5
    <2>2. Cardinality(C) = 0
      BY <1>4, <2>1
    <2> QED BY <1>5, <2>2 DEF C, Calls
  <1>6. CASE n > 0
    <2>1. \A i \in 1 .. n : i \in 1 .. n - 1 \/ i = n
      BY <1>1
    <2>2. \A i \in 1 .. n - 1 : i \in 1 .. n /\ i # n
      BY <1>1
    <2>3. n - 1 \in Nat
      BY <1>1, <1>6
    <2>4. C = IF s[n].at \in CallAt THEN 1 .. n ELSE 1 .. n - 1
      <3>1. CASE s[n].at \in CallAt
        <4>1. \A i : i \in C <=> i \in 1 .. n
          BY <1>2, <1>3, <2>1, <3>1
        <4> QED BY <3>1, <4>1
      <3>2. CASE s[n].at \notin CallAt
        <4>1. \A i : i \in C <=> i \in 1 .. n - 1
          BY <1>2, <1>3, <2>1, <2>2, <3>2
        <4> QED BY <3>2, <4>1
      <3> QED BY <3>1, <3>2
    <2>5. Cardinality(C) = IF s[n].at \in CallAt THEN n ELSE n - 1
      BY <1>1, <1>4, <2>3, <2>4
    <2>6. Cardinality(C) = Calls(s)
      BY <1>1, <1>6, <2>5 DEF Calls, InCall
    <2> QED BY <2>6 DEF C
  <1> QED BY <1>1, <1>5, <1>6

\* Counting the invocations comes to Tasks; the front door is not invoked.
LEMMA TasksCounted ==
    ASSUME NEW s, Nested(s)
    PROVE  Cardinality({i \in 2 .. Len(s) : s[i].at # "invoking"}) = Tasks(s)
  <1> DEFINE n == Len(s)
             C == {i \in 2 .. n : s[i].at # "invoking"}
  <1>1. n \in Nat
    BY DEF Nested
  <1>2. \A i \in 1 .. n - 1 : s[i].at # "invoking"
    BY DEF Nested
  <1>3. \A i : i \in C <=> i \in 2 .. n /\ s[i].at # "invoking"
    OBVIOUS
  <1> HIDE DEF C
  <1>4. CASE n < 2
    <2>1. C = {}
      BY <1>1, <1>3, <1>4
    <2>2. Cardinality(C) = 0
      BY <2>1, FS_EmptySet
    <2> QED BY <1>1, <1>4, <2>2 DEF C, Tasks
  <1>5. CASE n >= 2
    <2>1. Cardinality(2 .. n) = n - 1 /\ Cardinality(2 .. n - 1) = n - 2
      BY <1>1, <1>5, IntervalCounted
    <2>2. \A i \in 2 .. n : i \in 2 .. n - 1 \/ i = n
      BY <1>1
    <2>3. \A i \in 2 .. n - 1 : i \in 2 .. n /\ i \in 1 .. n - 1 /\ i # n
      BY <1>1
    <2>4. C = IF s[n].at # "invoking" THEN 2 .. n ELSE 2 .. n - 1
      <3>1. CASE s[n].at # "invoking"
        <4>1. \A i : i \in C <=> i \in 2 .. n
          BY <1>2, <1>3, <2>2, <2>3, <3>1
        <4> QED BY <3>1, <4>1
      <3>2. CASE s[n].at = "invoking"
        <4>1. \A i : i \in C <=> i \in 2 .. n - 1
          BY <1>2, <1>3, <2>2, <2>3, <3>2
        <4> QED BY <3>2, <4>1
      <3> QED BY <3>1, <3>2
    <2>5. Cardinality(C) = IF s[n].at # "invoking" THEN n - 1 ELSE n - 2
      BY <2>1, <2>4
    <2>6. Cardinality(C) = Tasks(s)
      BY <1>1, <1>5, <2>5 DEF Tasks, InTask
    <2> QED BY <2>6 DEF C
  <1> QED BY <1>1, <1>4, <1>5

\* The top frame of a stack goes on as f.
LEMMA TopReplaced ==
    ASSUME NEW s, Nested(s), Len(s) > 0, NEW f \in GoodFrame,
           Len(s) = 1 => f.at \notin {"invoking", "completing", "failing"}
    PROVE  LET r == Append(SubSeq(s, 1, Len(s) - 1), f)
           IN  Nested(r) /\ Len(r) = Len(s) /\ r[Len(r)] = f
  <1> DEFINE n == Len(s) - 1
             c == SubSeq(s, 1, n)
             r == Append(c, f)
  <1>1. s \in Seq(GoodFrame) /\ n \in Nat /\ n + 1 = Len(s)
    BY DEF Nested
  <1>2. c \in Seq(GoodFrame) /\ Len(c) = n /\ \A i \in 1 .. n : c[i] = s[i]
    BY <1>1, SubSeqProperties
  <1> HIDE DEF c
  <1>3. /\ r \in Seq(GoodFrame) /\ Len(r) = n + 1
        /\ \A i \in 1 .. n : r[i] = c[i]
        /\ r[n + 1] = f
    BY <1>2, AppendProperties
  <1> HIDE DEF r
  <1>4. \A i \in 1 .. n : r[i].at = "delegated"
    BY <1>1, <1>2, <1>3 DEF Nested
  <1>5. r[1].at \notin {"invoking", "completing", "failing"}
    <2>1. CASE n = 0
      BY <1>1, <1>3, <2>1
    <2>2. CASE n > 0
      BY <1>1, <1>4, <2>2
    <2> QED BY <1>1, <2>1, <2>2
  <1>6. Nested(r) /\ Len(r) = Len(s) /\ r[Len(r)] = f
    BY <1>1, <1>3, <1>4, <1>5 DEF Nested
  <1> QED BY <1>6 DEF r, c

\* A frame begins above one that now waits for it.
LEMMA FramePushed ==
    ASSUME NEW s, Nested(s), Len(s) > 0, s[Len(s)].at = "delegated", NEW f \in GoodFrame
    PROVE  LET r == Append(s, f)
           IN  Nested(r) /\ Len(r) = Len(s) + 1 /\ r[Len(r)] = f
  <1> DEFINE r == Append(s, f)
             n == Len(s)
  <1>1. s \in Seq(GoodFrame) /\ n \in Nat /\ n > 0
    BY DEF Nested
  <1>2. /\ r \in Seq(GoodFrame) /\ Len(r) = n + 1
        /\ \A i \in 1 .. n : r[i] = s[i]
        /\ r[n + 1] = f
    BY <1>1, AppendProperties
  <1> HIDE DEF r
  <1>3. \A i \in 1 .. n : r[i].at = "delegated"
    BY <1>1, <1>2 DEF Nested
  <1>4. Nested(r) /\ Len(r) = n + 1 /\ r[Len(r)] = f
    BY <1>1, <1>2, <1>3 DEF Nested
  <1> QED BY <1>4 DEF r

\* A frame ends and its caller goes on as f.
LEMMA FramePopped ==
    ASSUME NEW s, Nested(s), Len(s) > 1, NEW f \in GoodFrame,
           f.at \notin {"invoking", "completing", "failing"}
    PROVE  LET r == Append(SubSeq(s, 1, Len(s) - 2), f)
           IN  Nested(r) /\ Len(r) = Len(s) - 1 /\ r[Len(r)] = f
  <1> DEFINE n == Len(s) - 2
             c == SubSeq(s, 1, n)
             r == Append(c, f)
  <1>1. s \in Seq(GoodFrame) /\ n \in Nat /\ n + 2 = Len(s)
    BY DEF Nested
  <1>2. c \in Seq(GoodFrame) /\ Len(c) = n /\ \A i \in 1 .. n : c[i] = s[i]
    BY <1>1, SubSeqProperties
  <1> HIDE DEF c
  <1>3. /\ r \in Seq(GoodFrame) /\ Len(r) = n + 1
        /\ \A i \in 1 .. n : r[i] = c[i]
        /\ r[n + 1] = f
    BY <1>2, AppendProperties
  <1> HIDE DEF r
  <1>4. \A i \in 1 .. n : r[i].at = "delegated"
    BY <1>1, <1>2, <1>3 DEF Nested
  <1>5. r[1].at \notin {"invoking", "completing", "failing"}
    <2>1. CASE n = 0
      BY <1>1, <1>3, <2>1
    <2>2. CASE n > 0
      BY <1>1, <1>4, <2>2
    <2> QED BY <1>1, <2>1, <2>2
  <1>6. Nested(r) /\ Len(r) = Len(s) - 1 /\ r[Len(r)] = f
    BY <1>1, <1>3, <1>4, <1>5 DEF Nested
  <1> QED BY <1>6 DEF r, c

(***************************************************************************)
(* What a turn keeps: a nested stack while it runs, and an audit log that  *)
(* has open what the stack is inside of, plus a gap for a write that       *)
(* raised.  Nothing is claimed of the log of a turn that was cut.          *)
(***************************************************************************)
Balanced(s, o, n) ==
    /\ o["call"] >= Calls(s)
    /\ o["task"] >= Tasks(s)
    /\ o["call"] - Calls(s) + o["task"] - Tasks(s) <= n

TurnState == {"waiting", "running", "over", "cut"}

InTurn(s, how, o, n) ==
    /\ Nested(s)
    /\ how = "running" <=> Len(s) > 0
    /\ how # "cut" => Balanced(s, o, n)

LoopInv ==
    /\ stack \in [Turn -> Seq(Frame)]
    /\ turn \in [Turn -> TurnState]
    /\ open \in [Turn -> [Kind -> Int]]
    /\ faults \in [Turn -> 0 .. MaxFaults]
    /\ \A t \in Turn : InTurn(stack[t], turn[t], open[t], faults[t])

\* A nested stack is made of frames.
LEMMA NestedFrames ==
    ASSUME NEW s, Nested(s)
    PROVE  s \in Seq(Frame) /\ s \in Seq(GoodFrame) /\ Len(s) \in Nat
  <1>1. s \in Seq(GoodFrame) /\ Len(s) \in Nat
    BY DEF Nested
  <1>2. GoodFrame \subseteq Frame
    BY DEF GoodFrame
  <1> QED BY <1>1, <1>2

\* The empty stack is inside of nothing.
LEMMA NoFrames == Nested(<< >>) /\ Calls(<< >>) = 0 /\ Tasks(<< >>) = 0
  BY DEF Nested, Calls, Tasks

\* No turn has begun, and nothing is open.
LEMMA LoopStarts == LoopInit => LoopInv
  <1> SUFFICES ASSUME LoopInit PROVE LoopInv
    OBVIOUS
  <1>1. << >> \in Seq(Frame) /\ 0 \in 0 .. MaxFaults
    BY AgentLoopAssumption
  <1>2. \A t \in Turn : InTurn(stack[t], turn[t], open[t], faults[t])
    BY NoFrames DEF LoopInit, InTurn, Balanced, Kind
  <1> QED BY <1>1, <1>2 DEF LoopInit, LoopInv, TurnState

\* Where one turn goes on in such a way, all do.
LEMMA OneTurn ==
    ASSUME LoopInv, NEW t \in Turn, NEW s, NEW how \in TurnState,
           NEW o \in [Kind -> Int], NEW n \in 0 .. MaxFaults,
           stack' = [stack EXCEPT ![t] = s], turn' = [turn EXCEPT ![t] = how],
           open' = [open EXCEPT ![t] = o], faults' = [faults EXCEPT ![t] = n],
           InTurn(s, how, o, n)
    PROVE  LoopInv'
  <1>1. s \in Seq(Frame)
    BY NestedFrames DEF InTurn
  <1>2. /\ stack' \in [Turn -> Seq(Frame)] /\ turn' \in [Turn -> TurnState]
        /\ open' \in [Turn -> [Kind -> Int]] /\ faults' \in [Turn -> 0 .. MaxFaults]
    BY <1>1 DEF LoopInv
  <1>3. ASSUME NEW x \in Turn
        PROVE  InTurn(stack'[x], turn'[x], open'[x], faults'[x])
    <2>1. CASE x = t
      <3>1. stack'[x] = s /\ turn'[x] = how /\ open'[x] = o /\ faults'[x] = n
        BY <2>1 DEF LoopInv
      <3> QED BY <3>1
    <2>2. CASE x # t
      <3>1. /\ stack'[x] = stack[x] /\ turn'[x] = turn[x]
            /\ open'[x] = open[x] /\ faults'[x] = faults[x]
        BY <2>2 DEF LoopInv
      <3> QED BY <3>1 DEF LoopInv
    <2> QED BY <2>1, <2>2
  <1> QED BY <1>2, <1>3 DEF LoopInv

\* The top frame of a turn that runs.
LEMMA TopFrame ==
    ASSUME LoopInv, NEW t \in Turn, turn[t] = "running"
    PROVE  /\ Nested(stack[t]) /\ Len(stack[t]) \in Nat \ {0}
           /\ Top(t) \in GoodFrame /\ Top(t) \in Frame
           /\ ~Delegated(t) => Top(t).at \notin {"invoking", "completing", "failing"}
           /\ Balanced(stack[t], open[t], faults[t])
           /\ open[t] \in [Kind -> Int] /\ faults[t] \in 0 .. MaxFaults
           /\ open[t]["call"] \in Int /\ open[t]["task"] \in Int
  <1>1. /\ Nested(stack[t]) /\ Len(stack[t]) > 0
        /\ Balanced(stack[t], open[t], faults[t])
    BY DEF LoopInv, InTurn
  <1>2. stack[t] \in Seq(GoodFrame) /\ Len(stack[t]) \in Nat
    BY <1>1, NestedFrames
  <1>3. Top(t) \in GoodFrame
    BY <1>1, <1>2 DEF Top
  <1>4. ~Delegated(t) => Top(t).at \notin {"invoking", "completing", "failing"}
    BY <1>1, <1>2 DEF Delegated, Top, Nested
  <1>5. /\ open[t] \in [Kind -> Int] /\ faults[t] \in 0 .. MaxFaults
        /\ open[t]["call"] \in Int /\ open[t]["task"] \in Int
    BY DEF LoopInv, Kind
  <1> QED BY <1>1, <1>2, <1>3, <1>4, <1>5 DEF GoodFrame

\* Where f replaces the top frame e, the log gets what f is inside of more than
\* e was, and beyond that no more than a gap for each new fault.
Pays(e, f, o, o1, n, n1) ==
    LET c == o1["call"] - o["call"] - InCall(f) + InCall(e)
        k == o1["task"] - o["task"] - InTask(f) + InTask(e)
    IN  c >= 0 /\ k >= 0 /\ c + k <= n1 - n

\* A stack whose top frame pays stays balanced.
LEMMA PaysBalances ==
    ASSUME NEW s, NEW r, NEW e, NEW f, NEW o \in [Kind -> Int], NEW o1 \in [Kind -> Int],
           NEW n \in Int, NEW n1 \in Int, Balanced(s, o, n), Pays(e, f, o, o1, n, n1),
           Calls(s) \in Int, Tasks(s) \in Int,
           Calls(r) = Calls(s) + InCall(f) - InCall(e),
           Tasks(r) = Tasks(s) + InTask(f) - InTask(e)
    PROVE  Balanced(r, o1, n1)
  <1>1. /\ InCall(f) \in Int /\ InCall(e) \in Int /\ InTask(f) \in Int /\ InTask(e) \in Int
    BY DEF InCall, InTask
  <1>2. /\ o["call"] \in Int /\ o["task"] \in Int /\ o1["call"] \in Int /\ o1["task"] \in Int
    BY DEF Kind
  <1>3. o1["call"] - Calls(r) = (o["call"] - Calls(s))
          + (o1["call"] - o["call"] - InCall(f) + InCall(e))
    BY <1>1, <1>2
  <1>4. o1["task"] - Tasks(r) = (o["task"] - Tasks(s))
          + (o1["task"] - o["task"] - InTask(f) + InTask(e))
    BY <1>1, <1>2
  <1>5. Calls(r) \in Int /\ Tasks(r) \in Int
    BY <1>1
  <1>6. o1["call"] >= Calls(r)
    BY <1>1, <1>2, <1>3, <1>5 DEF Balanced, Pays
  <1>7. o1["task"] >= Tasks(r)
    BY <1>1, <1>2, <1>4, <1>5 DEF Balanced, Pays
  <1>8. o1["call"] - Calls(r) + o1["task"] - Tasks(r) <= n1
    BY <1>1, <1>2, <1>3, <1>4, <1>5 DEF Balanced, Pays
  <1> QED BY <1>6, <1>7, <1>8 DEF Balanced

\* The frame that replaces the top one counts in its place.
LEMMA TopCounted ==
    ASSUME NEW s, NEW r, NEW e, NEW f, Len(s) \in Nat \ {0}, Len(r) = Len(s),
           s[Len(s)] = e, r[Len(r)] = f,
           Len(s) = 1 => f.at # "invoking" /\ e.at # "invoking"
    PROVE  /\ Calls(s) \in Int /\ Tasks(s) \in Int
           /\ Calls(r) = Calls(s) + InCall(f) - InCall(e)
           /\ Tasks(r) = Tasks(s) + InTask(f) - InTask(e)
  <1>1. /\ InCall(f) \in Int /\ InCall(e) \in Int /\ InTask(f) \in Int /\ InTask(e) \in Int
    BY DEF InCall, InTask
  <1>2. Calls(s) = Len(s) - 1 + InCall(e) /\ Calls(r) = Len(s) - 1 + InCall(f)
    BY DEF Calls
  <1>3. Calls(s) \in Int /\ Calls(r) = Calls(s) + InCall(f) - InCall(e)
    BY <1>1, <1>2
  <1>4. CASE Len(s) = 1
    <2>1. Tasks(s) = 0 /\ Tasks(r) = 0
      BY <1>4 DEF Tasks
    <2>2. InTask(f) = 1 /\ InTask(e) = 1
      BY <1>4 DEF InTask
    <2> QED BY <1>3, <2>1, <2>2
  <1>5. CASE Len(s) > 1
    <2>1. Tasks(s) = Len(s) - 2 + InTask(e)
      BY <1>5 DEF Tasks
    <2>2. Tasks(r) = Len(s) - 2 + InTask(f)
      BY <1>5 DEF Tasks
    <2>3. Tasks(s) \in Int /\ Tasks(r) = Tasks(s) + InTask(f) - InTask(e)
      BY <1>1, <2>1, <2>2
    <2> QED BY <1>3, <2>3
  <1> QED BY <1>4, <1>5

\* Where the top frame of a turn goes on and pays, the turn does.
LEMMA Stays ==
    ASSUME LoopInv, NEW t \in Turn, turn[t] = "running", NEW f \in GoodFrame,
           ~Delegated(t) => f.at \notin {"invoking", "completing", "failing"},
           Becomes(t, f), turn' = turn,
           NEW o \in [Kind -> Int], NEW n \in 0 .. MaxFaults,
           open' = [open EXCEPT ![t] = o], faults' = [faults EXCEPT ![t] = n],
           Pays(Top(t), f, open[t], o, faults[t], n)
    PROVE  LoopInv'
  <1> DEFINE s == stack[t]
             r == Append(SubSeq(s, 1, Len(s) - 1), f)
  <1>1. /\ Nested(s) /\ Len(s) \in Nat \ {0} /\ Len(s) > 0 /\ s[Len(s)] = Top(t)
        /\ Balanced(s, open[t], faults[t])
        /\ open[t] \in [Kind -> Int] /\ faults[t] \in Int /\ n \in Int
    BY TopFrame, AgentLoopAssumption DEF Top
  <1>2. /\ Len(s) = 1 => f.at \notin {"invoking", "completing", "failing"}
        /\ Len(s) = 1 => Top(t).at # "invoking"
    <2>1. Len(s) = 1 => ~Delegated(t)
      BY DEF Delegated
    <2>2. ~Delegated(t) => Top(t).at # "invoking"
      BY TopFrame
    <2> QED BY <2>1, <2>2
  <1>3. Nested(r) /\ Len(r) = Len(s) /\ r[Len(r)] = f
    BY <1>1, <1>2, TopReplaced
  <1>4. stack' = [stack EXCEPT ![t] = r] /\ turn' = [turn EXCEPT ![t] = "running"]
    BY DEF Becomes, Callers, LoopInv
  <1> HIDE DEF r, s
  <1>5. /\ Calls(s) \in Int /\ Tasks(s) \in Int
        /\ Calls(r) = Calls(s) + InCall(f) - InCall(Top(t))
        /\ Tasks(r) = Tasks(s) + InTask(f) - InTask(Top(t))
    BY <1>1, <1>2, <1>3, TopCounted
  <1>6. Balanced(r, o, n)
    BY <1>1, <1>5, PaysBalances
  <1>7. InTurn(r, "running", o, n)
    BY <1>1, <1>3, <1>6 DEF InTurn
  <1> QED BY <1>4, <1>7, OneTurn DEF TurnState

\* The same, of a statement that writes nothing and opens nothing.
LEMMA StaysQuiet ==
    ASSUME LoopInv, NEW t \in Turn, turn[t] = "running", NEW f \in GoodFrame,
           ~Delegated(t) => f.at \notin {"invoking", "completing", "failing"},
           Becomes(t, f), UNCHANGED <<turn, open, faults>>,
           InCall(f) = InCall(Top(t)), InTask(f) = InTask(Top(t))
    PROVE  LoopInv'
  <1>1. /\ open' = [open EXCEPT ![t] = open[t]] /\ faults' = [faults EXCEPT ![t] = faults[t]]
        /\ open[t] \in [Kind -> Int] /\ faults[t] \in 0 .. MaxFaults
        /\ open[t]["call"] \in Int /\ open[t]["task"] \in Int
        /\ turn' = turn
    BY DEF LoopInv, Kind
  <1>2. InCall(f) \in Int /\ InTask(f) \in Int /\ faults[t] \in Int
    BY <1>1 DEF InCall, InTask
  <1>3. open[t]["call"] - open[t]["call"] - InCall(f) + InCall(Top(t)) = 0
    BY <1>1, <1>2
  <1>4. open[t]["task"] - open[t]["task"] - InTask(f) + InTask(Top(t)) = 0
    BY <1>1, <1>2
  <1>5. Pays(Top(t), f, open[t], open[t], faults[t], faults[t])
    BY <1>2, <1>3, <1>4 DEF Pays
  <1> QED BY <1>1, <1>5, Stays

\* A write to the audit log: opened or not, and a fault if it raised.
LEMMA Audited ==
    ASSUME LoopInv, NEW t \in Turn, NEW kind \in Kind, NEW by \in Int, NEW w,
           Audits(t, kind, by, w)
    PROVE  \E o \in [Kind -> Int], n \in 0 .. MaxFaults :
              /\ open' = [open EXCEPT ![t] = o] /\ faults' = [faults EXCEPT ![t] = n]
              /\ \A k \in Kind \ {kind} : o[k] = open[t][k]
              /\ o[kind] = open[t][kind] + (IF w = "raised" THEN 0 ELSE by)
              /\ n = faults[t] + (IF w = "written" THEN 0 ELSE 1)
              /\ w \in {"written", "raised", "committed"}
  <1> DEFINE o == [open[t] EXCEPT ![kind] = IF w = "raised" THEN @ ELSE @ + by]
             n == IF w = "written" THEN faults[t] ELSE faults[t] + 1
  <1>1. open[t] \in [Kind -> Int] /\ faults[t] \in 0 .. MaxFaults /\ MaxFaults \in Nat
    BY AgentLoopAssumption DEF LoopInv
  <1>2. o \in [Kind -> Int] /\ n \in 0 .. MaxFaults
    BY <1>1 DEF Audits
  <1>3. open' = [open EXCEPT ![t] = o] /\ faults' = [faults EXCEPT ![t] = n]
    BY DEF Audits, LoopInv
  <1>4. /\ \A k \in Kind \ {kind} : o[k] = open[t][k]
        /\ o[kind] = open[t][kind] + (IF w = "raised" THEN 0 ELSE by)
        /\ n = faults[t] + (IF w = "written" THEN 0 ELSE 1)
        /\ w \in {"written", "raised", "committed"}
    BY <1>1 DEF Audits, Write
  <1> HIDE DEF o, n
  <1> QED BY <1>2, <1>3, <1>4


\* A turn that stops leaves no frame; where it was not cut, it was inside of
\* nothing.
LEMMA Stops ==
    ASSUME LoopInv, NEW t \in Turn, NEW how \in {"over", "cut"}, Ends(t, how),
           how = "over" => Stands(t, "asking") /\ ~Delegated(t),
           UNCHANGED <<open, faults>>
    PROVE  LoopInv'
  <1>1. /\ open' = [open EXCEPT ![t] = open[t]] /\ faults' = [faults EXCEPT ![t] = faults[t]]
        /\ open[t] \in [Kind -> Int] /\ faults[t] \in 0 .. MaxFaults
        /\ stack' = [stack EXCEPT ![t] = << >>] /\ turn' = [turn EXCEPT ![t] = how]
    BY DEF LoopInv, Ends
  <1>2. how = "over" => Balanced(<< >>, open[t], faults[t])
    <2>1. SUFFICES ASSUME Stands(t, "asking"), ~Delegated(t)
                   PROVE  Balanced(<< >>, open[t], faults[t])
      OBVIOUS
    <2>2. /\ Balanced(stack[t], open[t], faults[t]) /\ Len(stack[t]) \in Nat \ {0}
          /\ Top(t).at = "asking"
      BY <2>1, TopFrame DEF Stands
    <2>3. Len(stack[t]) = 1
      <3>1. ~(Len(stack[t]) > 1)
        BY <2>1 DEF Delegated
      <3>2. \A x \in Nat \ {0} : ~(x > 1) => x = 1
        OBVIOUS
      <3> QED BY <2>2, <3>1, <3>2
    <2>4. Calls(stack[t]) = 0 /\ Tasks(stack[t]) = 0
      BY <2>2, <2>3 DEF Calls, Tasks, InCall, CallAt, Top
    <2> QED BY <2>2, <2>4, NoFrames DEF Balanced
  <1>3. Len(<< >>) = 0 /\ how # "running" /\ (how # "cut" => how = "over")
    OBVIOUS
  <1>4. InTurn(<< >>, how, open[t], faults[t])
    BY <1>2, <1>3, NoFrames DEF InTurn
  <1>5. how \in TurnState
    BY DEF TurnState
  <1> QED BY <1>1, <1>4, <1>5, OneTurn

\* A user starts a turn: the front door is asked, and nothing is open.
LEMMA StartKeeps ==
    ASSUME LoopInv, NEW t \in Turn, StartTurn(t)
    PROVE  LoopInv'
  <1> DEFINE f == Fresh(FrontDoor, "asking")
             r == <<f>>
  <1>1. /\ open' = [open EXCEPT ![t] = open[t]] /\ faults' = [faults EXCEPT ![t] = faults[t]]
        /\ open[t] \in [Kind -> Int] /\ faults[t] \in 0 .. MaxFaults
        /\ stack' = [stack EXCEPT ![t] = r] /\ turn' = [turn EXCEPT ![t] = "running"]
        /\ Nested(stack[t]) /\ ~(Len(stack[t]) > 0) /\ Balanced(stack[t], open[t], faults[t])
    BY DEF LoopInv, StartTurn, InTurn
  <1>2. f \in GoodFrame /\ f.at = "asking"
    BY AgentLoopAssumption DEF Fresh, GoodFrame, Frame, At, Outcome
  <1> HIDE DEF f
  <1>3. r \in Seq(GoodFrame) /\ Len(r) = 1 /\ r[1] = f
    BY <1>2
  <1> HIDE DEF r
  <1>4. Nested(r)
    BY <1>2, <1>3 DEF Nested
  <1>5. Calls(r) = 0 /\ Tasks(r) = 0
    BY <1>2, <1>3 DEF Calls, Tasks, InCall, CallAt
  <1>6. Calls(stack[t]) = 0 /\ Tasks(stack[t]) = 0
    BY <1>1, NestedFrames DEF Calls, Tasks
  <1>7. InTurn(r, "running", open[t], faults[t])
    BY <1>1, <1>3, <1>4, <1>5, <1>6 DEF InTurn, Balanced
  <1> QED BY <1>1, <1>7, OneTurn DEF TurnState

\* After a tool call a frame goes on with the next one or the next round, and a
\* task that has none left fails; so a task takes its MaxIterations rounds.
LEMMA NextCallGood ==
    ASSUME NEW t, NEW f \in GoodFrame, f.at # "failing"
    PROVE  /\ NextCall(t, f) \in GoodFrame
           /\ NextCall(t, f).at \in {"choosing", "asking", "failing"}
           /\ ~Delegated(t) => NextCall(t, f).at # "failing"
  <1> DEFINE more == f.left > 1
             last == Delegated(t) /\ f.round + 1 >= MaxIterations
             at == CASE more -> "choosing" [] ~more /\ last -> "failing" [] OTHER -> "asking"
             left == IF more THEN f.left - 1 ELSE 0
             round == IF more \/ ~Delegated(t) THEN f.round ELSE f.round + 1
             g == [agent |-> f.agent, round |-> round, left |-> left, at |-> at,
                   tool |-> AskAgent, out |-> "done"]
  <1>1. /\ f.agent \in Agent /\ f.round \in 0 .. MaxIterations /\ f.left \in 0 .. MaxCalls
        /\ MaxIterations \in Nat \ {0} /\ MaxCalls \in Nat \ {0}
        /\ f.round < MaxIterations
    BY AgentLoopAssumption DEF GoodFrame, Frame
  <1>2. NextCall(t, f) = g
    <2> DEFINE h == Fresh(f.agent, at)
    <2>1. NextCall(t, f) = [h EXCEPT !.left = left, !.round = round]
      BY DEF NextCall
    <2> HIDE DEF at, left, round
    <2>2. h = [agent |-> f.agent, round |-> 0, left |-> 0, at |-> at, tool |-> AskAgent,
               out |-> "done"]
      BY DEF Fresh
    <2> HIDE DEF h
    <2> QED BY <2>1, <2>2
  <1>3. left \in 0 .. MaxCalls /\ round \in 0 .. MaxIterations
    BY <1>1
  <1>4. at \in {"choosing", "asking", "failing"} /\ (~Delegated(t) => at # "failing")
    OBVIOUS
  <1>5. at # "failing" => round < MaxIterations
    BY <1>1
  <1> HIDE DEF at, left, round
  <1>6. g \in Frame
    BY <1>1, <1>3, <1>4 DEF Frame, At, Outcome
  <1> QED BY <1>2, <1>4, <1>5, <1>6 DEF GoodFrame

\* A frame may go on to any other statement that is not the start or the end
\* of a task.
LEMMA GoesOn ==
    ASSUME NEW f \in GoodFrame, f.at # "failing", NEW at \in At, NEW left \in 0 .. MaxCalls,
           NEW tool \in ToolName \cup {AskAgent}, NEW out \in Outcome
    PROVE  /\ [f EXCEPT !.at = at] \in GoodFrame
           /\ [f EXCEPT !.at = at, !.left = left] \in GoodFrame
           /\ [f EXCEPT !.at = at, !.tool = tool] \in GoodFrame
           /\ [f EXCEPT !.at = at, !.out = out] \in GoodFrame
  BY DEF GoodFrame, Frame

\* The model.
LEMMA ThinksKeeps ==
    ASSUME LoopInv, NEW t \in Turn, Thinks(t)
    PROVE  LoopInv'
  <1> DEFINE e == Top(t)
  <1>0. turn[t] = "running" /\ e \in GoodFrame /\ e.at \in {"asking", "choosing"}
    BY TopFrame DEF Thinks, ModelFails, ModelAnswers, ModelCalls, UnknownTool, Stands
  <1>1. InCall(e) = 0 /\ InTask(e) = 1
    BY <1>0 DEF InCall, InTask, CallAt
  <1>2. CASE ModelFails(t)
    <2>1. CASE Delegated(t)
      <3> DEFINE f == [e EXCEPT !.at = "failing"]
      <3>1. f \in GoodFrame /\ f.at = "failing"
        BY <1>0, AgentLoopAssumption DEF GoodFrame, Frame, At
      <3>2. Becomes(t, f) /\ UNCHANGED <<turn, open, faults>>
        BY <1>2, <2>1 DEF ModelFails
      <3> HIDE DEF f
      <3>3. InCall(f) = 0 /\ InTask(f) = 1
        BY <3>1 DEF InCall, InTask, CallAt
      <3> QED BY <1>0, <1>1, <2>1, <3>1, <3>2, <3>3, StaysQuiet
    <2>2. CASE ~Delegated(t)
      BY <1>2, <2>2, Stops DEF ModelFails
    <2> QED BY <2>1, <2>2
  <1>3. CASE ModelAnswers(t)
    <2>1. CASE Delegated(t)
      <3> DEFINE f == [e EXCEPT !.at = "completing"]
      <3>1. f \in GoodFrame /\ f.at = "completing"
        BY <1>0 DEF GoodFrame, Frame, At
      <3>2. Becomes(t, f) /\ UNCHANGED <<turn, open, faults>>
        BY <1>3, <2>1 DEF ModelAnswers
      <3> HIDE DEF f
      <3>3. InCall(f) = 0 /\ InTask(f) = 1
        BY <3>1 DEF InCall, InTask, CallAt
      <3> QED BY <1>0, <1>1, <2>1, <3>1, <3>2, <3>3, StaysQuiet
    <2>2. CASE ~Delegated(t)
      BY <1>3, <2>2, Stops DEF ModelAnswers
    <2> QED BY <2>1, <2>2
  <1>4. ASSUME NEW n \in 1 .. MaxCalls, ModelCalls(t, n)
        PROVE  LoopInv'
    <2> DEFINE f == [e EXCEPT !.at = "choosing", !.left = n]
    <2>1. f \in GoodFrame /\ f.at = "choosing"
      <3>1. n \in 0 .. MaxCalls /\ "choosing" \in At
        BY AgentLoopAssumption DEF At
      <3>2. e.at # "failing" /\ f.at = "choosing"
        BY <1>0 DEF GoodFrame, Frame
      <3> QED BY <1>0, <3>1, <3>2 DEF GoodFrame, Frame
    <2>2. Becomes(t, f) /\ UNCHANGED <<turn, open, faults>>
      BY <1>4 DEF ModelCalls
    <2> HIDE DEF f
    <2>3. InCall(f) = 0 /\ InTask(f) = 1
      BY <2>1 DEF InCall, InTask, CallAt
    <2> QED BY <1>0, <1>1, <2>1, <2>2, <2>3, StaysQuiet
  <1>5. CASE UnknownTool(t)
    <2> DEFINE f == NextCall(t, e)
    <2>1. /\ f \in GoodFrame /\ f.at \in {"choosing", "asking", "failing"}
          /\ ~Delegated(t) => f.at # "failing"
      BY <1>0, NextCallGood
    <2>2. Becomes(t, f) /\ UNCHANGED <<turn, open, faults>>
      BY <1>5 DEF UnknownTool
    <2> HIDE DEF f
    <2>3. InCall(f) = 0 /\ InTask(f) = 1
      BY <2>1 DEF InCall, InTask, CallAt
    <2> QED BY <1>0, <1>1, <2>1, <2>2, <2>3, StaysQuiet
  <1> QED BY <1>2, <1>3, <1>4, <1>5 DEF Thinks

\* A tool call: TOOL_CALLED before the tool.
LEMMA CallKeeps ==
    ASSUME LoopInv, NEW t \in Turn, NEW tool \in ToolName, NEW w \in Write,
           CallTool(t, tool, w)
    PROVE  LoopInv'
  <1> DEFINE e == Top(t)
             f == IF w = "written"
                  THEN [e EXCEPT !.at = "executing", !.tool = tool]
                  ELSE NextCall(t, e)
  <1>0. turn[t] = "running" /\ e \in GoodFrame /\ e.at = "choosing"
    BY TopFrame DEF CallTool, Stands
  <1>1. PICK o \in [Kind -> Int], n \in 0 .. MaxFaults :
              /\ open' = [open EXCEPT ![t] = o] /\ faults' = [faults EXCEPT ![t] = n]
              /\ \A k \in Kind \ {"call"} : o[k] = open[t][k]
              /\ o["call"] = open[t]["call"] + (IF w = "raised" THEN 0 ELSE 1)
              /\ n = faults[t] + (IF w = "written" THEN 0 ELSE 1)
              /\ w \in {"written", "raised", "committed"}
    BY Audited DEF CallTool, Kind
  <1>2. Becomes(t, f) /\ turn' = turn
    BY DEF CallTool
  <1>3. /\ f \in GoodFrame
        /\ f.at = "executing" <=> w = "written"
        /\ f.at \in {"executing", "choosing", "asking", "failing"}
        /\ ~Delegated(t) => f.at # "failing"
    <2>1. CASE w = "written"
      BY <1>0, <2>1 DEF GoodFrame, Frame, At
    <2>2. CASE w # "written"
      BY <1>0, <2>2, NextCallGood
    <2> QED BY <2>1, <2>2
  <1> HIDE DEF f
  <1>4. InCall(e) = 0 /\ InTask(e) = 1
    BY <1>0 DEF InCall, InTask, CallAt
  <1>5. InCall(f) = (IF w = "written" THEN 1 ELSE 0) /\ InTask(f) = 1
    BY <1>3 DEF InCall, InTask, CallAt
  <1>6. o["task"] = open[t]["task"]
    BY <1>1 DEF Kind
  <1>7. Pays(e, f, open[t], o, faults[t], n)
    <2>1. open[t]["call"] \in Int /\ open[t]["task"] \in Int /\ faults[t] \in Int
      BY <1>0, TopFrame
    <2>2. o["task"] - open[t]["task"] - InTask(f) + InTask(e) = 0
      BY <1>4, <1>5, <1>6, <2>1
    <2>3. o["call"] - open[t]["call"] - InCall(f) + InCall(e) = IF w = "committed" THEN 1 ELSE 0
      BY <1>1, <1>4, <1>5, <2>1
    <2>4. n - faults[t] = IF w = "written" THEN 0 ELSE 1
      BY <1>1, <2>1
    <2> QED BY <2>2, <2>3, <2>4 DEF Pays
  <1> QED BY <1>0, <1>1, <1>2, <1>3, <1>7, Stays

\* ... and its closing event, whatever came of the tool.
LEMMA CloseKeeps ==
    ASSUME LoopInv, NEW t \in Turn, NEW w \in Write, CloseCall(t, w)
    PROVE  LoopInv'
  <1> DEFINE e == Top(t)
  <1>0. turn[t] = "running" /\ e \in GoodFrame /\ e.at = "closing"
    BY TopFrame DEF CloseCall, Stands
  <1>1. PICK o \in [Kind -> Int], n \in 0 .. MaxFaults :
              /\ open' = [open EXCEPT ![t] = o] /\ faults' = [faults EXCEPT ![t] = n]
              /\ \A k \in Kind \ {"call"} : o[k] = open[t][k]
              /\ o["call"] = open[t]["call"] + (IF w = "raised" THEN 0 ELSE -1)
              /\ n = faults[t] + (IF w = "written" THEN 0 ELSE 1)
              /\ w \in {"written", "raised", "committed"}
    <2>1. Audits(t, "call", -1, w) /\ "call" \in Kind /\ -1 \in Int
      BY DEF CloseCall, Kind
    <2> QED BY <2>1, Audited
  <1>2. turn' = turn
    BY DEF CloseCall
  <1>3. PICK f \in GoodFrame :
              /\ Becomes(t, f)
              /\ f.at \in {"choosing", "asking", "failing"}
              /\ ~Delegated(t) => f.at # "failing"
    <2>1. CASE Becomes(t, NextCall(t, e))
      BY <1>0, <2>1, NextCallGood
    <2>2. CASE Delegated(t) /\ Becomes(t, [e EXCEPT !.at = "failing"])
      <3>1. [e EXCEPT !.at = "failing"] \in GoodFrame /\ [e EXCEPT !.at = "failing"].at = "failing"
        BY <1>0 DEF GoodFrame, Frame, At
      <3> QED BY <2>2, <3>1
    <2> QED BY <2>1, <2>2 DEF CloseCall, Unencodable
  <1>4. InCall(e) = 1 /\ InTask(e) = 1
    BY <1>0 DEF InCall, InTask, CallAt
  <1>5. InCall(f) = 0 /\ InTask(f) = 1
    BY <1>3 DEF InCall, InTask, CallAt
  <1>6. o["task"] = open[t]["task"]
    BY <1>1 DEF Kind
  <1>7. Pays(e, f, open[t], o, faults[t], n)
    <2>1. open[t]["call"] \in Int /\ open[t]["task"] \in Int /\ faults[t] \in Int
      BY <1>0, TopFrame
    <2>2. o["task"] - open[t]["task"] - InTask(f) + InTask(e) = 0
      BY <1>4, <1>5, <1>6, <2>1
    <2>3. o["call"] - open[t]["call"] - InCall(f) + InCall(e) = IF w = "raised" THEN 1 ELSE 0
      BY <1>1, <1>4, <1>5, <2>1
    <2>4. n - faults[t] = IF w = "written" THEN 0 ELSE 1
      BY <1>1, <2>1
    <2> QED BY <2>2, <2>3, <2>4 DEF Pays
  <1> QED BY <1>0, <1>1, <1>2, <1>3, <1>7, Stays

\* The tool ends, or ask_agent does: the call is still open.
LEMMA ClosingKeeps ==
    ASSUME LoopInv, NEW t \in Turn, NEW out \in Outcome,
           Stands(t, "executing") \/ Stands(t, "answering"),
           Becomes(t, [Top(t) EXCEPT !.at = "closing", !.out = out]),
           UNCHANGED <<turn, open, faults>>
    PROVE  LoopInv'
  <1> DEFINE e == Top(t)
             f == [e EXCEPT !.at = "closing", !.out = out]
  <1>0. turn[t] = "running" /\ e \in GoodFrame /\ e.at \in {"executing", "answering"}
    BY TopFrame DEF Stands
  <1>1. f \in GoodFrame /\ f.at = "closing"
    BY <1>0 DEF GoodFrame, Frame, At
  <1>2. Becomes(t, f)
    OBVIOUS
  <1> HIDE DEF f
  <1>3. InCall(e) = InCall(f) /\ InTask(e) = InTask(f)
    BY <1>0, <1>1 DEF InCall, InTask, CallAt
  <1> QED BY <1>0, <1>1, <1>2, <1>3, StaysQuiet

\* A task begins: neither it nor its caller's wait is new to the log.
LEMMA DelegateKeeps ==
    ASSUME LoopInv, NEW t \in Turn, NEW target \in Agent, Delegate(t, target)
    PROVE  LoopInv'
  <1> DEFINE s == stack[t]
             e == Top(t)
             g == [e EXCEPT !.at = "delegated"]
             q == Append(SubSeq(s, 1, Len(s) - 1), g)
             f == Fresh(target, "invoking")
             r == Append(q, f)
  <1>0. /\ turn[t] = "running" /\ e \in GoodFrame /\ e.at = "executing"
        /\ Nested(s) /\ Len(s) \in Nat \ {0} /\ Len(s) > 0 /\ s[Len(s)] = e
        /\ Balanced(s, open[t], faults[t])
    BY TopFrame DEF Delegate, Stands, Top
  <1>1. /\ open' = [open EXCEPT ![t] = open[t]] /\ faults' = [faults EXCEPT ![t] = faults[t]]
        /\ open[t] \in [Kind -> Int] /\ faults[t] \in 0 .. MaxFaults
        /\ stack' = [stack EXCEPT ![t] = r] /\ turn' = [turn EXCEPT ![t] = "running"]
    BY <1>0 DEF LoopInv, Delegate, Callers
  <1>2. g \in GoodFrame /\ g.at = "delegated"
    BY <1>0 DEF GoodFrame, Frame, At
  <1>3. f \in GoodFrame /\ f.at = "invoking"
    BY AgentLoopAssumption DEF Fresh, GoodFrame, Frame, At, Outcome
  <1> HIDE DEF e, f, g
  <1>4. Nested(q) /\ Len(q) = Len(s) /\ q[Len(q)] = g
    BY <1>0, <1>2, TopReplaced
  <1> HIDE DEF q
  <1>5. Nested(r) /\ Len(r) = Len(s) + 1 /\ r[Len(r)] = f
    BY <1>0, <1>2, <1>3, <1>4, FramePushed
  <1> HIDE DEF r, s
  <1>6. Calls(s) = Len(s) /\ Calls(r) = Len(s)
    <2>1. InCall(e) = 1 /\ InCall(f) = 0
      BY <1>0, <1>3 DEF InCall, CallAt
    <2> QED BY <1>0, <1>5, <2>1 DEF Calls
  <1>7. Tasks(s) = Len(s) - 1 /\ Tasks(r) = Len(s) - 1
    <2>1. InTask(e) = 1 /\ InTask(f) = 0
      BY <1>0, <1>3 DEF InTask
    <2>2. CASE Len(s) = 1
      BY <1>5, <2>1, <2>2 DEF Tasks
    <2>3. CASE Len(s) > 1
      BY <1>0, <1>5, <2>1, <2>3 DEF Tasks
    <2>4. \A x \in Nat \ {0} : x = 1 \/ x > 1
      OBVIOUS
    <2> QED BY <1>0, <2>2, <2>3, <2>4
  <1>8. InTurn(r, "running", open[t], faults[t])
    BY <1>0, <1>5, <1>6, <1>7 DEF InTurn, Balanced
  <1> QED BY <1>1, <1>8, OneTurn DEF TurnState, s

\* A task ends, and its caller goes on as f; the task counts no longer.
LEMMA Pops ==
    ASSUME LoopInv, NEW t \in Turn, turn[t] = "running", Delegated(t),
           Top(t).at \in {"invoking", "completing", "failing"},
           NEW f \in GoodFrame, f.at \in {"answering", "closing"},
           stack' = [stack EXCEPT ![t] = Append(SubSeq(stack[t], 1, Len(stack[t]) - 2), f)],
           turn' = turn, NEW o \in [Kind -> Int], NEW n \in 0 .. MaxFaults,
           open' = [open EXCEPT ![t] = o], faults' = [faults EXCEPT ![t] = n],
           Pays(Top(t), Fresh(FrontDoor, "invoking"), open[t], o, faults[t], n)
    PROVE  LoopInv'
  <1> DEFINE s == stack[t]
             e == Top(t)
             g == Fresh(FrontDoor, "invoking")
             r == Append(SubSeq(s, 1, Len(s) - 2), f)
  <1>0. /\ Nested(s) /\ Len(s) \in Nat \ {0} /\ s[Len(s)] = e
        /\ Balanced(s, open[t], faults[t])
        /\ open[t] \in [Kind -> Int] /\ faults[t] \in Int /\ n \in Int
    BY TopFrame, AgentLoopAssumption DEF Top
  <1>1. Len(s) > 1
    BY DEF Delegated
  <1>2. Nested(r) /\ Len(r) = Len(s) - 1 /\ r[Len(r)] = f
    BY <1>0, <1>1, FramePopped
  <1>3. stack' = [stack EXCEPT ![t] = r] /\ turn' = [turn EXCEPT ![t] = "running"]
    BY DEF LoopInv
  <1>4. g.at = "invoking"
    BY DEF Fresh
  <1> HIDE DEF r, s, e, g
  <1>5. InCall(f) = 1 /\ InTask(f) = 1 /\ InCall(g) = 0 /\ InTask(g) = 0 /\ InCall(e) = 0
    BY <1>4 DEF InCall, InTask, CallAt, e
  <1>6. InTask(e) \in Int
    BY DEF InTask
  <1>7. Calls(s) = Len(s) - 1 /\ Calls(r) = Len(s) - 1
    BY <1>0, <1>1, <1>2, <1>5 DEF Calls
  <1>8. Tasks(s) = Len(s) - 2 + InTask(e)
    BY <1>0, <1>1, <1>5 DEF Tasks
  <1>9. Tasks(r) = Len(s) - 2
    <2>1. CASE Len(s) = 2
      BY <1>2, <2>1 DEF Tasks
    <2>2. CASE Len(s) > 2
      <3>1. Tasks(r) = Len(r) - 2 + 1
        BY <1>0, <1>2, <1>5, <2>2 DEF Tasks
      <3> QED BY <1>0, <1>2, <3>1
    <2>3. \A x \in Nat \ {0} : x > 1 => x = 2 \/ x > 2
      OBVIOUS
    <2> QED BY <1>0, <1>1, <2>1, <2>2, <2>3
  <1>10. Calls(s) \in Int /\ Calls(r) = Calls(s) + InCall(g) - InCall(e)
    BY <1>0, <1>5, <1>7
  <1>11. Tasks(s) \in Int /\ Tasks(r) = Tasks(s) + InTask(g) - InTask(e)
    BY <1>0, <1>5, <1>6, <1>8, <1>9
  <1>12. Balanced(r, o, n)
    BY <1>0, <1>10, <1>11, PaysBalances DEF g, e
  <1>13. InTurn(r, "running", o, n)
    BY <1>0, <1>1, <1>2, <1>12 DEF InTurn
  <1> QED BY <1>3, <1>13, OneTurn DEF TurnState

\* The two ways a task ends are pops.
LEMMA Ended ==
    ASSUME LoopInv, NEW t \in Turn, turn[t] = "running", Delegated(t)
    PROVE  \E f, g \in GoodFrame :
              /\ f.at = "answering" /\ g.at = "closing"
              /\ Returns(t) => stack' = [stack EXCEPT ![t] =
                                  Append(SubSeq(stack[t], 1, Len(stack[t]) - 2), f)]
              /\ Raises(t) => stack' = [stack EXCEPT ![t] =
                                  Append(SubSeq(stack[t], 1, Len(stack[t]) - 2), g)]
  <1> DEFINE n == Len(stack[t]) - 1
             e == stack[t][n]
             f == [e EXCEPT !.at = "answering"]
             g == [e EXCEPT !.at = "closing", !.out = "raised"]
  <1>1. Nested(stack[t]) /\ Len(stack[t]) \in Nat /\ Len(stack[t]) > 1
    BY TopFrame DEF Delegated
  <1>2. n \in 1 .. Len(stack[t]) - 1 /\ n \in 1 .. Len(stack[t])
    BY <1>1
  <1>3. e \in GoodFrame /\ e.at = "delegated"
    BY <1>1, <1>2 DEF Nested
  <1>4. n - 1 = Len(stack[t]) - 2
    BY <1>1
  <1>5. Returns(t) => stack' = [stack EXCEPT ![t] = Append(SubSeq(stack[t], 1, n - 1), f)]
    BY DEF Returns
  <1>6. Raises(t) => stack' = [stack EXCEPT ![t] = Append(SubSeq(stack[t], 1, n - 1), g)]
    BY DEF Raises
  <1> HIDE DEF n, e
  <1>7. f \in GoodFrame /\ f.at = "answering" /\ g \in GoodFrame /\ g.at = "closing"
    BY <1>3 DEF GoodFrame, Frame, At, Outcome
  <1> HIDE DEF f, g
  <1> QED BY <1>4, <1>5, <1>6, <1>7

\* AGENT_INVOKED, and the events that end a task: the pops and the write.
LEMMA TaskKeeps ==
    ASSUME LoopInv, NEW t \in Turn, NEW w \in Write,
           Invoke(t, w) \/ Complete(t, w) \/ Fail(t, w)
    PROVE  LoopInv'
  <1> DEFINE e == Top(t)
             by == IF e.at = "invoking" THEN 1 ELSE -1
             g == Fresh(FrontDoor, "invoking")
  <1>0. /\ turn[t] = "running" /\ e \in GoodFrame /\ Delegated(t) /\ turn' = turn
        /\ e.at \in {"invoking", "completing", "failing"}
        /\ Audits(t, "task", by, w) /\ by \in Int
    BY TopFrame DEF Invoke, Complete, Fail, Stands
  <1>1. PICK o \in [Kind -> Int], n \in 0 .. MaxFaults :
              /\ open' = [open EXCEPT ![t] = o] /\ faults' = [faults EXCEPT ![t] = n]
              /\ \A k \in Kind \ {"task"} : o[k] = open[t][k]
              /\ o["task"] = open[t]["task"] + (IF w = "raised" THEN 0 ELSE by)
              /\ n = faults[t] + (IF w = "written" THEN 0 ELSE 1)
              /\ w \in {"written", "raised", "committed"}
    BY <1>0, Audited DEF Kind
  <1>2. o["call"] = open[t]["call"]
    BY <1>1 DEF Kind
  <1>3. /\ open[t]["call"] \in Int /\ open[t]["task"] \in Int /\ faults[t] \in Int
        /\ InCall(e) = 0 /\ InCall(g) = 0 /\ InTask(g) = 0
        /\ InTask(e) = IF by = 1 THEN 0 ELSE 1
        /\ by \in {1, -1} /\ (by = 1 <=> e.at = "invoking")
    BY <1>0, TopFrame DEF InCall, InTask, CallAt, Fresh
  <1>4. n - faults[t] = IF w = "written" THEN 0 ELSE 1
    BY <1>1, <1>3
  <1>5. CASE Invoke(t, w) /\ w = "written"
    <2> DEFINE f == [e EXCEPT !.at = "asking"]
    <2>1. f \in GoodFrame /\ f.at = "asking"
      BY <1>0, <1>5 DEF GoodFrame, Frame, At, Invoke, Stands
    <2>2. Becomes(t, f) /\ e.at = "invoking"
      BY <1>5 DEF Invoke, Stands
    <2> HIDE DEF f, e, by
    <2>3. InCall(f) = 0 /\ InTask(f) = 1
      BY <2>1 DEF InCall, InTask, CallAt
    <2>4. o["call"] - open[t]["call"] - InCall(f) + InCall(e) = 0
      BY <1>2, <1>3, <2>3
    <2>5. o["task"] - open[t]["task"] - InTask(f) + InTask(e) = 0
      BY <1>1, <1>3, <1>5, <2>2, <2>3
    <2>6. Pays(e, f, open[t], o, faults[t], n)
      BY <1>4, <1>5, <2>4, <2>5 DEF Pays
    <2> QED BY <1>0, <1>1, <2>1, <2>2, <2>6, Stays DEF e
  <1>6. CASE ~(Invoke(t, w) /\ w = "written")
    <2>1. Returns(t) \/ Raises(t)
      BY <1>6 DEF Invoke, Complete, Fail
    <2>2. w = "written" => by = -1
      BY <1>6 DEF Invoke, Complete, Fail, Stands
    <2>3. PICK f \in GoodFrame :
             /\ f.at \in {"answering", "closing"}
             /\ stack' = [stack EXCEPT ![t] =
                            Append(SubSeq(stack[t], 1, Len(stack[t]) - 2), f)]
      BY <1>0, <2>1, Ended
    <2> HIDE DEF e, by, g
    <2>4. o["call"] - open[t]["call"] - InCall(g) + InCall(e) = 0
      BY <1>2, <1>3
    <2>5. o["task"] - open[t]["task"] - InTask(g) + InTask(e) \in 0 .. n - faults[t]
      <3>1. CASE w = "written"
        <4>1. by = -1 /\ InTask(e) = 1 /\ n - faults[t] = 0
          BY <1>3, <1>4, <2>2, <3>1
        <4>2. o["task"] = open[t]["task"] - 1
          BY <1>1, <1>3, <3>1, <4>1
        <4>3. o["task"] - open[t]["task"] - InTask(g) + InTask(e) = 0
          BY <1>3, <4>1, <4>2
        <4> QED BY <4>1, <4>3
      <3>2. CASE w = "raised"
        BY <1>1, <1>3, <1>4, <3>2
      <3>3. CASE w = "committed"
        BY <1>1, <1>3, <1>4, <3>3
      <3> QED BY <1>1, <3>1, <3>2, <3>3
    <2>6. Pays(e, g, open[t], o, faults[t], n)
      BY <1>1, <1>3, <1>4, <2>4, <2>5 DEF Pays
    <2> QED BY <1>0, <1>1, <2>3, <2>6, Pops DEF e, g
  <1> QED BY <1>5, <1>6

\* ask_agent and run_agent_task.
LEMMA DelegationKeeps ==
    ASSUME LoopInv, NEW t \in Turn, Delegation(t)
    PROVE  LoopInv'
  <1>1. ASSUME NEW target \in Agent, RefuseTarget(t, target) PROVE LoopInv'
    BY <1>1, ClosingKeeps DEF RefuseTarget, Outcome
  <1>2. ASSUME DelegateRaises(t) PROVE LoopInv'
    BY <1>2, ClosingKeeps DEF DelegateRaises, Outcome
  <1>3. ASSUME NEW out \in Outcome, RecordAnswer(t, out) PROVE LoopInv'
    BY <1>3, ClosingKeeps DEF RecordAnswer
  <1> QED BY <1>1, <1>2, <1>3, DelegateKeeps, TaskKeeps DEF Delegation

\* The call of a tool that has ended is still open.
LEMMA ToolKeeps ==
    ASSUME LoopInv, NEW t \in Turn, NEW out \in Outcome, ToolEnds(t, out)
    PROVE  LoopInv'
  BY ClosingKeeps DEF ToolEnds

\* A turn that is cut keeps what it has open; nothing is claimed of it.
LEMMA DiesKeeps ==
    ASSUME LoopInv, NEW t \in Turn, TurnDies(t)
    PROVE  LoopInv'
  BY Stops DEF TurnDies

\* Steps that leave the turns alone.
LEMMA LoopQuiet == LoopInv /\ UNCHANGED loopVars => LoopInv'
  BY DEF LoopInv, loopVars, InTurn

\* The process dies: what was open stays open.
LEMMA AllDieKeeps ==
    ASSUME LoopInv, AllDie
    PROVE  LoopInv'
  <1>1. /\ \A t \in Turn : stack'[t] = << >>
        /\ \A t \in Turn : turn'[t] = IF turn[t] = "running" THEN "cut" ELSE turn[t]
        /\ open' = open /\ faults' = faults
        /\ << >> \in Seq(Frame)
    BY DEF AllDie
  <1>2. stack' \in [Turn -> Seq(Frame)] /\ turn' \in [Turn -> TurnState]
    BY DEF AllDie, LoopInv, TurnState
  <1>3. ASSUME NEW t \in Turn
        PROVE  InTurn(stack'[t], turn'[t], open'[t], faults'[t])
    <2>1. InTurn(stack[t], turn[t], open[t], faults[t])
      BY DEF LoopInv
    <2>2. CASE turn[t] = "running"
      <3>1. turn'[t] = "cut" /\ stack'[t] = << >> /\ Len(<< >>) = 0
        BY <1>1, <2>2
      <3> QED BY <3>1, NoFrames DEF InTurn
    <2>3. CASE turn[t] # "running"
      <3>1. turn'[t] = turn[t] /\ stack'[t] = << >> /\ Len(<< >>) = 0
        BY <1>1, <2>3
      <3>2. Calls(stack[t]) = 0 /\ Tasks(stack[t]) = 0
        BY <2>1, <2>3, NestedFrames DEF InTurn, Calls, Tasks
      <3> QED BY <1>1, <2>1, <2>3, <3>1, <3>2, NoFrames DEF InTurn, Balanced
    <2> QED BY <2>2, <2>3
  <1> QED BY <1>1, <1>2, <1>3 DEF LoopInv

\* The steps of a turn.
LEMMA AloneKeeps ==
    ASSUME LoopInv, NEW t \in Turn, LoopAlone(t)
    PROVE  LoopInv'
  <1>1. ASSUME NEW out \in {"done", "raised"}, ToolEnds(t, out) PROVE LoopInv'
    BY <1>1, ToolKeeps DEF Outcome
  <1> QED BY <1>1, StartKeeps, ThinksKeeps, DelegationKeeps, CallKeeps, CloseKeeps
      DEF LoopAlone

\* The steps of the assistant are steps of a turn, or leave the turns alone.
LEMMA LoopKeeps ==
    ASSUME LoopInv, [AssistantNext]_assistantVars
    PROVE  LoopInv'
  <1>1. ASSUME NEW t \in Turn, TurnCancelled(t) PROVE LoopInv'
    BY <1>1, DiesKeeps DEF TurnCancelled
  <1>2. ASSUME NEW p \in Proposal, Approval(p) PROVE LoopInv'
    BY <1>2, LoopQuiet DEF Approval
  <1>3. CASE UNCHANGED assistantVars
    BY <1>3, LoopQuiet DEF assistantVars
  <1> QED BY <1>1, <1>2, <1>3, AloneKeeps, AllDieKeeps DEF AssistantNext

\* The turns of the assistant keep their invariant.
LEMMA LoopStands == AssistantSpec => []LoopInv
  <1>1. AssistantInit => LoopInv
    BY LoopStarts DEF AssistantInit
  <1>2. LoopInv /\ [AssistantNext]_assistantVars => LoopInv'
    BY LoopKeeps
  <1> QED BY <1>1, <1>2, PTL DEF AssistantSpec

\* Every AGENT_INVOKED and TOOL_CALLED of a turn that was not cut gets its
\* closing event once the agent or the tool is done, and a gap is a write to
\* the audit log that raised (dispatch_tool, run_agent_task): however deep the
\* delegation, and however many tools the model calls.
THEOREM AuditBalancesCorrect == AssistantSpec => []AuditBalances
  <1>1. LoopInv => AuditBalances
    <2> SUFFICES ASSUME LoopInv, NEW t \in Turn, turn[t] # "cut"
                 PROVE  /\ \A kind \in Kind : Gap(t, kind) >= 0
                        /\ Gap(t, "task") + Gap(t, "call") <= faults[t]
      BY DEF AuditBalances
    <2>1. /\ Nested(stack[t]) /\ Balanced(stack[t], open[t], faults[t])
          /\ open[t]["call"] \in Int /\ open[t]["task"] \in Int /\ faults[t] \in Int
      BY AgentLoopAssumption DEF LoopInv, InTurn, Kind
    <2>2. InFrames(t, "call") = Calls(stack[t])
      BY <2>1, CallsCounted DEF InFrames, CallAt
    <2>3. InFrames(t, "task") = Tasks(stack[t])
      BY <2>1, TasksCounted DEF InFrames
    <2>4. Calls(stack[t]) \in Int /\ Tasks(stack[t]) \in Int
      BY <2>1, NestedFrames DEF Calls, Tasks, InCall, InTask
    <2>5. Gap(t, "call") = open[t]["call"] - Calls(stack[t])
      BY <2>2 DEF Gap
    <2>6. Gap(t, "task") = open[t]["task"] - Tasks(stack[t])
      BY <2>3 DEF Gap
    <2>7. Gap(t, "call") >= 0 /\ Gap(t, "task") >= 0
      BY <2>1, <2>4, <2>5, <2>6 DEF Balanced
    <2>8. Gap(t, "task") + Gap(t, "call") <= faults[t]
      BY <2>1, <2>4, <2>5, <2>6 DEF Balanced
    <2> QED BY <2>7, <2>8 DEF Kind
  <1> QED BY <1>1, LoopStands, PTL

\* Whatever the model calls, a task takes MaxIterations rounds at most, an
\* answer MaxCalls tools, and only a running turn has a stack.
THEOREM LoopTypes == AssistantSpec => []LoopTypeOK
  <1>1. LoopInv => LoopTypeOK
    BY DEF LoopInv, LoopTypeOK, Frame, TurnState
  <1> QED BY <1>1, LoopStands, PTL

(***************************************************************************)
(* The shapes that a step of a turn gives its stack.                       *)
(***************************************************************************)
StackStep(t) ==
    \/ Ends(t, "over") \/ Ends(t, "cut")
    \/ StartTurn(t)
    \/ /\ turn[t] = "running" /\ turn' = turn
       /\ \E f \in Frame : Becomes(t, f) /\ f.agent = Top(t).agent
    \/ turn[t] = "running" /\ \E target \in Agent : Delegate(t, target)
    \/ turn[t] = "running" /\ Delegated(t) /\ turn' = turn /\ (Returns(t) \/ Raises(t))

\* The next call or round is still the same agent's.
LEMMA NextCallShape ==
    ASSUME LoopInv, NEW t \in Turn, turn[t] = "running", Top(t).at # "failing",
           Becomes(t, NextCall(t, Top(t))), turn' = turn
    PROVE  StackStep(t)
  <1>1. /\ NextCall(t, Top(t)) \in GoodFrame
        /\ NextCall(t, Top(t)).at \in {"choosing", "asking", "failing"}
    BY TopFrame, NextCallGood
  <1>2. NextCall(t, Top(t)).agent = Top(t).agent
    BY DEF NextCall, Fresh
  <1> QED BY <1>1, <1>2 DEF StackStep, GoodFrame

\* The top frame goes on at another statement.
LEMMA GoesOnShape ==
    ASSUME LoopInv, NEW t \in Turn, turn[t] = "running", turn' = turn,
           NEW at \in At, NEW left \in 0 .. MaxCalls, NEW out \in Outcome,
           NEW tool \in ToolName \cup {AskAgent},
           \/ Becomes(t, [Top(t) EXCEPT !.at = at])
           \/ Becomes(t, [Top(t) EXCEPT !.at = at, !.left = left])
           \/ Becomes(t, [Top(t) EXCEPT !.at = at, !.tool = tool])
           \/ Becomes(t, [Top(t) EXCEPT !.at = at, !.out = out])
    PROVE  StackStep(t)
  <1>1. Top(t) \in Frame
    BY TopFrame
  <1>2. \E f \in Frame : Becomes(t, f) /\ f.agent = Top(t).agent
    <2>1. CASE Becomes(t, [Top(t) EXCEPT !.at = at])
      <3> DEFINE f == [Top(t) EXCEPT !.at = at]
      <3>1. f \in Frame /\ f.agent = Top(t).agent
        BY <1>1 DEF Frame
      <3> QED BY <2>1, <3>1
    <2>2. CASE Becomes(t, [Top(t) EXCEPT !.at = at, !.left = left])
      <3> DEFINE f == [Top(t) EXCEPT !.at = at, !.left = left]
      <3>1. f \in Frame /\ f.agent = Top(t).agent
        BY <1>1 DEF Frame
      <3> QED BY <2>2, <3>1
    <2>3. CASE Becomes(t, [Top(t) EXCEPT !.at = at, !.tool = tool])
      <3> DEFINE f == [Top(t) EXCEPT !.at = at, !.tool = tool]
      <3>1. f \in Frame /\ f.agent = Top(t).agent
        BY <1>1 DEF Frame
      <3> QED BY <2>3, <3>1
    <2>4. CASE Becomes(t, [Top(t) EXCEPT !.at = at, !.out = out])
      <3> DEFINE f == [Top(t) EXCEPT !.at = at, !.out = out]
      <3>1. f \in Frame /\ f.agent = Top(t).agent
        BY <1>1 DEF Frame
      <3> QED BY <2>4, <3>1
    <2> QED BY <2>1, <2>2, <2>3, <2>4
  <1> QED BY <1>2 DEF StackStep

\* Every step of a turn has one of the shapes.
LEMMA Shapes ==
    ASSUME LoopInv, NEW t \in Turn,
           LoopAlone(t) \/ TurnDies(t)
    PROVE  StackStep(t)
  <1> USE DEF Stands
  <1>0. /\ 0 \in 0 .. MaxCalls /\ AskAgent \in ToolName \cup {AskAgent}
        /\ {"done", "raised", "blocked"} \subseteq Outcome /\ "done" \in Outcome
        /\ {"asking", "choosing", "executing", "closing", "completing", "failing"} \subseteq At
    BY AgentLoopAssumption DEF Outcome, At
  <1>1. CASE Thinks(t)
    <2>1. CASE ModelFails(t) \/ ModelAnswers(t)
      <3>1. CASE Delegated(t)
        BY <1>0, <2>1, <3>1, GoesOnShape DEF ModelFails, ModelAnswers
      <3>2. CASE ~Delegated(t)
        BY <2>1, <3>2 DEF ModelFails, ModelAnswers, StackStep
      <3> QED BY <3>1, <3>2
    <2>2. ASSUME NEW n \in 1 .. MaxCalls, ModelCalls(t, n) PROVE StackStep(t)
      <3>1. n \in 0 .. MaxCalls
        BY AgentLoopAssumption
      <3> QED BY <1>0, <2>2, <3>1, GoesOnShape DEF ModelCalls
    <2>3. CASE UnknownTool(t)
      BY <2>3, NextCallShape DEF UnknownTool
    <2> QED BY <1>1, <2>1, <2>2, <2>3 DEF Thinks
  <1>2. ASSUME NEW tool \in ToolName, NEW w \in Write, CallTool(t, tool, w)
        PROVE  StackStep(t)
    <2>1. CASE w = "written"
      BY <1>0, <1>2, <2>1, GoesOnShape DEF CallTool
    <2>2. CASE w # "written"
      BY <1>2, <2>2, NextCallShape DEF CallTool
    <2> QED BY <2>1, <2>2
  <1>3. ASSUME NEW out \in Outcome, ToolEnds(t, out) PROVE StackStep(t)
    BY <1>0, <1>3, GoesOnShape DEF ToolEnds
  <1>4. ASSUME NEW w \in Write, CloseCall(t, w) PROVE StackStep(t)
    BY <1>0, <1>4, NextCallShape, GoesOnShape DEF CloseCall
  <1>5. CASE Delegation(t)
    <2>1. ASSUME NEW target \in Agent, RefuseTarget(t, target) PROVE StackStep(t)
      BY <1>0, <2>1, GoesOnShape DEF RefuseTarget
    <2>2. ASSUME NEW target \in Agent, Delegate(t, target) PROVE StackStep(t)
      BY <2>2 DEF StackStep, Delegate
    <2>3. CASE DelegateRaises(t)
      BY <1>0, <2>3, GoesOnShape DEF DelegateRaises
    <2>4. ASSUME NEW out \in Outcome, RecordAnswer(t, out) PROVE StackStep(t)
      BY <1>0, <2>4, GoesOnShape DEF RecordAnswer
    <2>5. ASSUME NEW w \in Write, Invoke(t, w) \/ Complete(t, w) \/ Fail(t, w)
          PROVE  StackStep(t)
      <3>1. CASE Invoke(t, w) /\ w = "written"
        BY <1>0, <3>1, GoesOnShape DEF Invoke
      <3>2. CASE ~(Invoke(t, w) /\ w = "written")
        <4>1. turn[t] = "running" /\ turn' = turn /\ (Returns(t) \/ Raises(t))
          BY <2>5, <3>2 DEF Invoke, Complete, Fail
        <4>2. Delegated(t)
          BY <2>5, TopFrame DEF Invoke, Complete, Fail
        <4> QED BY <4>1, <4>2 DEF StackStep
      <3> QED BY <3>1, <3>2
    <2> QED BY <1>5, <2>1, <2>2, <2>3, <2>4, <2>5 DEF Delegation
  <1>6. CASE StartTurn(t) \/ TurnDies(t)
    BY <1>6 DEF StackStep, TurnDies
  <1>7. {"done", "raised"} \subseteq Outcome
    BY DEF Outcome
  <1> QED BY <1>1, <1>2, <1>3, <1>4, <1>5, <1>6, <1>7 DEF LoopAlone

\* A step of one turn is no other turn's.
LEMMA Elsewhere ==
    ASSUME LoopInv, NEW t \in Turn, StackStep(t), NEW u \in Turn \ {t}
    PROVE  stack'[u] = stack[u] /\ turn'[u] = turn[u]
  BY DEF LoopInv, StackStep, Ends, StartTurn, Becomes, Delegate, Returns, Raises

\* What the stack of a turn becomes: its last frame gone, or one more, or the
\* same again, with the agents below as they were.
LEMMA Reshaped ==
    ASSUME LoopInv, NEW t \in Turn, StackStep(t), turn'[t] = "running"
    PROVE  \/ StartTurn(t) /\ stack'[t] = <<Fresh(FrontDoor, "asking")>>
           \/ /\ turn[t] = "running"
              /\ \E target \in Delegates[Top(t).agent] :
                    stack'[t] = Append(Append(Callers(t), [Top(t) EXCEPT !.at = "delegated"]),
                                       Fresh(target, "invoking"))
           \/ /\ turn[t] = "running"
              /\ \E f \in Frame :
                    /\ stack'[t] = Append(SubSeq(stack[t], 1, Len(stack[t]) - 1), f)
                    /\ f.agent = Top(t).agent
           \/ /\ turn[t] = "running" /\ Len(stack[t]) > 1
              /\ \E f \in Frame :
                    /\ stack'[t] = Append(SubSeq(stack[t], 1, Len(stack[t]) - 2), f)
                    /\ f.agent = stack[t][Len(stack[t]) - 1].agent
  <1>1. CASE Ends(t, "over") \/ Ends(t, "cut")
    BY <1>1 DEF Ends, LoopInv
  <1>2. CASE StartTurn(t)
    BY <1>2 DEF StartTurn, LoopInv
  <1>3. ASSUME turn[t] = "running", NEW f \in Frame, Becomes(t, f),
               f.agent = Top(t).agent
        PROVE  \E g \in Frame :
                  /\ stack'[t] = Append(SubSeq(stack[t], 1, Len(stack[t]) - 1), g)
                  /\ g.agent = Top(t).agent
    BY <1>3 DEF Becomes, Callers, LoopInv
  <1>4. ASSUME turn[t] = "running", NEW target \in Agent, Delegate(t, target)
        PROVE  \E a \in Delegates[Top(t).agent] :
                    stack'[t] = Append(Append(Callers(t), [Top(t) EXCEPT !.at = "delegated"]),
                                       Fresh(a, "invoking"))
    BY <1>4 DEF Delegate, MayAsk, LoopInv
  <1>5. ASSUME turn[t] = "running", Delegated(t), Returns(t) \/ Raises(t)
        PROVE  /\ Len(stack[t]) > 1
               /\ \E f \in Frame :
                    /\ stack'[t] = Append(SubSeq(stack[t], 1, Len(stack[t]) - 2), f)
                    /\ f.agent = stack[t][Len(stack[t]) - 1].agent
    <2> DEFINE n == Len(stack[t]) - 1
               e == stack[t][n]
               f == [e EXCEPT !.at = "answering"]
               g == [e EXCEPT !.at = "closing", !.out = "raised"]
    <2>1. stack[t] \in Seq(Frame) /\ Len(stack[t]) \in Nat /\ Len(stack[t]) > 1
      BY <1>5, TopFrame DEF Delegated, LoopInv
    <2>2. n \in 1 .. Len(stack[t]) /\ n - 1 = Len(stack[t]) - 2
      BY <2>1
    <2>3. e \in Frame
      BY <2>1, <2>2
    <2>4. \/ stack'[t] = Append(SubSeq(stack[t], 1, n - 1), f)
          \/ stack'[t] = Append(SubSeq(stack[t], 1, n - 1), g)
      BY <1>5 DEF Returns, Raises, LoopInv
    <2> HIDE DEF e, n
    <2>5. /\ f \in Frame /\ f.agent = e.agent /\ f.at = "answering"
          /\ g \in Frame /\ g.agent = e.agent /\ g.out = "raised"
      BY <2>3 DEF Frame, At, Outcome
    <2> HIDE DEF f, g
    <2> QED BY <2>1, <2>2, <2>4, <2>5 DEF e, n
  <1> QED BY <1>1, <1>2, <1>3, <1>4, <1>5 DEF StackStep

\* The assistant's steps, as far as stacks go.
LEMMA StackSteps ==
    ASSUME LoopInv, [AssistantNext]_assistantVars
    PROVE  UNCHANGED loopVars \/ AllDie \/ \E t \in Turn : StackStep(t)
  <1>1. ASSUME NEW t \in Turn, LoopAlone(t) \/ TurnCancelled(t) PROVE StackStep(t)
    BY <1>1, Shapes DEF TurnCancelled
  <1>2. ASSUME NEW p \in Proposal, Approval(p) PROVE UNCHANGED loopVars
    BY <1>2 DEF Approval
  <1>3. CASE UNCHANGED assistantVars
    BY <1>3 DEF assistantVars
  <1> QED BY <1>1, <1>2, <1>3 DEF AssistantNext

(***************************************************************************)
(* Delegation descends: what ask_agent may ask is of a lower rank.         *)
(***************************************************************************)
Falls(s) ==
    /\ \A i \in 1 .. Len(s) : Level[s[i].agent] + i <= Level[FrontDoor] + 1
    /\ \A i, j \in 1 .. Len(s) : i < j => Level[s[j].agent] < Level[s[i].agent]

\* A stack cut back to n frames, the last of which goes on, descends as before.
LEMMA FallsOn ==
    ASSUME NEW s \in Seq(Frame), Falls(s), NEW n \in 1 .. Len(s), NEW f \in Frame,
           f.agent = s[n].agent
    PROVE  Falls(Append(SubSeq(s, 1, n - 1), f))
  <1> DEFINE c == SubSeq(s, 1, n - 1)
             r == Append(c, f)
  <1>1. n \in Nat /\ Len(s) \in Nat /\ n - 1 \in 0 .. Len(s)
    OBVIOUS
  <1>2. c \in Seq(Frame) /\ Len(c) = n - 1 /\ \A i \in 1 .. n - 1 : c[i] = s[i]
    BY <1>1, SubSeqProperties
  <1> HIDE DEF c
  <1>3. Len(r) = n /\ r[n] = f /\ \A i \in 1 .. n - 1 : r[i] = c[i]
    BY <1>1, <1>2, AppendProperties
  <1> HIDE DEF r
  <1>4. \A i \in 1 .. n : i \in 1 .. Len(s) /\ (i \in 1 .. n - 1 \/ i = n)
    BY <1>1
  <1>5. \A i \in 1 .. n : r[i].agent = s[i].agent
    BY <1>2, <1>3, <1>4
  <1>6. Falls(r)
    BY <1>3, <1>4, <1>5 DEF Falls
  <1> QED BY <1>6 DEF r, c

\* A frame of an agent of lower rank on top of a stack.
LEMMA FallsDown ==
    ASSUME NEW s \in Seq(Frame), Falls(s), Len(s) > 0, NEW f \in Frame,
           Level[f.agent] < Level[s[Len(s)].agent]
    PROVE  Falls(Append(s, f))
  <1> DEFINE n == Len(s)
             r == Append(s, f)
  <1>1. n \in Nat /\ n \in 1 .. n
    OBVIOUS
  <1>2. Len(r) = n + 1 /\ r[n + 1] = f /\ \A i \in 1 .. n : r[i] = s[i]
    BY AppendProperties
  <1>3. /\ \A a \in Agent : Level[a] \in Nat
        /\ FrontDoor \in Agent /\ f.agent \in Agent
        /\ \A i \in 1 .. n : s[i].agent \in Agent
    <2>1. \A i \in 1 .. n : s[i] \in Frame
      OBVIOUS
    <2>2. \A g \in Frame : g.agent \in Agent
      BY DEF Frame
    <2> QED BY <2>1, <2>2, AgentLoopAssumption
  <1> HIDE DEF r
  <1>4. \A i \in 1 .. n + 1 : i \in 1 .. n \/ i = n + 1
    BY <1>1
  <1>5. \A i \in 1 .. n : Level[f.agent] < Level[s[i].agent]
    <2> SUFFICES ASSUME NEW i \in 1 .. n PROVE Level[f.agent] < Level[s[i].agent]
      OBVIOUS
    <2>1. i = n \/ Level[s[n].agent] < Level[s[i].agent]
      BY <1>1 DEF Falls
    <2> QED BY <1>1, <1>3, <2>1
  <1>6. Level[f.agent] + (n + 1) <= Level[FrontDoor] + 1
    <2>1. Level[s[n].agent] + n <= Level[FrontDoor] + 1
      BY <1>1 DEF Falls
    <2> QED BY <1>1, <1>3, <2>1
  <1>7. \A i \in 1 .. n + 1 : Level[r[i].agent] + i <= Level[FrontDoor] + 1
    BY <1>2, <1>4, <1>6 DEF Falls
  <1>8. \A i, j \in 1 .. n + 1 : i < j => Level[r[j].agent] < Level[r[i].agent]
    <2> SUFFICES ASSUME NEW i \in 1 .. n + 1, NEW j \in 1 .. n + 1, i < j
                 PROVE  Level[r[j].agent] < Level[r[i].agent]
      OBVIOUS
    <2>1. i \in 1 .. n
      BY <1>1
    <2>2. CASE j = n + 1
      BY <1>2, <1>5, <2>1, <2>2
    <2>3. CASE j \in 1 .. n
      BY <1>2, <2>1, <2>3 DEF Falls
    <2> QED BY <1>4, <2>2, <2>3
  <1>9. Falls(r)
    BY <1>2, <1>7, <1>8 DEF Falls
  <1> QED BY <1>9 DEF r

\* Every step of a turn keeps its stack descending.
LEMMA FallsStep ==
    ASSUME LoopInv, LoopInv', NEW t \in Turn, StackStep(t), Falls(stack[t])
    PROVE  Falls(stack'[t])
  <1> DEFINE s == stack[t]
             r == stack'[t]
  <1>1. CASE turn'[t] # "running"
    <2>1. ~(Len(r) > 0) /\ Len(r) \in Nat
      BY <1>1 DEF LoopInv, InTurn
    <2>2. \A i : i \notin 1 .. Len(r)
      BY <2>1
    <2> QED BY <2>2 DEF Falls
  <1>2. CASE turn'[t] = "running"
    <2>1. CASE r = <<Fresh(FrontDoor, "asking")>>
      <3> DEFINE f == Fresh(FrontDoor, "asking")
      <3>1. f.agent = FrontDoor
        BY DEF Fresh
      <3> HIDE DEF f
      <3>2. Len(<<f>>) = 1 /\ <<f>>[1] = f
        OBVIOUS
      <3>3. Level[FrontDoor] \in Nat
        BY AgentLoopAssumption
      <3>4. Falls(<<f>>)
        BY <3>1, <3>2, <3>3 DEF Falls
      <3> QED BY <2>1, <3>4 DEF f
    <2>2. CASE turn[t] = "running"
      <3>1. s \in Seq(Frame) /\ Len(s) \in Nat \ {0} /\ Top(t) = s[Len(s)] /\ Top(t) \in Frame
        BY <2>2, TopFrame, NestedFrames DEF Top
      <3>2. Len(s) \in 1 .. Len(s)
        BY <3>1
      <3>3. ASSUME NEW a \in Delegates[Top(t).agent],
                   r = Append(Append(Callers(t), [Top(t) EXCEPT !.at = "delegated"]),
                              Fresh(a, "invoking"))
            PROVE  Falls(r)
        <4> DEFINE g == [Top(t) EXCEPT !.at = "delegated"]
                   f == Fresh(a, "invoking")
                   c == SubSeq(s, 1, Len(s) - 1)
                   q == Append(c, g)
        <4>1. g \in Frame /\ g.agent = Top(t).agent
          BY <3>1 DEF Frame, At
        <4>2. /\ a \in Agent /\ f \in Frame /\ f.agent = a
              /\ Level[a] < Level[Top(t).agent]
          <5>1. Top(t).agent \in Agent
            BY <3>1 DEF Frame
          <5>2. a \in Agent /\ Level[a] < Level[Top(t).agent]
            BY <5>1, AgentLoopAssumption
          <5> QED BY <5>2, AgentLoopAssumption DEF Fresh, Frame, At, Outcome
        <4> HIDE DEF g, f
        <4>3. Falls(q)
          BY <3>1, <3>2, <4>1, FallsOn
        <4>4. c \in Seq(Frame) /\ Len(c) = Len(s) - 1
          BY <3>1, SubSeqProperties
        <4> HIDE DEF c
        <4>5. q \in Seq(Frame) /\ Len(q) = Len(s) /\ q[Len(q)] = g /\ Len(q) > 0
          BY <3>1, <4>1, <4>4, AppendProperties
        <4> HIDE DEF q
        <4>6. Falls(Append(q, f))
          BY <4>1, <4>2, <4>3, <4>5, FallsDown
        <4> QED BY <3>3, <4>6 DEF q, c, g, f, Callers
      <3>4. ASSUME NEW f \in Frame, r = Append(SubSeq(s, 1, Len(s) - 1), f),
                   f.agent = Top(t).agent
            PROVE  Falls(r)
        BY <3>1, <3>2, <3>4, FallsOn
      <3>5. ASSUME Len(s) > 1, NEW f \in Frame, r = Append(SubSeq(s, 1, Len(s) - 2), f),
                   f.agent = s[Len(s) - 1].agent
            PROVE  Falls(r)
        <4> DEFINE n == Len(s) - 1
        <4>1. n \in 1 .. Len(s) /\ n - 1 = Len(s) - 2
          BY <3>1, <3>5
        <4> HIDE DEF n
        <4>2. Falls(Append(SubSeq(s, 1, n - 1), f))
          BY <3>1, <3>5, <4>1, FallsOn DEF n
        <4> QED BY <3>5, <4>1, <4>2
      <3> QED BY <1>2, <2>1, <3>3, <3>4, <3>5, Reshaped
    <2> QED BY <1>2, <2>1, <2>2, Reshaped
  <1> QED BY <1>1, <1>2

\* However the model delegates, no agent is asked while it waits for an answer
\* itself, and a turn is no deeper than the front door's rank: nothing but the
\* registry limits the recursion of ask_agent and run_agent_task.
THEOREM DelegationDescends ==
    AssistantSpec =>
        [](\A t \in Turn :
              /\ \A i, j \in 1 .. Len(stack[t]) :
                    i # j => stack[t][i].agent # stack[t][j].agent
              /\ Len(stack[t]) <= Level[FrontDoor] + 1)
  <1> DEFINE AllFall == \A t \in Turn : Falls(stack[t])
             Apart == \A t \in Turn :
                         /\ \A i, j \in 1 .. Len(stack[t]) :
                               i # j => stack[t][i].agent # stack[t][j].agent
                         /\ Len(stack[t]) <= Level[FrontDoor] + 1
  <1>1. AssistantInit => AllFall
    BY DEF AssistantInit, LoopInit, Falls
  <1>2. LoopInv /\ LoopInv' /\ AllFall /\ [AssistantNext]_assistantVars => AllFall'
    <2> SUFFICES ASSUME LoopInv, LoopInv', AllFall, [AssistantNext]_assistantVars,
                        NEW u \in Turn
                 PROVE  Falls(stack'[u])
      OBVIOUS
    <2>1. CASE UNCHANGED loopVars
      BY <2>1 DEF loopVars
    <2>2. CASE AllDie
      BY <2>2 DEF AllDie, Falls
    <2>3. ASSUME NEW t \in Turn, StackStep(t) PROVE Falls(stack'[u])
      BY <2>3, FallsStep, Elsewhere
    <2> QED BY <2>1, <2>2, <2>3, StackSteps
  <1>3. LoopInv /\ AllFall => Apart
    <2> SUFFICES ASSUME LoopInv, AllFall, NEW t \in Turn
                 PROVE  /\ \A i, j \in 1 .. Len(stack[t]) :
                              i # j => stack[t][i].agent # stack[t][j].agent
                        /\ Len(stack[t]) <= Level[FrontDoor] + 1
      OBVIOUS
    <2>1. /\ stack[t] \in Seq(Frame) /\ Len(stack[t]) \in Nat
          /\ \A i \in 1 .. Len(stack[t]) :
                stack[t][i].agent \in Agent /\ Level[stack[t][i].agent] \in Nat
          /\ Level[FrontDoor] \in Nat
      <3>1. stack[t] \in Seq(Frame)
        BY DEF LoopInv
      <3>2. \A i \in 1 .. Len(stack[t]) : stack[t][i] \in Frame
        BY <3>1
      <3>3. \A g \in Frame : g.agent \in Agent
        BY DEF Frame
      <3> QED BY <3>1, <3>2, <3>3, AgentLoopAssumption
    <2>2. \A i, j \in 1 .. Len(stack[t]) : i # j => stack[t][i].agent # stack[t][j].agent
      BY <2>1 DEF Falls
    <2>3. Len(stack[t]) <= Level[FrontDoor] + 1
      <3>1. CASE Len(stack[t]) = 0
        BY <2>1, <3>1
      <3>2. CASE Len(stack[t]) > 0
        <4> DEFINE n == Len(stack[t])
        <4>1. n \in 1 .. n
          BY <2>1, <3>2
        <4>2. Level[stack[t][n].agent] + n <= Level[FrontDoor] + 1
          BY <4>1 DEF Falls
        <4>3. Level[stack[t][n].agent] \in Nat
          BY <2>1, <4>1
        <4> HIDE DEF n
        <4>4. n <= Level[FrontDoor] + 1
          BY <2>1, <4>2, <4>3 DEF n
        <4> QED BY <4>4 DEF n
      <3> QED BY <2>1, <3>1, <3>2
    <2> QED BY <2>2, <2>3
  <1> HIDE DEF AllFall
  <1> QED BY <1>1, <1>2, <1>3, LoopStands, PTL DEF AssistantSpec

=============================================================================
