----------------------------- MODULE ChatTurnProof -----------------------------
(***************************************************************************)
(* Proofs about chat turns, for any number of posts at any moments, any    *)
(* number of sessions, and processes that may overlap.                     *)
(***************************************************************************)
EXTENDS ChatTurnProps, TLAPS

\* Nothing has been posted and no process runs.
LEMMA InvInit == Init => TurnInv
  BY DEF Init, TurnInv, TypeOK, Placed, PassedFinal, WorkingStreams, Serial, NoOrphans,
     HistoryComplete, Working, WrittenOff, RowStatus, TurnState, AtWork, Final

\* The history a load may return is a set of messages of the session.
LEMMA NewestIsSubset == ASSUME NEW S, NEW h \in Newest(S) PROVE h \subseteq S
  BY DEF Newest

\* Types and the local facts survive every step.
LEMMA StructureStep ==
    ASSUME TurnInv, Next
    PROVE  TypeOK' /\ Placed'
  <1> USE ChatAssumption DEF TurnInv, TypeOK, Placed, table, memory, RowStatus, TurnState,
      AtWork, Final, InSession, Leave
  <1>1. ASSUME NEW p \in Process, StartProcess(p) PROVE TypeOK' /\ Placed'
    BY <1>1 DEF StartProcess
  <1>2. ASSUME NEW p \in Process, StopProcess(p) PROVE TypeOK' /\ Placed'
    BY <1>2 DEF StopProcess
  <1>3. ASSUME NEW t \in Turn, Request(t) PROVE TypeOK' /\ Placed'
    <2>1. ASSUME NEW s \in Session, NEW p \in Process, Admit(t, s, p)
          PROVE  TypeOK' /\ Placed'
      BY <2>1 DEF Admit
    <2>2. CASE Prepare(t)
      BY <2>2 DEF Prepare, Role
    <2>3. CASE PrepareRaises(t) \/ LoadRaises(t)
      BY <2>3 DEF PrepareRaises, LoadRaises
    <2>4. CASE LoadHistory(t)
      <3>1. PICK h \in Newest(Complete(session[t])) : history' = [history EXCEPT ![t] = h]
        BY <2>4 DEF LoadHistory
      <3>2. h \in SUBSET Message
        BY <3>1, NewestIsSubset DEF Complete
      <3> QED BY <2>4, <3>1, <3>2 DEF LoadHistory
    <2> QED BY <1>3, <2>1, <2>2, <2>3, <2>4 DEF Request
  <1>4. ASSUME NEW t \in Turn, Task(t) PROVE TypeOK' /\ Placed'
    <2>1. ASSUME NEW s \in Final, EndTurn(t, s) PROVE TypeOK' /\ Placed'
      BY <2>1 DEF EndTurn
    <2>2. CASE Finalize(t)
      BY <2>2 DEF Finalize, Recorded, Answered, Role
    <2>3. CASE FinalizeRaises(t)
      BY <2>3 DEF FinalizeRaises, Recorded, Answered, Role
    <2> QED BY <1>4, <2>1, <2>2, <2>3 DEF Task
  <1>5. ASSUME NEW s \in Session, DeleteSession(s) PROVE TypeOK' /\ Placed'
    BY <1>5 DEF DeleteSession
  <1> QED BY <1>1, <1>2, <1>3, <1>4, <1>5 DEF Next

\* A turn at work keeps its placeholder, unless a start-up or a deletion takes
\* it, and no streaming row is there when a process starts.
LEMMA RowsStep ==
    ASSUME TurnInv, Next
    PROVE  WorkingStreams' /\ NoOrphans'
  <1> USE ChatAssumption DEF TurnInv, TypeOK, Placed, WorkingStreams, NoOrphans, Working,
      WrittenOff, table, memory, AtWork, Final, Leave
  <1>1. ASSUME NEW p \in Process, StartProcess(p) PROVE WorkingStreams' /\ NoOrphans'
    BY <1>1 DEF StartProcess
  <1>2. ASSUME NEW p \in Process, StopProcess(p) PROVE WorkingStreams' /\ NoOrphans'
    BY <1>2 DEF StopProcess
  <1>3. ASSUME NEW t \in Turn, Request(t) PROVE WorkingStreams' /\ NoOrphans'
    BY <1>3 DEF Request, Admit, Prepare, PrepareRaises, LoadHistory, LoadRaises
  <1>4. ASSUME NEW t \in Turn, Task(t) PROVE WorkingStreams' /\ NoOrphans'
    BY <1>4 DEF Task, EndTurn, Finalize, FinalizeRaises, Recorded
  <1>5. ASSUME NEW s \in Session, DeleteSession(s) PROVE WorkingStreams' /\ NoOrphans'
    BY <1>5 DEF DeleteSession
  <1> QED BY <1>1, <1>2, <1>3, <1>4, <1>5 DEF Next

\* What a post saw in the table when it was admitted: turns whose rows were
\* final, none of which works on unless it was written off.
LEMMA PassedStep ==
    ASSUME TurnInv, Next
    PROVE  PassedFinal' /\ Serial'
  <1> USE ChatAssumption DEF TurnInv, TypeOK, Placed, PassedFinal, Serial, Working,
      WrittenOff, table, memory, RowStatus, AtWork, Final, Leave, InSession
  <1>1. ASSUME NEW p \in Process, StartProcess(p) PROVE PassedFinal' /\ Serial'
    BY <1>1 DEF StartProcess
  <1>2. ASSUME NEW p \in Process, StopProcess(p) PROVE PassedFinal' /\ Serial'
    BY <1>2 DEF StopProcess
  <1>3. ASSUME NEW t \in Turn, NEW s \in Session, NEW p \in Process, Admit(t, s, p)
        PROVE  PassedFinal' /\ Serial'
    BY <1>3 DEF Admit, HasStreaming, WorkingStreams
  <1>4. ASSUME NEW t \in Turn,
               Prepare(t) \/ PrepareRaises(t) \/ LoadHistory(t) \/ LoadRaises(t)
        PROVE  PassedFinal' /\ Serial'
    BY <1>4 DEF Prepare, PrepareRaises, LoadHistory, LoadRaises
  <1>5. ASSUME NEW t \in Turn, Task(t) PROVE PassedFinal' /\ Serial'
    BY <1>5 DEF Task, EndTurn, Finalize, FinalizeRaises, Recorded
  <1>6. ASSUME NEW s \in Session, DeleteSession(s) PROVE PassedFinal' /\ Serial'
    BY <1>6 DEF DeleteSession
  <1> QED BY <1>1, <1>2, <1>3, <1>4, <1>5, <1>6 DEF Next, Request

\* While t works, the messages above it do not grow, but for the answer of a
\* turn that was written off.
LEMMA AboveStep ==
    ASSUME TurnInv, Next, NEW t \in Turn, Working(t), Working(t)',
           NEW m \in Above(t)'
    PROVE  m \in Above(t) \/ (m[2] = "assistant" /\ WrittenOff(m[1])')
  <1> USE ChatAssumption DEF TurnInv, TypeOK, Placed, Working, WrittenOff, table, memory,
      AtWork, Final, Leave, Above, Complete, Message, Role
  <1>1. ASSUME NEW p \in Process, StartProcess(p) \/ StopProcess(p) PROVE m \in Above(t)
    BY <1>1 DEF StartProcess, StopProcess
  <1>2. ASSUME NEW u \in Turn, NEW s \in Session, NEW p \in Process, Admit(u, s, p)
        PROVE  m \in Above(t)
    BY <1>2 DEF Admit
  <1>3. ASSUME NEW u \in Turn, Prepare(u) PROVE m \in Above(t)
    BY <1>3 DEF Prepare, PassedFinal
  <1>4. ASSUME NEW u \in Turn, PrepareRaises(u) \/ LoadHistory(u) \/ LoadRaises(u)
        PROVE  m \in Above(t)
    BY <1>4 DEF PrepareRaises, LoadHistory, LoadRaises
  <1>5. ASSUME NEW u \in Turn, NEW s \in Final, EndTurn(u, s) PROVE m \in Above(t)
    BY <1>5 DEF EndTurn
  <1>6. ASSUME NEW u \in Turn, Finalize(u) \/ FinalizeRaises(u)
        PROVE  m \in Above(t) \/ (m[2] = "assistant" /\ WrittenOff(m[1])')
    <2>1. CASE u \in passed[t]
      BY <1>6, <2>1 DEF Finalize, FinalizeRaises, Recorded, Answered, Serial
    <2>2. CASE u \notin passed[t]
      BY <1>6, <2>2 DEF Finalize, FinalizeRaises, Recorded, Answered
    <2> QED BY <2>1, <2>2
  <1>7. ASSUME NEW s \in Session, DeleteSession(s) PROVE m \in Above(t)
    BY <1>7 DEF DeleteSession
  <1> QED BY <1>1, <1>2, <1>3, <1>4, <1>5, <1>6, <1>7 DEF Next, Request, Task

\* What a load leaves out is out of its limit's reach and not newer.
LEMMA LoadStep ==
    ASSUME TurnInv, NEW t \in Turn, LoadHistory(t), NEW m \in Above(t) \ history'[t]
    PROVE  Cardinality(history'[t]) = Limit /\ \A n \in history'[t] : ~Older(n, m)
  <1>1. PICK h \in Newest(Complete(session[t])) : history' = [history EXCEPT ![t] = h]
    BY DEF LoadHistory
  <1>2. history'[t] = h
    BY <1>1 DEF TurnInv, TypeOK
  <1>3. m \in Complete(session[t]) \ h
    BY <1>2 DEF Above
  <1> QED BY <1>1, <1>2, <1>3 DEF Newest

\* The history of a turn stays the end of the conversation above it.
LEMMA HistoryStep ==
    ASSUME TurnInv, Next
    PROVE  HistoryComplete'
  <1> SUFFICES ASSUME NEW t \in Turn, Working(t)', (pc[t] # "prepared")',
                      NEW m \in (Above(t) \ history[t])'
               PROVE  \/ /\ Cardinality(history'[t]) = Limit
                         /\ \A n \in history'[t] : ~Older(n, m)'
                      \/ m[2] = "assistant" /\ WrittenOff(m[1])'
    BY DEF HistoryComplete
  <1>1. CASE LoadHistory(t)
    <2>1. Above(t)' = Above(t) /\ (\A n : Older(n, m)' <=> Older(n, m))
      BY <1>1 DEF LoadHistory, Above, Complete, Older, table
    <2> QED BY <1>1, <2>1, LoadStep
  <1>2. CASE ~LoadHistory(t)
    <2> DEFINE Keeps == /\ Working(t) /\ pc[t] # "prepared" /\ history'[t] = history[t]
                        /\ passed'[m[1]] = passed[m[1]]
                        /\ WrittenOff(m[1]) => WrittenOff(m[1])'
    <2>1. m[1] \in Turn /\ Keeps
      <3> USE ChatAssumption DEF TurnInv, TypeOK, Placed, Working, WrittenOff, table, memory,
          TurnState, AtWork, Leave, Above, Complete, Message
      <3>0. m[1] \in Turn
        OBVIOUS
      <3>1. ASSUME NEW p \in Process, StartProcess(p) \/ StopProcess(p) PROVE Keeps
        BY <3>0, <3>1 DEF StartProcess, StopProcess
      <3>2. ASSUME NEW u \in Turn, NEW s \in Session, NEW p \in Process, Admit(u, s, p)
            PROVE  Keeps
        BY <3>0, <3>2 DEF Admit
      <3>3. ASSUME NEW u \in Turn, Prepare(u) PROVE Keeps
        <4>1. t # u /\ (m[1] = t \/ m[1] \in passed[t])
          BY <3>3 DEF Prepare
        <4>2. m[1] # u
          BY <3>3, <4>1 DEF Prepare, PassedFinal
        <4> QED BY <3>0, <3>3, <4>1, <4>2 DEF Prepare
      <3>4. ASSUME NEW u \in Turn, LoadHistory(u) PROVE Keeps
        <4> HIDE DEF Complete
        <4>1. t # u /\ pc' = [pc EXCEPT ![u] = "running"]
              /\ UNCHANGED <<passed, born, started>>
          BY <1>2, <3>4 DEF LoadHistory
        <4>2. history'[t] = history[t]
          BY <3>4, <4>1 DEF LoadHistory
        <4> QED BY <3>0, <4>1, <4>2
      <3>5. ASSUME NEW u \in Turn, PrepareRaises(u) \/ LoadRaises(u) PROVE Keeps
        BY <3>0, <3>5 DEF PrepareRaises, LoadRaises
      <3>6. ASSUME NEW u \in Turn, Task(u) PROVE Keeps
        BY <3>0, <3>6 DEF Task, EndTurn, Finalize, FinalizeRaises
      <3>7. ASSUME NEW s \in Session, DeleteSession(s) PROVE Keeps
        BY <3>0, <3>7 DEF DeleteSession
      <3> QED BY <3>0, <3>1, <3>2, <3>3, <3>4, <3>5, <3>6, <3>7 DEF Next, Request
    <2>2. \A n : Older(n, m)' <=> Older(n, m)
      BY <2>1 DEF Older
    <2> QED BY <2>1, <2>2, AboveStep DEF TurnInv, HistoryComplete
  <1> QED BY <1>1, <1>2

\* The invariant is inductive.
LEMMA InvStep == TurnInv /\ [Next]_vars => TurnInv'
  <1>1. ASSUME TurnInv, Next PROVE TurnInv'
    BY <1>1, StructureStep, RowsStep, PassedStep, HistoryStep DEF TurnInv
  <1>2. ASSUME TurnInv, UNCHANGED vars PROVE TurnInv'
    BY <1>2 DEF vars, table, memory, TurnInv, TypeOK, Placed, PassedFinal, WorkingStreams,
       Serial, NoOrphans, HistoryComplete, Working, WrittenOff, Above, Complete, Older
  <1> QED BY <1>1, <1>2

\* Types, the facts about rows and processes, and what a post saw when it was
\* admitted: the whole invariant of the turns.
THEOREM TurnInvCorrect == Spec => []TurnInv
  BY InvInit, InvStep, PTL DEF Spec

\* No post is let in beside a turn at work whose rows were there, unless a
\* start-up wrote that turn off; posts may race and processes may overlap.
THEOREM SerialCorrect == Spec => []Serial
  <1>1. TurnInv => Serial
    BY DEF TurnInv
  <1> QED BY <1>1, TurnInvCorrect, PTL

\* No streaming row outlives the start-up of a process, and each has a turn
\* that is at work, failed to record its end or was lost with its process.
THEOREM NoOrphansCorrect == Spec => []NoOrphans
  <1>1. TurnInv => NoOrphans
    BY DEF TurnInv
  <1> QED BY <1>1, TurnInvCorrect, PTL

\* The model is given the last messages above its turn without a gap, whatever
\* the limit and whatever the answers and questions that are empty.
THEOREM HistoryCompleteCorrect == Spec => []HistoryComplete
  <1>1. TurnInv => HistoryComplete
    BY DEF TurnInv
  <1> QED BY <1>1, TurnInvCorrect, PTL

\* A final row is overwritten only by the end of a turn that was written off.
LEMMA FinalStands ==
    ASSUME TurnInv, Next, NEW t \in Turn, row[t] \in Final
    PROVE  \/ row'[t] = row[t]
           \/ session[t] \in deleted'
           \/ row[t] = "failed" /\ WrittenOff(t)
  <1> USE DEF TurnInv, TypeOK, Placed, Final, table, memory, AtWork
  <1>1. ASSUME NEW p \in Process, StartProcess(p) \/ StopProcess(p)
        PROVE  row'[t] = row[t]
    BY <1>1 DEF StartProcess, StopProcess
  <1>2. ASSUME NEW u \in Turn, Request(u) PROVE row'[t] = row[t]
    BY <1>2 DEF Request, Admit, Prepare, PrepareRaises, LoadHistory, LoadRaises
  <1>3. ASSUME NEW u \in Turn, Task(u)
        PROVE  \/ row'[t] = row[t]
               \/ session[t] \in deleted'
               \/ row[t] = "failed" /\ WrittenOff(t)
    BY <1>3 DEF Task, EndTurn, Finalize, FinalizeRaises, Recorded, WorkingStreams, Working
  <1>4. ASSUME NEW s \in Session, DeleteSession(s)
        PROVE  row'[t] = row[t] \/ session[t] \in deleted'
    BY <1>4 DEF DeleteSession
  <1> QED BY <1>1, <1>2, <1>3, <1>4 DEF Next

\* An answer once shown stands, and a failure too, unless a start-up wrote it
\* over a turn at work in an overlapping process.
THEOREM FinalRowStandsCorrect == Spec => FinalRowStands
  <1>1. TurnInv /\ [Next]_vars =>
          [\A t \in Turn :
             row[t] \in Final =>
                 \/ row'[t] = row[t]
                 \/ session[t] \in deleted'
                 \/ row[t] = "failed" /\ WrittenOff(t)]_vars
    BY FinalStands
  <1> QED BY <1>1, TurnInvCorrect, PTL DEF Spec, FinalRowStands
=============================================================================
