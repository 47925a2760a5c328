--------------------------- MODULE HarvestClientProof ---------------------------
(***************************************************************************)
(* Proofs about the Harvest client, for any number of calls, any capacity, *)
(* any rate and any cap on the retries.                                    *)
(***************************************************************************)
EXTENDS HarvestClientProps, TLAPS

\* Types, the empty bucket of a penalty and the count of the retries: what every
\* other proof needs.
Sane == TypeOK /\ EmptyAhead /\ Counted

\* A bucket holds between nothing and its capacity after a refill.
LEMMA RefilledRange == ASSUME Sane PROVE Refilled \in 0..Full
  BY HarvestAssumption DEF Sane, TypeOK, Refilled

LEMMA SaneInit == Init => Sane
  BY HarvestAssumption DEF Init, Sane, TypeOK, EmptyAhead, Counted, CallState, Ended

\* The lock's critical sections, the answers and time keep the bucket sane.
LEMMA SaneStep == Sane /\ [Next]_vars => Sane'
  <1> SUFFICES ASSUME Sane, [Next]_vars PROVE Sane'
    OBVIOUS
  <1> USE HarvestAssumption DEF Sane, TypeOK, EmptyAhead, Counted, bucket
  <1>1. CASE Tick
    BY <1>1 DEF Tick
  <1>2. ASSUME NEW c \in Call, Begin(c) PROVE Sane'
    BY <1>2 DEF Begin, CallState
  <1>3. ASSUME NEW c \in Call, Spend(c) PROVE Sane'
    <2>0. Refilled \in 0..Full /\ Refilled >= Cost /\ tokens' = Refilled - Cost
      BY <1>3, RefilledRange DEF Spend
    <2>1. tokens' \in 0..Full
      BY <2>0
    <2>1a. lag' \in Int /\ lag' <= Full
      BY <1>3 DEF Spend, RefilledLag
    <2>2. lag' < 0 => tokens' = 0
      BY <1>3 DEF Spend, RefilledLag, Refilled
    <2>3. spent' \in [0..Window -> Nat] /\ pc' \in [Call -> CallState]
      BY <1>3 DEF Spend, CallState
    <2>4. Counted'
      BY <1>3 DEF Spend, Awake
    <2> QED BY <1>3, <2>1, <2>1a, <2>2, <2>3, <2>4 DEF Spend
  <1>4. ASSUME NEW c \in Call, Doze(c) PROVE Sane'
    <2>1. tokens' \in 0..Full /\ lag' \in Int /\ lag' <= Full
      BY <1>4, RefilledRange DEF Doze, RefilledLag
    <2>2. lag' < 0 => tokens' = 0
      BY <1>4 DEF Doze, RefilledLag, Refilled
    <2>3. Cost - Refilled \in Nat
      BY <1>4, RefilledRange DEF Doze
    <2> QED BY <1>4, <2>1, <2>2, <2>3 DEF Doze
  <1>5. ASSUME NEW c \in Call, NEW how \in Ended, NEW n \in {0, 1}, End(c, how, n)
        PROVE  Sane'
    BY <1>5 DEF End, CallState
  <1>6. ASSUME NEW c \in Call, GivesUp(c) PROVE Sane'
    <2>1. attempts[c] <= MaxRetries /\ attempts[c] \in Nat
      BY <1>6 DEF GivesUp
    <2>2. attempts' \in [Call -> 0..(MaxRetries + 1)]
      BY <1>6, <2>1 DEF GivesUp, Count
    <2>3. pc' \in [Call -> CallState] /\ Counted'
      BY <1>6 DEF GivesUp, CallState, Ended
    <2> QED BY <1>6, <2>2, <2>3 DEF GivesUp
  <1>7. ASSUME NEW c \in Call, NEW r \in RetryAfter, Throttled(c, r) PROVE Sane'
    BY <1>7 DEF Throttled, Count, Penalize, CallState
  <1>8. CASE UNCHANGED vars
    BY <1>8 DEF vars
  <1> QED
    BY <1>1, <1>2, <1>3, <1>4, <1>5, <1>6, <1>7, <1>8
    DEF Next, Acquire, Answer, Accepted, Refused, Doubtful, Ended

LEMMA SaneAlways == Spec => []Sane
  BY SaneInit, SaneStep, PTL DEF Spec

\* The bucket is never overdrawn nor over its capacity, for any interleaving of
\* callers, sleeps and penalties.
THEOREM TypeOKCorrect == Spec => []TypeOK
  <1>1. Sane => TypeOK
    BY DEF Sane
  <1> QED BY <1>1, SaneAlways, PTL

(***************************************************************************)
(* The rate.                                                               *)
(***************************************************************************)
LEMMA BudgetInit == Init => Budget
  BY HarvestAssumption DEF Init, Budget, Refilled

\* Adding what an interval allows loses nothing of a bound.
LEMMA WithinFull ==
    ASSUME NEW x \in 0..Full, NEW y, y = 0, NEW a \in 0..Window
    PROVE  y + x <= Full + a
  BY HarvestAssumption

\* What is spent leaves the bucket; a tick adds one grain to the bucket and one
\* to what the interval allows; a penalty no shorter than a token's refill adds
\* nothing.
LEMMA BudgetStep == ASSUME LongRetry PROVE Sane /\ Budget /\ [Next]_vars => Budget'
  <1> SUFFICES ASSUME Sane, Budget, [Next]_vars, NEW a \in 0..Window
               PROVE  spent'[a] + Refilled' <= Full + a
    BY DEF Budget
  <1> USE HarvestAssumption DEF Sane, TypeOK, bucket
  <1>0. spent[a] \in Nat /\ Refilled \in 0..Full /\ spent[a] + Refilled <= Full + a
    BY RefilledRange DEF Budget
  <1>1. CASE Tick
    <2>1. Refilled' <= Refilled + 1 /\ Refilled' \in 0..Full
      BY <1>1 DEF Tick, Refilled, EmptyAhead
    <2>2. CASE a = 0
      <3>1. spent'[a] = 0
        BY <1>1, <2>2 DEF Tick
      <3> QED BY <2>1, <3>1, WithinFull
    <2>3. CASE a # 0
      <3>1. a - 1 \in 0..Window /\ spent[a - 1] \in Nat
        BY <2>3
      <3>2. spent[a - 1] + Refilled <= Full + (a - 1)
        BY <3>1 DEF Budget
      <3>3. spent'[a] = spent[a - 1]
        BY <1>1, <2>3 DEF Tick
      <3> QED BY <1>0, <2>1, <3>1, <3>2, <3>3
    <2> QED BY <2>2, <2>3
  <1>2. ASSUME NEW c \in Call, Begin(c) PROVE spent'[a] + Refilled' <= Full + a
    BY <1>0, <1>2 DEF Begin, Refilled
  <1>3. ASSUME NEW c \in Call, Spend(c) PROVE spent'[a] + Refilled' <= Full + a
    <2>1. Refilled' = Refilled - Cost
      BY <1>0, <1>3 DEF Spend, RefilledLag, Refilled
    <2> QED BY <1>0, <1>3, <2>1 DEF Spend
  <1>4. ASSUME NEW c \in Call, Doze(c) PROVE spent'[a] + Refilled' <= Full + a
    <2>1. Refilled' = Refilled
      BY <1>0, <1>4 DEF Doze, RefilledLag, Refilled
    <2> QED BY <1>0, <1>4, <2>1 DEF Doze
  <1>5. ASSUME NEW c \in Call, NEW how \in Ended, NEW n \in {0, 1}, End(c, how, n)
        PROVE  spent'[a] + Refilled' <= Full + a
    BY <1>0, <1>5 DEF End, Refilled
  <1>6. ASSUME NEW c \in Call, GivesUp(c) PROVE spent'[a] + Refilled' <= Full + a
    BY <1>0, <1>6 DEF GivesUp, Refilled
  <1>7. ASSUME NEW c \in Call, NEW r \in RetryAfter, Throttled(c, r)
        PROVE  spent'[a] + Refilled' <= Full + a
    <2>1. Refilled' = 0
      BY <1>7 DEF Throttled, Penalize, Refilled, LongRetry
    <2> QED BY <1>0, <1>7, <2>1 DEF Throttled
  <1>8. CASE UNCHANGED vars
    BY <1>0, <1>8 DEF vars, Refilled
  <1> QED
    BY <1>1, <1>2, <1>3, <1>4, <1>5, <1>6, <1>7, <1>8
    DEF Next, Acquire, Answer, Accepted, Refused, Doubtful, Ended

\* In any interval, the requests of one process stay within the capacity of the
\* bucket plus what the interval refills.
THEOREM RateBoundCorrect == ASSUME LongRetry PROVE Spec => []RateBound
  <1>1. Sane /\ Budget => RateBound
    BY RefilledRange, HarvestAssumption DEF RateBound, Budget, Sane, TypeOK
  <1> QED BY <1>1, BudgetInit, BudgetStep, SaneAlways, PTL DEF Spec

(***************************************************************************)
(* The penalty.                                                            *)
(***************************************************************************)
LEMMA DrainedInit == Init => Drained
  BY DEF Init, Drained

\* A 429 empties the bucket until its own end; time and callers only refill it.
LEMMA DrainedStep == Sane /\ Drained /\ [Next]_vars => Drained'
  <1> SUFFICES ASSUME Sane, Drained, [Next]_vars PROVE Drained'
    OBVIOUS
  <1> USE HarvestAssumption DEF Sane, TypeOK, EmptyAhead, Drained, bucket
  <1>1. CASE Tick
    BY <1>1 DEF Tick
  <1>2. ASSUME NEW c \in Call, Begin(c) \/ GivesUp(c) PROVE Drained'
    BY <1>2 DEF Begin, GivesUp
  <1>3. ASSUME NEW c \in Call, Spend(c) \/ Doze(c) PROVE Drained'
    BY <1>3 DEF Spend, Doze, Refilled, RefilledLag
  <1>4. ASSUME NEW c \in Call, NEW how \in Ended, NEW n \in {0, 1}, End(c, how, n)
        PROVE  Drained'
    BY <1>4 DEF End
  <1>5. ASSUME NEW c \in Call, NEW r \in RetryAfter, Throttled(c, r) PROVE Drained'
    BY <1>5 DEF Throttled, Penalize
  <1>6. CASE UNCHANGED vars
    BY <1>6 DEF vars
  <1> QED
    BY <1>1, <1>2, <1>3, <1>4, <1>5, <1>6
    DEF Next, Acquire, Answer, Accepted, Refused, Doubtful, Ended

\* Nobody takes a token during a penalty.
LEMMA NoEarlyStart ==
    ASSUME Sane, Drained, Next, NEW c \in Call, pc[c] = "acquiring", pc'[c] = "sent"
    PROVE  penalty = 0
  <1> USE HarvestAssumption DEF Sane, TypeOK, EmptyAhead, bucket
  <1>1. CASE \E d \in Call : Spend(d)
    BY <1>1 DEF Spend, Refilled, Drained
  <1>2. CASE ~\E d \in Call : Spend(d)
    BY <1>2 DEF Next, Tick, Begin, Acquire, Doze, Answer, Accepted, Refused, Doubtful,
       End, GivesUp, Throttled
  <1> QED BY <1>1, <1>2

\* No request starts before the Retry-After of the latest 429 is over, in
\* whatever order the 429s come and whenever their penalties end.
THEOREM PenaltyHoldsCorrect == Spec => PenaltyHolds
  <1>1. Sane /\ Drained /\ [Next]_vars =>
          [\A c \in Call : pc[c] = "acquiring" /\ pc'[c] = "sent" => penalty = 0]_vars
    BY NoEarlyStart
  <1> QED BY <1>1, DrainedInit, DrainedStep, SaneAlways, PTL DEF Spec, PenaltyHolds

(***************************************************************************)
(* The verdict.                                                            *)
(***************************************************************************)
LEMMA VerdictInit == Init => Untouched /\ VerdictTrue
  BY DEF Init, Untouched, VerdictTrue

\* An attempt that may have created an invoice is the last one of its call.
LEMMA VerdictStep ==
    Sane /\ Untouched /\ VerdictTrue /\ [Next]_vars => Untouched' /\ VerdictTrue'
  <1> SUFFICES ASSUME Sane, Untouched, VerdictTrue, [Next]_vars
               PROVE  Untouched' /\ VerdictTrue'
    OBVIOUS
  <1> USE DEF Sane, TypeOK, Untouched, VerdictTrue, bucket
  <1>1. CASE Tick
    BY <1>1 DEF Tick
  <1>2. ASSUME NEW c \in Call, Begin(c) \/ Spend(c) \/ Doze(c)
        PROVE  Untouched' /\ VerdictTrue'
    BY <1>2 DEF Begin, Spend, Doze, Awake
  <1>3. ASSUME NEW c \in Call, Accepted(c) \/ Refused(c) \/ Doubtful(c)
        PROVE  Untouched' /\ VerdictTrue'
    <2>1. landed[c] = 0
      BY <1>3 DEF Accepted, Refused, Doubtful, End
    <2>2. CASE Accepted(c)
      BY <2>1, <2>2 DEF Accepted, End
    <2>3. CASE Refused(c)
      BY <2>1, <2>3 DEF Refused, End
    <2>4. CASE Doubtful(c)
      BY <2>1, <2>4 DEF Doubtful, End
    <2> QED BY <1>3, <2>2, <2>3, <2>4
  <1>4. ASSUME NEW c \in Call, GivesUp(c) PROVE Untouched' /\ VerdictTrue'
    BY <1>4 DEF GivesUp
  <1>5. ASSUME NEW c \in Call, NEW r \in RetryAfter, Throttled(c, r)
        PROVE  Untouched' /\ VerdictTrue'
    BY <1>5 DEF Throttled
  <1>6. CASE UNCHANGED vars
    BY <1>6 DEF vars
  <1> QED BY <1>1, <1>2, <1>3, <1>4, <1>5, <1>6 DEF Next, Acquire, Answer

\* A call creates at most one invoice, and none if it ends in a 4xx.
THEOREM VerdictTrueCorrect == Spec => []VerdictTrue
  BY VerdictInit, VerdictStep, SaneAlways, PTL DEF Spec
=============================================================================
