---------------------------- MODULE RevenueRunProof ----------------------------
(***************************************************************************)
(* Proofs about revenue recognition, for any number of runs, projects,     *)
(* months and planners.  The months may be planned and closed in any order.*)
(***************************************************************************)
EXTENDS RevenueRunProps, FiniteSetTheorems, WellFoundedInduction, TLAPS

Status == {"none", "draft", "recognized", "abandoned", "deleted"}

\* A set of entries by project; what the amounts are does not matter here.
Book(e) ==
    /\ DOMAIN e \subseteq Project
    /\ e = [q \in DOMAIN e |-> e[q]]
    /\ \A q \in DOMAIN e :
          e[q] = [type |-> e[q].type, overridden |-> e[q].overridden,
                  target |-> e[q].target, amount |-> e[q].amount,
                  against |-> e[q].against]

\* The part of TypeOK that needs no arithmetic.
Shaped ==
    /\ status \in [Run -> Status]
    /\ month \in [Run -> 0 .. LastMonth]
    /\ pc \in [Planner -> PlannerState]
    /\ period \in [Planner -> 0 .. LastMonth]
    /\ entries = [r \in Run |-> entries[r]]
    /\ drafted = [p \in Planner |-> drafted[p]]
    /\ \A r \in Run : Book(entries[r])
    /\ \A p \in Planner : Book(drafted[p])

\* A planner past idle plans a month, and a run that is not gone is of one.
Dated ==
    /\ \A p \in Planner : pc[p] # "idle" => period[p] \in Month
    /\ \A r \in Run : status[r] \in {"draft", "recognized", "abandoned"} => month[r] \in Month

\* A retainer's entry stays at zero until somebody overrides it.
Waits(e) ==
    \A q \in DOMAIN e : e[q].type = "retainer" => e[q].amount = 0 \/ e[q].overridden

RetainersWait ==
    /\ \A r \in Run : Waits(entries[r])
    /\ \A p \in Planner : Waits(drafted[p])

Inv == Shaped /\ Dated /\ RetainersWait /\ RetainersDecided /\ OneLiveRun

\* Before anything is planned there is nothing to get wrong.
LEMMA InvInit == Init => Inv
  BY RevenueAssumption
  DEF Init, NoEntries, Inv, Shaped, Status, Book, PlannerState, Dated, RetainersWait, Waits,
      RetainersDecided, Recognized, OneLiveRun, Claims

\* The loop over the projects adds one well-formed entry at a time, and a
\* retainer's is zero whatever the project has recognized so far.
LEMMA EntryStep ==
    ASSUME Inv, NEW p \in Planner, NEW q \in Project, NEW figure \in Figure,
           NEW worked \in BOOLEAN, PlanEntry(p, q, figure, worked)
    PROVE  Book(drafted'[p]) /\ Waits(drafted'[p])
  <1> DEFINE new == NewEntry(listed[p][q].type, figure, PriorRecognized(q, period[p]),
                             PriorRuns(period[p]))
             more == [x \in DOMAIN drafted[p] \cup {q} |->
                        IF x = q THEN new ELSE drafted[p][x]]
  <1>1. drafted'[p] \in {drafted[p], more}
    BY DEF PlanEntry, Inv, Shaped
  <1>2. Book(drafted[p]) /\ Waits(drafted[p])
    BY DEF Inv, Shaped, RetainersWait
  <1>3. Book(more)
    BY <1>2 DEF Book, NewEntry
  <1>4. Waits(more)
    BY <1>2 DEF Waits, NewEntry
  <1> QED BY <1>1, <1>2, <1>3, <1>4

\* The step of an operator's override leaves a well-formed book.
LEMMA OverrideStep ==
    ASSUME Inv, NEW r \in Run, NEW q \in Project, NEW amount, OverrideEntry(r, q, amount)
    PROVE  Book(entries'[r]) /\ Waits(entries'[r])
  <1>1. /\ entries'[r] = [entries[r] EXCEPT ![q] =
                            [entries[r][q] EXCEPT !.amount = amount, !.overridden = TRUE]]
        /\ q \in DOMAIN entries[r]
    BY DEF OverrideEntry, Inv, Shaped, Book
  <1>2. Book(entries[r]) /\ Waits(entries[r])
    BY DEF Inv, Shaped, RetainersWait
  <1>3. Book(entries'[r])
    BY <1>1, <1>2 DEF Book
  <1>4. Waits(entries'[r])
    BY <1>1, <1>2 DEF Book, Waits
  <1> QED BY <1>3, <1>4

\* Every step keeps the shape of the tables, their dates and the zero of the
\* retainers nobody has decided.
LEMMA BooksStep ==
    ASSUME Inv, Next
    PROVE  Shaped' /\ Dated' /\ RetainersWait'
  <1> USE RevenueAssumption DEF Inv, Shaped, Dated, RetainersWait, Status, PlannerState,
      ledger, planner, Month
  <1>1. CASE Configure
    BY <1>1 DEF Configure, ChangeRoster, SetConfig, RemoveConfig
  <1>2. ASSUME NEW p \in Planner, Plan(p) PROVE Shaped' /\ Dated' /\ RetainersWait'
    <2>1. ASSUME NEW m \in Month, NEW fresh \in [Project -> RosterState], PlanRead(p, m, fresh)
          PROVE  Shaped' /\ Dated' /\ RetainersWait'
      BY <2>1 DEF PlanRead
    <2>2. CASE PlanGate(p)
      BY <2>2 DEF PlanGate
    <2>3. CASE PlanInsert(p)
      BY <2>3 DEF PlanInsert
    <2>4. ASSUME NEW q \in Project, NEW figure \in Figure, NEW worked \in BOOLEAN,
                 PlanEntry(p, q, figure, worked)
          PROVE  Shaped' /\ Dated' /\ RetainersWait'
      <3>1. Book(drafted'[p]) /\ Waits(drafted'[p])
        BY <2>4, EntryStep
      <3>2. /\ drafted' = [x \in Planner |-> drafted'[x]]
            /\ \A x \in Planner \ {p} : drafted'[x] = drafted[x]
        BY <2>4 DEF PlanEntry
      <3>3. UNCHANGED <<roster, config, status, month, entries, pc, period>>
        BY <2>4 DEF PlanEntry
      <3>4. \A x \in Planner : Book(drafted'[x]) /\ Waits(drafted'[x])
        BY <3>1, <3>2
      <3> QED BY <3>2, <3>3, <3>4
    <2>5. ASSUME NEW r \in Run, PlanCommit(p, r) PROVE Shaped' /\ Dated' /\ RetainersWait'
      <3>1. Book(NoEntries) /\ Waits(NoEntries)
        BY DEF Book, Waits, NoEntries
      <3> QED BY <2>5, <3>1 DEF PlanCommit, Reset
    <2>6. CASE PlanRaises(p)
      <3>1. Book(NoEntries) /\ Waits(NoEntries)
        BY DEF Book, Waits, NoEntries
      <3> QED BY <2>6, <3>1 DEF PlanRaises, Reset
    <2> QED BY <1>2, <2>1, <2>2, <2>3, <2>4, <2>5, <2>6 DEF Plan
  <1>3. ASSUME NEW r \in Run, Review(r) PROVE Shaped' /\ Dated' /\ RetainersWait'
    <2>1. ASSUME NEW q \in Project, NEW amount \in Figure, OverrideEntry(r, q, amount)
          PROVE  Shaped' /\ Dated' /\ RetainersWait'
      <3>1. Book(entries'[r]) /\ Waits(entries'[r])
        BY <2>1, OverrideStep
      <3>2. /\ entries' = [x \in Run |-> entries'[x]]
            /\ \A x \in Run \ {r} : entries'[x] = entries[x]
        BY <2>1 DEF OverrideEntry
      <3> QED BY <2>1, <3>1, <3>2 DEF OverrideEntry
    <2>2. CASE FinalizeRun(r) \/ AbandonRun(r)
      BY <2>2 DEF FinalizeRun, AbandonRun
    <2>3. CASE DeleteRun(r)
      <3>1. Book(NoEntries) /\ Waits(NoEntries)
        BY DEF Book, Waits, NoEntries
      <3> QED BY <2>3, <3>1 DEF DeleteRun
    <2> QED BY <1>3, <2>1, <2>2, <2>3 DEF Review
  <1> QED BY <1>1, <1>2, <1>3 DEF Next

\* No step recognizes a retainer that nobody has decided.
LEMMA DecidedStep ==
    ASSUME Inv, Next
    PROVE  RetainersDecided'
  <1> USE DEF Inv, Shaped, RetainersDecided, Recognized, ledger, planner
  <1>1. ASSUME UNCHANGED <<status, entries>> PROVE RetainersDecided'
    BY <1>1
  <1>2. CASE Configure
    BY <1>1, <1>2 DEF Configure, ChangeRoster, SetConfig, RemoveConfig
  <1>3. ASSUME NEW p \in Planner, Plan(p) PROVE RetainersDecided'
    <2>1. ASSUME NEW r \in Run, PlanCommit(p, r) PROVE RetainersDecided'
      BY <2>1 DEF PlanCommit
    <2> QED BY <1>1, <1>3, <2>1 DEF Plan, PlanRead, PlanGate, PlanInsert, PlanEntry, PlanRaises
  <1>4. ASSUME NEW r \in Run, Review(r) PROVE RetainersDecided'
    <2>1. ASSUME NEW q \in Project, NEW amount \in Figure, OverrideEntry(r, q, amount)
          PROVE  RetainersDecided'
      BY <2>1 DEF OverrideEntry
    <2>2. CASE FinalizeRun(r)
      BY <2>2 DEF FinalizeRun, Undecided, RetainersWait, Waits
    <2>3. CASE AbandonRun(r) \/ DeleteRun(r)
      BY <2>3 DEF AbandonRun, DeleteRun
    <2> QED BY <1>4, <2>1, <2>2, <2>3 DEF Review
  <1> QED BY <1>2, <1>3, <1>4 DEF Next

\* No step makes two runs of a month live, nor lets two planners insert one.
LEMMA OneLiveStep ==
    ASSUME Inv, Next
    PROVE  OneLiveRun'
  <1> USE DEF Inv, Shaped, Status, PlannerState, OneLiveRun, Claims, ledger, planner
  <1>1. ASSUME UNCHANGED <<status, month, pc, period>> PROVE OneLiveRun'
    BY <1>1
  <1>2. CASE Configure
    BY <1>1, <1>2 DEF Configure, ChangeRoster, SetConfig, RemoveConfig
  <1>3. ASSUME NEW p \in Planner, Plan(p) PROVE OneLiveRun'
    <2>1. ASSUME NEW m \in Month, NEW fresh \in [Project -> RosterState], PlanRead(p, m, fresh)
          PROVE  OneLiveRun'
      BY <2>1 DEF PlanRead
    <2>2. CASE PlanGate(p)
      BY <2>2 DEF PlanGate
    <2>3. CASE PlanInsert(p)
      BY <2>3 DEF PlanInsert, MonthFree
    <2>4. ASSUME NEW q \in Project, NEW figure \in Figure, NEW worked \in BOOLEAN,
                 PlanEntry(p, q, figure, worked)
          PROVE  OneLiveRun'
      BY <1>1, <2>4 DEF PlanEntry
    <2>5. ASSUME NEW r \in Run, PlanCommit(p, r) PROVE OneLiveRun'
      BY <2>5 DEF PlanCommit, Reset
    <2>6. CASE PlanRaises(p)
      BY <2>6 DEF PlanRaises, Reset
    <2> QED BY <1>3, <2>1, <2>2, <2>3, <2>4, <2>5, <2>6 DEF Plan
  <1>4. ASSUME NEW r \in Run, Review(r) PROVE OneLiveRun'
    <2>1. ASSUME NEW q \in Project, NEW amount \in Figure, OverrideEntry(r, q, amount)
          PROVE  OneLiveRun'
      BY <1>1, <2>1 DEF OverrideEntry
    <2>2. CASE FinalizeRun(r)
      BY <2>2 DEF FinalizeRun
    <2>3. CASE AbandonRun(r)
      BY <2>3 DEF AbandonRun
    <2>4. CASE DeleteRun(r)
      BY <2>4 DEF DeleteRun
    <2> QED BY <1>4, <2>1, <2>2, <2>3, <2>4 DEF Review
  <1> QED BY <1>2, <1>3, <1>4 DEF Next

\* The inductive invariant.
LEMMA InvStep == Inv /\ [Next]_vars => Inv'
  <1> SUFFICES ASSUME Inv, [Next]_vars PROVE Inv'
    OBVIOUS
  <1>1. CASE Next
    BY <1>1, BooksStep, DecidedStep, OneLiveStep DEF Inv
  <1>2. CASE UNCHANGED vars
    BY <1>2 DEF vars, Inv, Shaped, Dated, RetainersWait, RetainersDecided, Recognized,
       OneLiveRun, Claims
  <1> QED BY <1>1, <1>2

\* A retainer that was recognized was decided by a person, whatever happened to
\* its configuration since it was planned.
THEOREM RetainersDecidedCorrect == Spec => []RetainersDecided
  <1>1. Inv => RetainersDecided
    BY DEF Inv
  <1> QED BY <1>1, InvInit, InvStep, PTL DEF Spec

\* However many people plan at once, a month has one live run.
THEOREM OneLiveRunCorrect == Spec => []OneLiveRun
  <1>1. Inv => OneLiveRun
    BY DEF Inv
  <1> QED BY <1>1, InvInit, InvStep, PTL DEF Spec

(***************************************************************************)
(* Refinement of RevenueLedger.                                            *)
(***************************************************************************)

\* A choice with one possibility.
LEMMA ChooseOne ==
    ASSUME NEW S, NEW f, NEW x \in S, \A y \in S : f[y] = f[x] => y = x
    PROVE  (CHOOSE r \in S : f[r] = f[x]) = x
  OBVIOUS

\* What a closed month has booked is what its one recognized run says.
LEMMA BookedByRun ==
    ASSUME Inv, NEW x \in Recognized, NEW q \in Project
    PROVE  month[x] \in Closed /\ BookedIn[month[x]][q] = Booked(x, q)
  <1>1. month[x] \in Closed
    BY DEF Inv, Dated, Closed, Recognized
  <1>2. (CHOOSE r \in Recognized : month[r] = month[x]) = x
    BY ChooseOne DEF Inv, OneLiveRun, Recognized
  <1>3. month[x] \in Month
    BY <1>1 DEF Closed
  <1> QED BY <1>1, <1>2, <1>3 DEF BookedIn

\* The same, after a step.
LEMMA BookedByRunNext ==
    ASSUME Inv', NEW x \in Recognized', NEW q \in Project
    PROVE  month'[x] \in Closed' /\ BookedIn'[month'[x]][q] = Booked(x, q)'
  <1>1. month'[x] \in Closed'
    BY DEF Inv, Dated, Closed, Recognized
  <1>2. (CHOOSE r \in Recognized' : month'[r] = month'[x]) = x
    BY ChooseOne DEF Inv, OneLiveRun, Recognized
  <1>3. month'[x] \in Month
    BY <1>1 DEF Closed
  <1> QED BY <1>1, <1>2, <1>3 DEF BookedIn

\* A month whose recognized run a step leaves alone reads the same after it, and
\* so does a month that stays open.
LEMMA MonthStands ==
    ASSUME Inv, Inv', NEW m \in Month,
           m \in Closed' => m \in Closed,
           \A r \in Recognized : /\ r \in Recognized'
                                 /\ month'[r] = month[r]
                                 /\ entries'[r] = entries[r]
    PROVE  BookedIn'[m] = BookedIn[m]
  <1>1. CASE m \in Closed
    <2>1. PICK x \in Recognized : month[x] = m
      BY <1>1 DEF Closed
    <2>2. \A q \in Project : BookedIn[m][q] = Booked(x, q) /\ BookedIn'[m][q] = Booked(x, q)'
      BY <2>1, BookedByRun, BookedByRunNext
    <2>3. \A q \in Project : Booked(x, q)' = Booked(x, q)
      BY <2>1 DEF Booked
    <2>4. BookedIn[m] = [q \in Project |-> BookedIn[m][q]]
      BY DEF BookedIn
    <2>5. BookedIn'[m] = [q \in Project |-> BookedIn'[m][q]]
      BY DEF BookedIn
    <2> QED BY <2>2, <2>3, <2>4, <2>5
  <1>2. CASE m \notin Closed
    BY <1>2 DEF BookedIn
  <1> QED BY <1>1, <1>2

\* A step that leaves the recognized runs alone is invisible to the readers.
LEMMA InvisibleStep ==
    ASSUME Inv, Inv', Recognized' = Recognized,
           \A r \in Recognized : month'[r] = month[r] /\ entries'[r] = entries[r]
    PROVE  UNCHANGED <<Closed, BookedIn>>
  <1>1. Closed' = Closed
    BY DEF Closed
  <1>2. \A m \in Month : BookedIn'[m] = BookedIn[m]
    BY <1>1, MonthStands
  <1>3. BookedIn = [m \in Month |-> BookedIn[m]] /\ BookedIn' = [m \in Month |-> BookedIn'[m]]
    BY DEF BookedIn
  <1> QED BY <1>1, <1>2, <1>3

\* Finalizing a run closes its month.
LEMMA FinalizeCloses ==
    ASSUME Inv, Inv', NEW r \in Run, FinalizeRun(r)
    PROVE  Ledger!Next
  <1> DEFINE m == month[r]
  <1>1. m \in Month
    BY DEF Inv, Dated, FinalizeRun
  <1>2. Recognized' = Recognized \cup {r} /\ r \notin Recognized /\ UNCHANGED <<month, entries>>
    BY DEF FinalizeRun, Recognized, Inv, Shaped
  <1>3. m \notin Closed
    BY DEF Closed, Recognized, FinalizeRun, Inv, OneLiveRun
  <1>4. Closed' = Closed \cup {m}
    BY <1>1, <1>2 DEF Closed
  <1>5. \A k \in Month \ {m} : BookedIn'[k] = BookedIn[k]
    BY <1>2, <1>4, MonthStands
  <1>6. BookedIn = [k \in Month |-> BookedIn[k]] /\ BookedIn' = [k \in Month |-> BookedIn'[k]]
    BY DEF BookedIn
  <1>7. BookedIn' = [BookedIn EXCEPT ![m] = BookedIn'[m]]
    BY <1>1, <1>5, <1>6
  <1>8. DOMAIN BookedIn'[m] = Project
    BY <1>1 DEF BookedIn
  <1> HIDE DEF m
  <1> QED BY <1>1, <1>3, <1>4, <1>7, <1>8 DEF Ledger!Next, Ledger!Close

\* Every step of the detailed system is a step of the abstract ledger, or none.
LEMMA LedgerStep ==
    ASSUME Inv, Inv', [Next]_vars
    PROVE  [Ledger!Next]_Ledger!vars
  <1> USE DEF ledger, planner
  <1>1. CASE UNCHANGED <<status, month, entries>>
    BY <1>1, InvisibleStep DEF Recognized, Ledger!vars
  <1>2. CASE UNCHANGED vars
    BY <1>1, <1>2 DEF vars
  <1>3. CASE Configure
    BY <1>1, <1>3 DEF Configure, ChangeRoster, SetConfig, RemoveConfig
  <1>4. ASSUME NEW p \in Planner, Plan(p) PROVE [Ledger!Next]_Ledger!vars
    <2>1. ASSUME NEW r \in Run, PlanCommit(p, r) PROVE [Ledger!Next]_Ledger!vars
      <3>1. Recognized' = Recognized /\ r \notin Recognized
        BY <2>1 DEF PlanCommit, Recognized, Inv, Shaped
      <3>2. \A x \in Recognized : month'[x] = month[x] /\ entries'[x] = entries[x]
        BY <2>1, <3>1 DEF PlanCommit, Recognized, Inv, Shaped
      <3> QED BY <3>1, <3>2, InvisibleStep DEF Ledger!vars
    <2> QED BY <1>1, <1>4, <2>1
         DEF Plan, PlanRead, PlanGate, PlanInsert, PlanEntry, PlanRaises
  <1>5. ASSUME NEW r \in Run, Review(r) PROVE [Ledger!Next]_Ledger!vars
    <2>1. CASE FinalizeRun(r)
      BY <2>1, FinalizeCloses
    <2>2. CASE ~FinalizeRun(r)
      <3>1. Recognized' = Recognized /\ r \notin Recognized
        BY <1>5, <2>2 DEF Review, OverrideEntry, AbandonRun, DeleteRun, Recognized, Inv, Shaped
      <3>2. \A x \in Recognized : month'[x] = month[x] /\ entries'[x] = entries[x]
        BY <1>5, <2>2, <3>1
           DEF Review, OverrideEntry, AbandonRun, DeleteRun, Recognized, Inv, Shaped
      <3> QED BY <3>1, <3>2, InvisibleStep DEF Ledger!vars
    <2> QED BY <2>1, <2>2
  <1> QED BY <1>2, <1>3, <1>4, <1>5 DEF Next

\* The detailed system implements the abstract ledger: a month is closed once,
\* by finalizing one run of it, and a closed month never changes again.
THEOREM RefinesLedgerCorrect == Spec => RefinesLedger
  <1>1. Init => Ledger!Init
    BY DEF Init, Ledger!Init, Closed, BookedIn, Recognized
  <1>2. Inv /\ Inv' /\ [Next]_vars => [Ledger!Next]_Ledger!vars
    BY LedgerStep
  <1> QED BY <1>1, <1>2, InvInit, InvStep, PTL DEF Spec, RefinesLedger, Ledger!Spec

(***************************************************************************)
(* Sums over finite sets.  MapThenSumSet takes an operator; here the       *)
(* summands are a function, so that what is proved of a sum can be cited.  *)
(***************************************************************************)

\* The element MapThenSumSet takes next.
Pick(S) == CHOOSE x \in S : TRUE

\* g takes the sum of val over every subset of S, one picked element at a time.
Unfolds(g, val, S) ==
    g = [s \in SUBSET S |-> IF s = {} THEN 0 ELSE val[Pick(s)] + g[s \ {Pick(s)}]]

\* The sum of val over S.
SumOf(val, S) == (CHOOSE g : Unfolds(g, val, S))[S]

\* Induction on finite sets, as the existence of a smallest counterexample.
LEMMA SmallestSet ==
    ASSUME NEW S, IsFiniteSet(S), NEW D \in SUBSET SUBSET S, D # {}
    PROVE  \E s \in D : \A t \in D : t \subseteq s => t = s
  <1>1. IsWellFoundedOn(StrictSubsetOrdering(S), SUBSET S)
    BY FS_StrictSubsetOrderingWellFounded, FS_FiniteSubsetsOfFinite
  <1>2. PICK s \in D : \A t \in D : ~ (<<t, s>> \in StrictSubsetOrdering(S))
    BY <1>1, WFMin
  <1> QED BY <1>2 DEF StrictSubsetOrdering

\* Two functions that unfold alike agree wherever both are defined.
LEMMA UnfoldsAgree ==
    ASSUME NEW val, NEW S, IsFiniteSet(S), NEW A, NEW B, S \subseteq A, S \subseteq B,
           NEW g, Unfolds(g, val, A), NEW h, Unfolds(h, val, B)
    PROVE  g[S] = h[S]
  <1> DEFINE D == {s \in SUBSET S : g[s] # h[s]}
  <1> SUFFICES ASSUME D # {} PROVE FALSE
    OBVIOUS
  <1>1. PICK s \in D : \A t \in D : t \subseteq s => t = s
    <2>1. D \in SUBSET SUBSET S
      OBVIOUS
    <2> HIDE DEF D
    <2> QED BY <2>1, SmallestSet
  <1>2. s \in SUBSET A /\ s \in SUBSET B
    OBVIOUS
  <1>3. g[s] = IF s = {} THEN 0 ELSE val[Pick(s)] + g[s \ {Pick(s)}]
    BY <1>2 DEF Unfolds
  <1>4. h[s] = IF s = {} THEN 0 ELSE val[Pick(s)] + h[s \ {Pick(s)}]
    BY <1>2 DEF Unfolds
  <1>5. s # {}
    BY <1>3, <1>4
  <1>6. Pick(s) \in s
    BY <1>5 DEF Pick
  <1>7. s \ {Pick(s)} \notin D
    BY <1>1, <1>6
  <1> QED BY <1>3, <1>4, <1>5, <1>7

\* A function that unfolds gives the sum.
LEMMA SumIs ==
    ASSUME NEW val, NEW S, IsFiniteSet(S), NEW A, S \subseteq A, NEW g, Unfolds(g, val, A),
           \E h : Unfolds(h, val, S)
    PROVE  SumOf(val, S) = g[S]
  <1> DEFINE h == CHOOSE x : Unfolds(x, val, S)
  <1>1. Unfolds(h, val, S)
    OBVIOUS
  <1> HIDE DEF h
  <1>2. h[S] = g[S]
    BY <1>1, UnfoldsAgree
  <1> QED BY <1>2 DEF SumOf, h

\* The sum of integers over a finite set exists and is an integer.
LEMMA SumExists ==
    ASSUME NEW S, IsFiniteSet(S), NEW val, \A x \in S : val[x] \in Int
    PROVE  \E g \in [SUBSET S -> Int] : Unfolds(g, val, S)
  <1> DEFINE Has(T) == \E g \in [SUBSET T -> Int] : Unfolds(g, val, T)
             D == {T \in SUBSET S : ~ Has(T)}
  <1> SUFFICES ASSUME D # {} PROVE FALSE
    OBVIOUS
  <1>1. PICK T \in D : \A t \in D : t \subseteq T => t = T
    <2>1. D \in SUBSET SUBSET S
      OBVIOUS
    <2> HIDE DEF D
    <2> QED BY <2>1, SmallestSet
  <1> DEFINE G == [s \in SUBSET T |-> IF s = {} THEN 0
                                      ELSE val[Pick(s)] + SumOf(val, s \ {Pick(s)})]
  <1>2. \A u \in SUBSET S : IsFiniteSet(u)
    BY FS_Subset
  <1>3. ASSUME NEW u \in SUBSET T, u # T
        PROVE  /\ SumOf(val, u) \in Int
               /\ SumOf(val, u) = G[u]
    <2>1. Has(u)
      BY <1>1, <1>3
    <2>2. PICK g \in [SUBSET u -> Int] : Unfolds(g, val, u)
      BY <2>1
    <2>3. SumOf(val, u) = g[u]
      BY <1>2, <2>2, SumIs
    <2>4. g[u] = IF u = {} THEN 0 ELSE val[Pick(u)] + g[u \ {Pick(u)}]
      BY <2>2 DEF Unfolds
    <2>5. CASE u = {}
      BY <2>3, <2>4, <2>5
    <2>6. CASE u # {}
      <3>1. Pick(u) \in u
        BY <2>6 DEF Pick
      <3> DEFINE w == u \ {Pick(u)}
      <3>2. Has(w)
        <4>1. w \in SUBSET S /\ w \subseteq T /\ w # T
          BY <1>3, <3>1
        <4> HIDE DEF w
        <4> QED BY <1>1, <4>1
      <3>3. SumOf(val, w) = g[w]
        BY <1>2, <2>2, <3>2, SumIs
      <3> QED BY <2>2, <2>3, <2>4, <2>6, <3>3
    <2> QED BY <2>5, <2>6
  <1>4. ASSUME NEW s \in SUBSET T, s # {}
        PROVE  /\ val[Pick(s)] \in Int
               /\ SumOf(val, s \ {Pick(s)}) \in Int
               /\ G[s \ {Pick(s)}] = SumOf(val, s \ {Pick(s)})
    <2>1. Pick(s) \in s
      BY <1>4 DEF Pick
    <2>2. s \ {Pick(s)} \in SUBSET T /\ s \ {Pick(s)} # T
      BY <2>1
    <2> QED BY <1>3, <2>1, <2>2
  <1>5. G \in [SUBSET T -> Int]
    <2>1. ASSUME NEW s \in SUBSET T, s # {}
          PROVE  val[Pick(s)] + SumOf(val, s \ {Pick(s)}) \in Int
      <3>1. val[Pick(s)] \in Int /\ SumOf(val, s \ {Pick(s)}) \in Int
        BY <1>4, <2>1
      <3> QED BY <3>1
    <2> QED BY <2>1
  <1>6. Unfolds(G, val, T)
    BY <1>4 DEF Unfolds
  <1> HIDE DEF G
  <1> QED BY <1>1, <1>5, <1>6

\* The sum of integers over a finite set is an integer.
LEMMA SumType ==
    ASSUME NEW S, IsFiniteSet(S), NEW val, \A x \in S : val[x] \in Int
    PROVE  SumOf(val, S) \in Int
  <1>1. PICK g \in [SUBSET S -> Int] : Unfolds(g, val, S)
    BY SumExists
  <1> QED BY <1>1, SumIs

\* What a set of runs booked for a project is such a sum.
LEMMA BookedIsSum ==
    ASSUME NEW q \in Project, NEW runs
    PROVE  BookedBy(runs, q) = SumOf([r \in runs |-> Booked(r, q)], runs)
  BY DEF BookedBy, MapThenSumSet, MapThenFoldSet, SumOf, Unfolds, Pick

\* The same, after a step.
LEMMA BookedIsSumNext ==
    ASSUME NEW q \in Project, NEW runs
    PROVE  BookedBy(runs, q)' = SumOf([r \in runs |-> Booked(r, q)'], runs)
  BY DEF BookedBy, MapThenSumSet, MapThenFoldSet, SumOf, Unfolds, Pick

\* A step that leaves some runs alone leaves what they booked alone.
LEMMA BookedStands ==
    ASSUME NEW q \in Project, NEW runs, \A r \in runs : entries'[r] = entries[r]
    PROVE  BookedBy(runs, q)' = BookedBy(runs, q)
  <1>1. \A r \in runs : Booked(r, q)' = Booked(r, q)
    BY DEF Booked
  <1>2. [r \in runs |-> Booked(r, q)'] = [r \in runs |-> Booked(r, q)]
    BY <1>1
  <1>3. BookedBy(runs, q) = SumOf([r \in runs |-> Booked(r, q)], runs)
    BY BookedIsSum
  <1>4. BookedBy(runs, q)' = SumOf([r \in runs |-> Booked(r, q)'], runs)
    BY BookedIsSumNext
  <1> QED BY <1>2, <1>3, <1>4

(***************************************************************************)
(* Types, with the arithmetic.                                             *)
(***************************************************************************)

\* What a planner holds of what it has read.
Listing(l) ==
    /\ DOMAIN l \subseteq Project
    /\ \A q \in DOMAIN l : l[q].type \in RevenueType

\* TypeOK, and the types of what a planner has read.
Typed ==
    /\ TypeOK
    /\ \A p \in Planner : Listing(listed[p])

\* The history of a project is an integer amount.
LEMMA PriorType ==
    ASSUME TypeOK, NEW q \in Project, NEW m \in Month
    PROVE  PriorRecognized(q, m) \in Int
  <1> DEFINE S == PriorRuns(m)
             val == [r \in S |-> Booked(r, q)]
  <1>1. IsFiniteSet(S)
    BY FS_Subset, RevenueAssumption DEF PriorRuns, Recognized
  <1>2. \A r \in S : val[r] \in Int
    BY DEF PriorRuns, Recognized, Booked, TypeOK, Entry
  <1> HIDE DEF val, S
  <1>3. SumOf(val, S) \in Int
    BY <1>1, <1>2, SumType
  <1>4. PriorRecognized(q, m) = BookedBy(S, q)
    BY DEF PriorRecognized, S
  <1>5. BookedBy(S, q) = SumOf([r \in S |-> Booked(r, q)], S)
    BY BookedIsSum
  <1> QED BY <1>3, <1>4, <1>5 DEF val

\* Empty tables and idle planners have their types.
LEMMA TypedInit == Init => Typed
  BY RevenueAssumption
  DEF Init, NoEntries, Typed, TypeOK, Listing, RosterState, PlannerState

\* The entry the loop computes for a project.
LEMMA EntryType ==
    ASSUME Typed, Inv, NEW p \in Planner, NEW q \in Project, NEW figure \in Figure,
           pc[p] = "inserted", q \in DOMAIN listed[p]
    PROVE  NewEntry(listed[p][q].type, figure, PriorRecognized(q, period[p]),
                    PriorRuns(period[p])) \in Entry
  <1>1. PriorRecognized(q, period[p]) \in Int
    BY PriorType DEF Typed, Inv, Dated
  <1>2. figure \in Int /\ PriorRuns(period[p]) \in SUBSET Run
    BY RevenueAssumption DEF PriorRuns, Recognized
  <1>3. listed[p][q].type \in RevenueType
    BY DEF Typed, Listing
  <1> QED BY <1>1, <1>2, <1>3 DEF NewEntry, Entry

\* Every step keeps the types; the amounts are differences of integers.
LEMMA TypedStep ==
    ASSUME Typed, Inv, Next
    PROVE  Typed'
  <1> USE RevenueAssumption DEF Typed, TypeOK, ledger, planner, Month
  <1>e. DOMAIN NoEntries = {} /\ Listing(NoEntries)
    BY DEF NoEntries, Listing
  <1>1. CASE Configure
    BY <1>1 DEF Configure, ChangeRoster, SetConfig, RemoveConfig
  <1>2. ASSUME NEW p \in Planner, Plan(p) PROVE Typed'
    <2>1. ASSUME NEW m \in Month, NEW fresh \in [Project -> RosterState], PlanRead(p, m, fresh)
          PROVE  Typed'
      BY <2>1 DEF PlanRead, PlannerState
    <2>2. CASE PlanGate(p)
      BY <2>2 DEF PlanGate, PlannerState
    <2>3. CASE PlanInsert(p)
      <3>1. Listing(listed'[p])
        BY <2>3 DEF PlanInsert, Listing
      <3> QED BY <2>3, <3>1 DEF PlanInsert, PlannerState
    <2>4. ASSUME NEW q \in Project, NEW figure \in Figure, NEW worked \in BOOLEAN,
                 PlanEntry(p, q, figure, worked)
          PROVE  Typed'
      <3> DEFINE new == NewEntry(listed[p][q].type, figure, PriorRecognized(q, period[p]),
                                 PriorRuns(period[p]))
                 more == [x \in DOMAIN drafted[p] \cup {q} |->
                            IF x = q THEN new ELSE drafted[p][x]]
      <3>1. new \in Entry
        BY <2>4, EntryType DEF PlanEntry
      <3>2. drafted'[p] \in {drafted[p], more}
        BY <2>4 DEF PlanEntry
      <3> HIDE DEF new
      <3>3. DOMAIN more \subseteq Project /\ \A x \in DOMAIN more : more[x] \in Entry
        BY <3>1
      <3>4. /\ DOMAIN drafted'[p] \subseteq Project
            /\ \A x \in DOMAIN drafted'[p] : drafted'[p][x] \in Entry
        BY <3>2, <3>3
      <3>5. DOMAIN drafted' = Planner /\ \A x \in Planner \ {p} : drafted'[x] = drafted[x]
        BY <2>4 DEF PlanEntry
      <3>6. /\ Listing(listed'[p])
            /\ DOMAIN listed' = Planner /\ \A x \in Planner \ {p} : listed'[x] = listed[x]
        BY <2>4 DEF PlanEntry, Listing, Restrict
      <3>7. UNCHANGED <<roster, config, status, month, entries, pc, period>>
        BY <2>4 DEF PlanEntry
      <3>8. \A x \in Planner : /\ DOMAIN drafted'[x] \subseteq Project
                               /\ \A y \in DOMAIN drafted'[x] : drafted'[x][y] \in Entry
                               /\ Listing(listed'[x])
        BY <3>4, <3>5, <3>6
      <3> QED BY <3>5, <3>6, <3>7, <3>8
    <2>5. ASSUME NEW r \in Run, PlanCommit(p, r) PROVE Typed'
      BY <2>5, <1>e DEF PlanCommit, Reset, PlannerState
    <2>6. CASE PlanRaises(p)
      BY <2>6, <1>e DEF PlanRaises, Reset, PlannerState
    <2> QED BY <1>2, <2>1, <2>2, <2>3, <2>4, <2>5, <2>6 DEF Plan
  <1>3. ASSUME NEW r \in Run, Review(r) PROVE Typed'
    <2>1. ASSUME NEW q \in Project, NEW amount \in Figure, OverrideEntry(r, q, amount)
          PROVE  Typed'
      <3>1. /\ entries'[r] = [entries[r] EXCEPT ![q] =
                                [entries[r][q] EXCEPT !.amount = amount, !.overridden = TRUE]]
            /\ q \in DOMAIN entries[r]
        BY <2>1 DEF OverrideEntry
      <3>2. [entries[r][q] EXCEPT !.amount = amount, !.overridden = TRUE] \in Entry
        <4>1. entries[r][q] \in Entry /\ amount \in Int
          BY <3>1
        <4> QED BY <4>1 DEF Entry
      <3>3. /\ DOMAIN entries'[r] \subseteq Project
            /\ \A x \in DOMAIN entries'[r] : entries'[r][x] \in Entry
        BY <3>1, <3>2
      <3>4. DOMAIN entries' = Run /\ \A x \in Run \ {r} : entries'[x] = entries[x]
        BY <2>1 DEF OverrideEntry
      <3> QED BY <2>1, <3>3, <3>4 DEF OverrideEntry
    <2>2. CASE FinalizeRun(r) \/ AbandonRun(r)
      BY <2>2 DEF FinalizeRun, AbandonRun
    <2>3. CASE DeleteRun(r)
      BY <2>3, <1>e DEF DeleteRun
    <2> QED BY <1>3, <2>1, <2>2, <2>3 DEF Review
  <1> QED BY <1>1, <1>2, <1>3 DEF Next

\* Types, on top of the inductive invariant, are inductive.
LEMMA TypedInv == Typed /\ Inv /\ [Next]_vars => Typed'
  <1> SUFFICES ASSUME Typed, Inv, [Next]_vars PROVE Typed'
    OBVIOUS
  <1>1. CASE UNCHANGED vars
    BY <1>1 DEF vars, Typed, TypeOK
  <1> QED BY <1>1, TypedStep

\* Every column and every local of plan_run has its type, the amounts included,
\* which are computed from sums over the months before.
THEOREM TypeCorrect == Spec => []TypeOK
  <1>1. Typed => TypeOK
    BY DEF Typed
  <1> QED BY <1>1, TypedInit, TypedInv, InvInit, InvStep, PTL DEF Spec

(***************************************************************************)
(* The ledger adds up.                                                     *)
(***************************************************************************)

\* An entry of month m was computed against months before that are closed, and
\* booked what they had left of its cumulative figure.
Exact(e, q, m) ==
    /\ e[q].against \subseteq PriorRuns(m)
    /\ e[q].type = "computed" /\ ~e[q].overridden
       => BookedBy(e[q].against, q) + e[q].amount = e[q].target

\* So was every entry: those a planner holds, and those of every run.
AllExact ==
    /\ \A p \in Planner : pc[p] # "inserted" => DOMAIN drafted[p] = {}
    /\ \A p \in Planner : \A q \in DOMAIN drafted[p] : Exact(drafted[p], q, period[p])
    /\ \A r \in Run : \A q \in DOMAIN entries[r] : Exact(entries[r], q, month[r])

\* With nothing planned, there is no entry.
LEMMA ExactInit == Init => AllExact
  BY DEF Init, NoEntries, AllExact

\* Finalized runs stay, as they are.
LEMMA RecognizedStands ==
    ASSUME Typed, [Next]_vars
    PROVE  /\ Recognized \subseteq Recognized'
           /\ \A r \in Recognized : month'[r] = month[r] /\ entries'[r] = entries[r]
  <1> USE DEF Typed, TypeOK, Recognized, ledger, planner
  <1>1. CASE UNCHANGED <<status, month, entries>>
    BY <1>1
  <1>2. CASE Configure
    BY <1>1, <1>2 DEF Configure, ChangeRoster, SetConfig, RemoveConfig
  <1>3. ASSUME NEW p \in Planner, NEW r \in Run, PlanCommit(p, r)
        PROVE  /\ Recognized \subseteq Recognized'
               /\ \A x \in Recognized : month'[x] = month[x] /\ entries'[x] = entries[x]
    BY <1>3 DEF PlanCommit
  <1>4. ASSUME NEW p \in Planner, Plan(p)
        PROVE  /\ Recognized \subseteq Recognized'
               /\ \A x \in Recognized : month'[x] = month[x] /\ entries'[x] = entries[x]
    BY <1>1, <1>3, <1>4 DEF Plan, PlanRead, PlanGate, PlanInsert, PlanEntry, PlanRaises
  <1>5. ASSUME NEW r \in Run, Review(r)
        PROVE  /\ Recognized \subseteq Recognized'
               /\ \A x \in Recognized : month'[x] = month[x] /\ entries'[x] = entries[x]
    BY <1>5 DEF Review, OverrideEntry, FinalizeRun, AbandonRun, DeleteRun
  <1> QED BY <1>1, <1>2, <1>4, <1>5 DEF Next, vars

\* An exact entry stays exact: the runs it was computed against stay, and so
\* does what they booked.
LEMMA ExactStands ==
    ASSUME Typed, [Next]_vars, NEW q \in Project, NEW m \in 0 .. LastMonth,
           NEW runs, runs \subseteq PriorRuns(m)
    PROVE  /\ runs \subseteq PriorRuns(m)'
           /\ BookedBy(runs, q)' = BookedBy(runs, q)
  <1>1. \A r \in runs : r \in Recognized' /\ month'[r] < m /\ entries'[r] = entries[r]
    BY RecognizedStands DEF PriorRuns
  <1> QED BY <1>1, BookedStands DEF PriorRuns

\* The entry that the loop computes is exact.
LEMMA NewEntryExact ==
    ASSUME Typed, Inv, NEW p \in Planner, NEW q \in Project, NEW figure \in Figure,
           pc[p] = "inserted", NEW type \in RevenueType
    PROVE  LET new == NewEntry(type, figure, PriorRecognized(q, period[p]),
                               PriorRuns(period[p]))
           IN  /\ new.against \subseteq PriorRuns(period[p])
               /\ new.type = "computed"
                  => BookedBy(new.against, q) + new.amount = new.target
  <1>1. PriorRecognized(q, period[p]) \in Int /\ figure \in Int
    BY PriorType, RevenueAssumption DEF Typed, Inv, Dated
  <1>2. PriorRecognized(q, period[p]) = BookedBy(PriorRuns(period[p]), q)
    BY DEF PriorRecognized
  <1> HIDE DEF PriorRecognized, PriorRuns, BookedBy
  <1> QED BY <1>1, <1>2 DEF NewEntry, RevenueType

\* No step makes an entry disagree with the months it was computed against.
LEMMA ExactStep ==
    ASSUME Typed, Inv, AllExact, [Next]_vars
    PROVE  AllExact'
  <1> USE DEF ledger, planner
  <1>a. /\ \A p \in Planner : period[p] \in 0 .. LastMonth /\ DOMAIN drafted[p] \subseteq Project
        /\ \A r \in Run : month[r] \in 0 .. LastMonth /\ DOMAIN entries[r] \subseteq Project
    BY DEF Typed, TypeOK
  <1>b. ASSUME NEW e, NEW q \in Project, NEW m \in 0 .. LastMonth, Exact(e, q, m)
        PROVE  Exact(e, q, m)'
    <2>1. PICK runs : runs = e[q].against
      OBVIOUS
    <2>2. runs \subseteq PriorRuns(m)' /\ BookedBy(runs, q)' = BookedBy(runs, q)
      BY <1>b, <2>1, ExactStands DEF Exact
    <2> QED BY <1>b, <2>1, <2>2 DEF Exact
  <1>c. ASSUME \A p \in Planner : /\ period'[p] \in 0 .. LastMonth
                                  /\ DOMAIN drafted'[p] \subseteq Project,
               \A r \in Run : /\ month'[r] \in 0 .. LastMonth
                              /\ DOMAIN entries'[r] \subseteq Project,
               \A p \in Planner : pc'[p] # "inserted" => DOMAIN drafted'[p] = {},
               \A p \in Planner : \A q \in DOMAIN drafted'[p] :
                  Exact(drafted'[p], q, period'[p]),
               \A r \in Run : \A q \in DOMAIN entries'[r] : Exact(entries'[r], q, month'[r])
        PROVE  AllExact'
    <2>1. ASSUME NEW p \in Planner, NEW q \in DOMAIN drafted'[p]
          PROVE  Exact(drafted[p], q, period[p])'
      <3>1. PICK e, m : e = drafted'[p] /\ m = period'[p]
        OBVIOUS
      <3>2. Exact(e, q, m)'
        BY <1>b, <1>c, <2>1, <3>1
      <3> QED BY <3>1, <3>2 DEF Exact
    <2>2. ASSUME NEW r \in Run, NEW q \in DOMAIN entries'[r]
          PROVE  Exact(entries[r], q, month[r])'
      <3>1. PICK e, m : e = entries'[r] /\ m = month'[r]
        OBVIOUS
      <3>2. Exact(e, q, m)'
        BY <1>b, <1>c, <2>2, <3>1
      <3> QED BY <3>1, <3>2 DEF Exact
    <2> QED BY <1>c, <2>1, <2>2 DEF AllExact
  <1>t. /\ \A p \in Planner : period'[p] \in 0 .. LastMonth /\ DOMAIN drafted'[p] \subseteq Project
        /\ \A r \in Run : month'[r] \in 0 .. LastMonth /\ DOMAIN entries'[r] \subseteq Project
    BY TypedInv DEF Typed, TypeOK
  <1>e. DOMAIN NoEntries = {}
    BY DEF NoEntries
  <1>d. ASSUME UNCHANGED <<month, entries>>,
               \A p \in Planner : /\ pc'[p] # "inserted" => DOMAIN drafted'[p] = {}
                                  /\ \/ DOMAIN drafted'[p] = {}
                                     \/ drafted'[p] = drafted[p] /\ period'[p] = period[p]
        PROVE  AllExact'
    BY <1>c, <1>d, <1>t DEF AllExact
  <1> USE DEF Typed, TypeOK
  <1>1. CASE Configure
    BY <1>1, <1>d DEF Configure, ChangeRoster, SetConfig, RemoveConfig, AllExact
  <1>2. ASSUME NEW p \in Planner, Plan(p) PROVE AllExact'
    <2>1. ASSUME NEW m \in Month, NEW fresh \in [Project -> RosterState], PlanRead(p, m, fresh)
          PROVE  AllExact'
      <3>1. /\ UNCHANGED <<month, entries, drafted>> /\ pc[p] = "idle"
            /\ \A o \in Planner \ {p} : pc'[o] = pc[o] /\ period'[o] = period[o]
        BY <2>1 DEF PlanRead
      <3>2. DOMAIN drafted[p] = {}
        BY <3>1 DEF AllExact
      <3>3. ASSUME NEW o \in Planner
            PROVE  /\ pc'[o] # "inserted" => DOMAIN drafted'[o] = {}
                   /\ \/ DOMAIN drafted'[o] = {}
                      \/ drafted'[o] = drafted[o] /\ period'[o] = period[o]
        <4>1. CASE o = p
          BY <3>1, <3>2, <4>1
        <4>2. CASE o # p
          BY <3>1, <4>2 DEF AllExact
        <4> QED BY <4>1, <4>2
      <3> QED BY <1>d, <3>1, <3>3
    <2>2. CASE PlanGate(p) \/ PlanInsert(p)
      BY <1>d, <2>2 DEF PlanGate, PlanInsert, AllExact
    <2>3. ASSUME NEW q \in Project, NEW figure \in Figure, NEW worked \in BOOLEAN,
                 PlanEntry(p, q, figure, worked)
          PROVE  AllExact'
      <3> DEFINE new == NewEntry(listed[p][q].type, figure, PriorRecognized(q, period[p]),
                                 PriorRuns(period[p]))
                 more == [x \in DOMAIN drafted[p] \cup {q} |->
                            IF x = q THEN new ELSE drafted[p][x]]
      <3>1. /\ pc[p] = "inserted" /\ UNCHANGED <<month, entries, pc, period>>
            /\ drafted'[p] \in {drafted[p], more}
            /\ \A o \in Planner \ {p} : drafted'[o] = drafted[o]
        BY <2>3 DEF PlanEntry
      <3>2. listed[p][q].type \in RevenueType
        BY <2>3 DEF PlanEntry, Listing
      <3>3. /\ new.against \subseteq PriorRuns(period[p])
            /\ new.type = "computed" => BookedBy(new.against, q) + new.amount = new.target
        BY <3>1, <3>2, NewEntryExact
      <3> HIDE DEF new
      <3>4. \A x \in DOMAIN more : Exact(more, x, period[p])
        <4>1. Exact(more, q, period[p])
          BY <3>3 DEF Exact
        <4>2. ASSUME NEW x \in DOMAIN drafted[p], x # q PROVE Exact(more, x, period[p])
          BY <4>2 DEF AllExact, Exact
        <4> QED BY <4>1, <4>2
      <3> HIDE DEF more
      <3>5. \A o \in Planner : \A x \in DOMAIN drafted'[o] : Exact(drafted'[o], x, period'[o])
        BY <3>1, <3>4 DEF AllExact
      <3>6. \A o \in Planner : pc'[o] # "inserted" => DOMAIN drafted'[o] = {}
        BY <3>1 DEF AllExact
      <3>7. \A r \in Run : \A x \in DOMAIN entries'[r] : Exact(entries'[r], x, month'[r])
        BY <3>1 DEF AllExact
      <3> QED BY <1>c, <1>t, <3>5, <3>6, <3>7
    <2>4. ASSUME NEW r \in Run, PlanCommit(p, r) PROVE AllExact'
      <3>1. /\ pc'[p] = "idle" /\ drafted'[p] = NoEntries
            /\ month'[r] = period[p] /\ entries'[r] = drafted[p]
            /\ \A o \in Planner \ {p} : /\ pc'[o] = pc[o] /\ period'[o] = period[o]
                                        /\ drafted'[o] = drafted[o]
            /\ \A x \in Run \ {r} : month'[x] = month[x] /\ entries'[x] = entries[x]
        BY <2>4 DEF PlanCommit, Reset
      <3>2. \A o \in Planner : \A x \in DOMAIN drafted'[o] : Exact(drafted'[o], x, period'[o])
        BY <1>e, <3>1 DEF AllExact
      <3>3. \A o \in Planner : pc'[o] # "inserted" => DOMAIN drafted'[o] = {}
        BY <1>e, <3>1 DEF AllExact
      <3>4. \A x \in Run : \A q \in DOMAIN entries'[x] : Exact(entries'[x], q, month'[x])
        BY <3>1 DEF AllExact
      <3> QED BY <1>c, <1>t, <3>2, <3>3, <3>4
    <2>5. CASE PlanRaises(p)
      <3>1. /\ UNCHANGED <<month, entries>> /\ drafted'[p] = NoEntries
            /\ \A o \in Planner \ {p} : /\ pc'[o] = pc[o] /\ period'[o] = period[o]
                                        /\ drafted'[o] = drafted[o]
        BY <2>5 DEF PlanRaises, Reset
      <3>3. ASSUME NEW o \in Planner
            PROVE  /\ pc'[o] # "inserted" => DOMAIN drafted'[o] = {}
                   /\ \/ DOMAIN drafted'[o] = {}
                      \/ drafted'[o] = drafted[o] /\ period'[o] = period[o]
        <4>1. CASE o = p
          BY <1>e, <3>1, <4>1
        <4>2. CASE o # p
          BY <3>1, <4>2 DEF AllExact
        <4> QED BY <4>1, <4>2
      <3> QED BY <1>d, <3>1, <3>3
    <2> QED BY <1>2, <2>1, <2>2, <2>3, <2>4, <2>5 DEF Plan
  <1>3. ASSUME NEW r \in Run, Review(r) PROVE AllExact'
    <2>1. /\ UNCHANGED <<pc, period, drafted>>
          /\ \A x \in Run \ {r} : month'[x] = month[x] /\ entries'[x] = entries[x]
      BY <1>3 DEF Review, OverrideEntry, FinalizeRun, AbandonRun, DeleteRun
    <2>2. \A q \in DOMAIN entries'[r] : Exact(entries'[r], q, month'[r])
      <3>1. ASSUME NEW q \in Project, NEW amount \in Figure, OverrideEntry(r, q, amount),
                   NEW x \in DOMAIN entries'[r]
            PROVE  Exact(entries'[r], x, month'[r])
        <4>1. /\ month'[r] = month[r] /\ x \in DOMAIN entries[r] /\ q \in DOMAIN entries[r]
              /\ entries'[r] = [entries[r] EXCEPT ![q] =
                                  [entries[r][q] EXCEPT !.amount = amount, !.overridden = TRUE]]
          BY <3>1 DEF OverrideEntry
        <4>2. CASE x = q
          <5>1. entries[r][q] \in Entry
            BY <4>1
          <5>2. /\ entries'[r][q] =
                      [entries[r][q] EXCEPT !.amount = amount, !.overridden = TRUE]
                /\ Exact(entries[r], q, month[r])
            BY <4>1 DEF AllExact
          <5>3. entries'[r][q].overridden /\ entries'[r][q].against = entries[r][q].against
            BY <5>1, <5>2 DEF Entry
          <5> QED BY <4>1, <4>2, <5>2, <5>3 DEF Exact
        <4>3. CASE x # q
          BY <4>1, <4>3 DEF AllExact, Exact
        <4> QED BY <4>2, <4>3
      <3>2. CASE FinalizeRun(r) \/ AbandonRun(r)
        BY <3>2 DEF FinalizeRun, AbandonRun, AllExact
      <3>3. CASE DeleteRun(r)
        BY <1>e, <3>3 DEF DeleteRun
      <3> QED BY <1>3, <3>1, <3>2, <3>3 DEF Review
    <2>3. \A x \in Run : \A q \in DOMAIN entries'[x] : Exact(entries'[x], q, month'[x])
      BY <2>1, <2>2 DEF AllExact
    <2> QED BY <1>c, <1>t, <2>1, <2>3 DEF AllExact
  <1>4. CASE UNCHANGED vars
    BY <1>d, <1>4 DEF vars, AllExact
  <1> QED BY <1>1, <1>2, <1>3, <1>4 DEF Next

\* Whatever was overridden, abandoned, deleted and planned at the same time, a
\* finalized month and the months that were closed when it was computed add up to
\* its cumulative figure, for good.
THEOREM LedgerAddsUpCorrect == Spec => []LedgerAddsUp
  <1>1. AllExact => LedgerAddsUp
    BY DEF AllExact, Exact, LedgerAddsUp, Recognized
  <1>2. Typed /\ Inv /\ AllExact /\ [Next]_vars => AllExact'
    BY ExactStep
  <1> QED BY <1>1, <1>2, ExactInit, TypedInit, TypedInv, InvInit, InvStep, PTL DEF Spec

\* So the whole ledger through a month adds up to its cumulative figure, if every
\* month before it was closed when it was computed.
THEOREM ClosedInTurn ==
    Spec => [](\A r \in Recognized : \A q \in DOMAIN entries[r] :
                 /\ entries[r][q].type = "computed" /\ ~entries[r][q].overridden
                 /\ PriorRuns(month[r]) \subseteq entries[r][q].against
                 => PriorRecognized(q, month[r]) + entries[r][q].amount = entries[r][q].target)
  <1> DEFINE Adds(r, q) ==
        /\ entries[r][q].type = "computed" /\ ~entries[r][q].overridden
        /\ PriorRuns(month[r]) \subseteq entries[r][q].against
        => PriorRecognized(q, month[r]) + entries[r][q].amount = entries[r][q].target
  <1>1. LedgerAddsUp => \A r \in Recognized : \A q \in DOMAIN entries[r] : Adds(r, q)
    <2> SUFFICES ASSUME LedgerAddsUp, NEW r \in Recognized, NEW q \in DOMAIN entries[r]
                 PROVE  Adds(r, q)
      OBVIOUS
    <2>1. entries[r][q].type = "computed" /\ ~entries[r][q].overridden
          => /\ entries[r][q].against \subseteq PriorRuns(month[r])
             /\ BookedBy(entries[r][q].against, q) + entries[r][q].amount = entries[r][q].target
      BY DEF LedgerAddsUp
    <2>2. ASSUME PriorRuns(month[r]) \subseteq entries[r][q].against,
                 entries[r][q].against \subseteq PriorRuns(month[r])
          PROVE  PriorRecognized(q, month[r]) = BookedBy(entries[r][q].against, q)
      <3>1. entries[r][q].against = PriorRuns(month[r])
        BY <2>2
      <3> HIDE DEF PriorRuns
      <3> QED BY <3>1 DEF PriorRecognized
    <2> QED BY <2>1, <2>2
  <1> QED BY <1>1, LedgerAddsUpCorrect, PTL
=============================================================================
