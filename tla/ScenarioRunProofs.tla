-------------------------- MODULE ScenarioRunProofs --------------------------
(***************************************************************************)
(* The safety properties of ScenarioRun for any number of repetitions, any *)
(* ceiling and any costs.  Spent is a fold over the repetitions, so how it *)
(* grows with one more of them is proved first (FoldFacts).  That runs end *)
(* is liveness and stays with TLC.  Then what the counts of                *)
(* EffectAccounting promise, which the runs report.                        *)
(***************************************************************************)
EXTENDS ScenarioRun, EffectAccounting, FoldFacts, SequenceTheorems, FunctionTheorems

Charged(r) == r.status \in {"completed", "failed"}
Stops(r) == r.status \in {"cancelled", "budget_exceeded"}

\* Repetitions that ended by themselves and within their ceiling stay within the ceiling of
\* all: each was held to what the ones before it had left.
Accounted ==
  (\A i \in DOMAIN repetitions : Charged(repetitions[i])) => Spent(repetitions) <= MaxCostUsd

\* While a repetition is on its way, its ceiling is what the others left, and none of them
\* was a reason to stop; a repetition is a reason to stop as soon as it is recorded.
LoopInv ==
  /\ pc \in {"receiver", "process", "drain"} =>
       /\ ceiling = RemainingCeiling(repetitions) /\ Len(repetitions) < Total
       /\ \A i \in DOMAIN repetitions : ~Stops(repetitions[i])
  /\ pc = "drain" /\ ending.cancelled => over
  /\ pc = "check" => \A i \in DOMAIN repetitions :
       /\ repetitions[i].status = "cancelled" => over
       /\ repetitions[i].status = "budget_exceeded" => i = Len(repetitions)

SavedInv == savedResult => pc = "done" /\ savedRuns = Len(repetitions)

IInv == TypeOK /\ Accounted /\ LoopInv /\ SavedInv

----------------------------------------------------------------------------
(* Spent.                                                                  *)

Amount == Nat
CostStep(reps) == [i \in 1 .. Len(reps) |-> [sum \in Amount |-> sum + CostOf(reps[i])]]

\* Lemma: what a repetition adds is a number, also when its cost is unknown.
LEMMA CostIsNatural == ASSUME NEW r \in Row PROVE CostOf(r) \in Nat
  BY RunAssumption, UnknownAssumption DEF Row, CostOf

\* Lemma: Spent adds up the costs one by one.
LEMMA SpentIterates ==
  ASSUME NEW reps \in Seq(Row)
  PROVE  \E f : Iterates(f, Amount, 0, CostStep(reps), Len(reps)) /\ Spent(reps) = f[Len(reps)]
  <1> DEFINE n == Len(reps)
             step == CostStep(reps)
             IsIter(g) == g = [T \in SUBSET DOMAIN reps |->
                               IF T = {} THEN 0 ELSE g[T \ {Max(T)}] + CostOf(reps[Max(T)])]
             iter == CHOOSE g : IsIter(g)
  <1>1. n \in Nat /\ DOMAIN reps = 1 .. n /\ \A i \in 1 .. n : CostOf(reps[i]) \in Nat
    BY CostIsNatural
  <1>2. 0 \in Amount /\ step \in [1 .. n -> [Amount -> Amount]]
    BY <1>1 DEF CostStep, Amount
  <1>3. ASSUME NEW T \in SUBSET (1 .. n), T # {}, NEW x \in Amount
        PROVE  step[Max(T)][x] = x + CostOf(reps[Max(T)])
    <2>1. Max(T) \in 1 .. n
      BY <1>1, <1>3, MaxIsLargest
    <2> QED BY <2>1 DEF CostStep
  <1>4. IsIter(iter)
    <2>1. PICK g : Folds(g, Amount, 0, step, n)
      <3> HIDE DEF step
      <3> QED BY <1>1, <1>2, FoldExists
    <2>2. IsIter(g)
      <3>1. ASSUME NEW T \in SUBSET (1 .. n), T # {}
            PROVE  g[T] = g[T \ {Max(T)}] + CostOf(reps[Max(T)])
        <4>1. g[T] = step[Max(T)][g[T \ {Max(T)}]] /\ g[T \ {Max(T)}] \in Amount
          BY <2>1, <3>1 DEF Folds
        <4> QED BY <1>3, <3>1, <4>1
      <3> QED BY <1>1, <2>1, <3>1 DEF Folds
    <2> HIDE DEF IsIter
    <2> QED BY <2>2
  <1>5. Spent(reps) = iter[1 .. n]
    BY <1>1 DEF Spent, FoldLeft, MapThenFoldSet
  <1> HIDE DEF iter
  <1>6. FoldsWithin(iter, Amount, 0, step, n)
    BY <1>1, <1>3, <1>4 DEF FoldsWithin
  <1>7. \E f : Iterates(f, Amount, 0, step, n) /\ f[n] = iter[1 .. n]
    <2>1. n \in Nat
      BY <1>1
    <2> HIDE DEF step, n
    <2> QED BY <1>2, <1>6, <2>1, FoldIterates
  <1> QED
    BY <1>5, <1>7

\* Lemma: one repetition more adds its cost.
LEMMA SpentAppend ==
  /\ Spent(<<>>) = 0
  /\ \A reps \in Seq(Row), r \in Row :
       Spent(reps) \in Nat /\ Spent(Append(reps, r)) = Spent(reps) + CostOf(r)
  <1>1. Spent(<<>>) = 0
    <2>1. <<>> \in Seq(Row) /\ Len(<<>>) = 0
      OBVIOUS
    <2> QED BY <2>1, SpentIterates DEF Iterates
  <1>2. ASSUME NEW reps \in Seq(Row), NEW r \in Row
        PROVE  Spent(reps) \in Nat /\ Spent(Append(reps, r)) = Spent(reps) + CostOf(r)
    <2> DEFINE n == Len(reps)
               more == Append(reps, r)
    <2>1. /\ n \in Nat /\ more \in Seq(Row) /\ Len(more) = n + 1 /\ more[n + 1] = r
          /\ \A i \in 1 .. n : more[i] = reps[i]
      OBVIOUS
    <2>2. PICK f : Iterates(f, Amount, 0, CostStep(reps), n) /\ Spent(reps) = f[n]
      BY SpentIterates
    <2>3. PICK g : Iterates(g, Amount, 0, CostStep(more), n + 1) /\ Spent(more) = g[n + 1]
      BY <2>1, SpentIterates
    <2>4. \A i \in 1 .. n, x \in Amount : CostStep(more)[i][x] = CostStep(reps)[i][x]
      BY <2>1 DEF CostStep
    <2>5. g[n] = f[n]
      <3> DEFINE few == CostStep(reps)
                 many == CostStep(more)
      <3>1. n \in Nat
        BY <2>1
      <3>2. Iterates(g, Amount, 0, many, n + 1) /\ Iterates(f, Amount, 0, few, n)
            /\ \A i \in 1 .. n : \A x \in Amount : many[i][x] = few[i][x]
        BY <2>2, <2>3, <2>4
      <3> HIDE DEF few, many, n
      <3> QED BY <3>1, <3>2, IterationExtends
    <2>6. g[n + 1] = CostStep(more)[n + 1][g[n]] /\ g[n] \in Amount
      BY <2>1, <2>3 DEF Iterates
    <2>7. g[n + 1] = g[n] + CostOf(r)
      BY <2>1, <2>6 DEF CostStep
    <2> QED BY <2>2, <2>3, <2>5, <2>6, <2>7 DEF Amount
  <1> QED BY <1>1, <1>2

----------------------------------------------------------------------------
(* The inductive invariant.                                                *)

\* Lemma: while the ceiling of all is kept, what is left of it is what was not spent.
LEMMA CeilingIsLeft ==
  ASSUME NEW reps \in Seq(Row)
  PROVE  /\ RemainingCeiling(reps) \in 0 .. MaxCostUsd
         /\ Spent(reps) <= MaxCostUsd => RemainingCeiling(reps) = MaxCostUsd - Spent(reps)
  <1>1. Spent(reps) \in Nat
    <2>1. [status |-> "failed", cost |-> Unknown, verdict |-> "failed", taskFailed |-> TRUE] \in Row
      BY DEF Row, Status, Verdicts
    <2> QED BY <2>1, SpentAppend
  <1> QED BY <1>1, RunAssumption DEF RemainingCeiling

\* Lemma: what is made of an ending is a repetition; it is cancelled only when the ending was,
\* and charged only within the ceiling it was given.
LEMMA Judged ==
  ASSUME NEW e \in Ending, ceiling \in Nat
  PROVE  /\ Repetition(e) \in Row
         /\ Repetition(e).status = "cancelled" => e.cancelled
         /\ Charged(Repetition(e)) => CostOf(Repetition(e)) <= ceiling
  <1>1. Repetition(e) \in Row
    BY DEF Repetition, StatusOf, Row, Status, Ending
  <1>2. Repetition(e).status = "cancelled" => e.cancelled
    BY DEF Repetition, StatusOf, Ending
  <1>3. ASSUME Charged(Repetition(e)) PROVE CostOf(Repetition(e)) <= ceiling
    <2>1. ~Breach(e.cost)
      BY <1>3 DEF Charged, Repetition, StatusOf, Ending
    <2>2. e.cost \in Costs \cup {Unknown}
      BY DEF Ending
    <2>3. CostOf(Repetition(e)) = IF e.cost = Unknown THEN 0 ELSE e.cost
      BY DEF CostOf, Repetition
    <2>4. CASE e.cost = Unknown
      BY <2>3, <2>4
    <2>5. CASE e.cost # Unknown
      <3>1. e.cost \in Nat /\ ~(e.cost > ceiling)
        BY <2>1, <2>2, <2>5, RunAssumption DEF Breach
      <3> QED BY <2>3, <2>5, <3>1
    <2> QED BY <2>4, <2>5
  <1> QED BY <1>1, <1>2, <1>3

\* Lemma: the strengthened invariant holds at the start and every step keeps it.
LEMMA IInvIsInductive ==
  /\ Init => IInv
  /\ IInv /\ [Next]_vars => IInv'
  <1>1. Init => IInv
    <2> SUFFICES ASSUME Init PROVE IInv
      OBVIOUS
    <2>1. repetitions = <<>> /\ DOMAIN repetitions = {} /\ repetitions \in Seq(Row)
      BY DEF Init
    <2>2. TypeOK
      <3>1. ending \in Ending
        BY DEF Init, NoEnding, Ending, Verdicts
      <3>2. Len(repetitions) <= Total /\ ceiling \in 0 .. MaxCostUsd
            /\ savedRuns \in 0 .. Len(repetitions)
        BY RunAssumption DEF Init
      <3>3. pc = "check" /\ over \in BOOLEAN /\ savedResult \in BOOLEAN /\ held \in BOOLEAN
        BY DEF Init
      <3> QED BY <2>1, <3>1, <3>2, <3>3 DEF TypeOK, Row
    <2>3. Accounted
      BY <2>1, SpentAppend, RunAssumption DEF Accounted
    <2> QED BY <2>1, <2>2, <2>3 DEF Init, IInv, LoopInv, SavedInv
  <1>2. ASSUME IInv, [Next]_vars PROVE IInv'
    <2> USE <1>2 DEF IInv
    <2>0. repetitions \in Seq(Row) /\ Len(repetitions) \in Nat
      BY DEF TypeOK, Row
    <2>1. CASE Finish
      BY <2>1 DEF Finish, TypeOK, Accounted, LoopInv, SavedInv, store
    <2>2. CASE NothingToReport
      BY <2>2 DEF NothingToReport, TypeOK, Accounted, LoopInv, SavedInv, store
    <2>3. CASE StartRepetition
      <3> USE <2>3 DEF StartRepetition, store
      <3>1. TypeOK'
        BY <2>0, CeilingIsLeft DEF TypeOK
      <3>2. Accounted'
        BY DEF Accounted
      <3>3. Len(repetitions) < Total
        BY RunAssumption DEF TypeOK, LoopEnds
      <3>4. ASSUME NEW i \in DOMAIN repetitions, Stops(repetitions[i]) PROVE FALSE
        <4>1. repetitions # <<>> /\ repetitions[i].status # "cancelled"
          BY <2>0, <3>4 DEF LoopInv
        <4>2. repetitions[i].status = "budget_exceeded" /\ i = Len(repetitions)
          BY <3>4, <4>1 DEF LoopInv, Stops
        <4> QED BY <4>1, <4>2 DEF LoopEnds, Last
      <3>5. LoopInv'
        BY <3>3, <3>4 DEF LoopInv
      <3> QED BY <3>1, <3>2, <3>5 DEF SavedInv
    <2>4. CASE CannotStart
      BY <2>4 DEF CannotStart, TypeOK, Accounted, LoopInv, SavedInv, store
    <2>5. CASE Spawn
      BY <2>5 DEF Spawn, TypeOK, Accounted, LoopInv, SavedInv, store
    <2>6. CASE SpawnRefused
      BY <2>6 DEF SpawnRefused, TypeOK, Accounted, LoopInv, SavedInv, store
    <2>7. CASE TargetEnds
      BY <2>7 DEF TargetEnds, TypeOK, Accounted, LoopInv, SavedInv, store
    <2>8. CASE Judge
      <3> DEFINE r == Repetition(ending)
                 n == Len(repetitions)
      <3> USE <2>8 DEF Judge, store
      <3>1. r \in Row /\ (r.status = "cancelled" => over) /\ (Charged(r) => CostOf(r) <= ceiling)
        BY Judged, RunAssumption DEF TypeOK, LoopInv
      <3> HIDE DEF r
      <3>2. /\ repetitions' = Append(repetitions, r) /\ repetitions' \in Seq(Row)
            /\ Len(repetitions') = n + 1 /\ DOMAIN repetitions' = 1 .. n + 1
            /\ DOMAIN repetitions = 1 .. n
            /\ repetitions'[n + 1] = r /\ \A i \in 1 .. n : repetitions'[i] = repetitions[i]
        BY <2>0, <3>1 DEF r
      <3>3. TypeOK'
        <4>1. n < Total /\ savedRuns \in 0 .. n
          BY DEF LoopInv, TypeOK
        <4>2. n + 1 <= Total /\ savedRuns \in 0 .. n + 1
          BY <4>1, <2>0, RunAssumption
        <4> QED BY <3>2, <4>2, RunAssumption
             DEF TypeOK, Row, NoEnding, Ending, Verdicts
      <3>4. Accounted'
        <4> SUFFICES ASSUME \A i \in 1 .. n + 1 : Charged(repetitions'[i])
                     PROVE  Spent(repetitions') <= MaxCostUsd
          BY <3>2 DEF Accounted
        <4>1. Charged(r) /\ Spent(repetitions) <= MaxCostUsd
          BY <2>0, <3>2 DEF Accounted
        <4>2. ceiling = MaxCostUsd - Spent(repetitions)
          BY <2>0, <4>1, CeilingIsLeft DEF LoopInv
        <4>3. Spent(repetitions') = Spent(repetitions) + CostOf(r) /\ Spent(repetitions) \in Nat
          BY <2>0, <3>1, <3>2, SpentAppend
        <4>4. CostOf(r) \in Nat
          BY <3>1, CostIsNatural
        <4> QED BY <3>1, <4>1, <4>2, <4>3, <4>4, RunAssumption
      <3>5. LoopInv'
        BY <2>0, <3>1, <3>2 DEF LoopInv, Stops
      <3> QED BY <3>3, <3>4, <3>5 DEF SavedInv
    <2>9. CASE SaveRun
      BY <2>0, <2>9 DEF SaveRun, TypeOK, Accounted, LoopInv, SavedInv
    <2>10. CASE SaveResult
      BY <2>10 DEF SaveResult, TypeOK, Accounted, LoopInv, SavedInv
    <2>11. CASE DeadlineOver
      BY <2>11 DEF DeadlineOver, TypeOK, Accounted, LoopInv, SavedInv, store
    <2>12. CASE Killed
      BY <2>12 DEF Killed, Ended, TypeOK, Accounted, LoopInv, SavedInv, store
    <2>13. CASE Release
      BY <2>13 DEF Release, TypeOK, Accounted, LoopInv, SavedInv, store
    <2>14. CASE UNCHANGED vars
      BY <2>14 DEF vars, TypeOK, Accounted, LoopInv, SavedInv
    <2> QED
      BY <2>1, <2>2, <2>3, <2>4, <2>5, <2>6, <2>7, <2>8, <2>9, <2>10, <2>11, <2>12, <2>13, <2>14
      DEF Next, Work
  <1> QED BY <1>1, <1>2

----------------------------------------------------------------------------

\* Theorem: the strengthened invariant, and with it the types.
THEOREM Invariance == Spec => []IInv
  BY IInvIsInductive, PTL DEF Spec

\* Theorem: for any number of repetitions and any costs, a scenario that passed kept the ceiling
\* of all, and a target is spawned after an overspend only behind a timeout.
THEOREM CeilingKept == Spec => []CeilingIsForAll
  <1>1. IInv => CeilingIsForAll
    <2> SUFFICES ASSUME IInv PROVE CeilingIsForAll
      OBVIOUS
    <2>0. repetitions \in Seq(Row)
      BY DEF IInv, TypeOK, Row
    <2>1. Passed => Spent(repetitions) <= MaxCostUsd
      BY DEF IInv, Accounted, Passed, PassedSoFar, RepetitionPassed, Charged
    <2>2. ASSUME pc = "process", Spent(repetitions) > MaxCostUsd
          PROVE  \E i \in DOMAIN repetitions : repetitions[i].status = "timeout"
      <3>1. Spent(repetitions) \in Nat
        <4>1. [status |-> "failed", cost |-> Unknown, verdict |-> "failed", taskFailed |-> TRUE] \in Row
          BY DEF Row, Status, Verdicts
        <4> QED BY <2>0, <4>1, SpentAppend
      <3>2. PICK i \in DOMAIN repetitions : ~Charged(repetitions[i])
        BY <2>2, <3>1, RunAssumption DEF IInv, Accounted
      <3>3. repetitions[i].status \in Status /\ ~Stops(repetitions[i])
        <4>1. repetitions[i] \in Row
          BY <2>0
        <4> QED BY <2>2, <4>1 DEF IInv, LoopInv, Row
      <3> QED BY <3>2, <3>3 DEF Charged, Stops, Status
    <2> QED BY <2>1, <2>2 DEF CeilingIsForAll
  <1> QED BY <1>1, Invariance, PTL

\* Theorem: whenever the program dies, a stored result names stored runs.
THEOREM ResultHasRuns == Spec => []StoredResultHasRuns
  <1>1. IInv => StoredResultHasRuns
    BY DEF IInv, SavedInv, StoredResultHasRuns
  <1> QED BY <1>1, Invariance, PTL

\* Theorem: of a scenario that passed, reliability fails those repetitions alone whose target
\* reported a failed task; a skipped evaluator never sets the two readings apart.
THEOREM PassedCounts == Spec => []OnlyTheTaskDivides
  <1>1. IInv => OnlyTheTaskDivides
    <2> DEFINE n == Len(repetitions)
               failed == {i \in DOMAIN repetitions : repetitions[i].taskFailed}
    <2> SUFFICES ASSUME IInv, Passed PROVE n - Successes = Cardinality(failed)
      BY DEF OnlyTheTaskDivides
    <2>1. n \in Nat /\ DOMAIN repetitions = 1 .. n /\ failed \subseteq 1 .. n
      BY DEF IInv, TypeOK
    <2>2. {i \in DOMAIN repetitions : Succeeded(repetitions[i])} = (1 .. n) \ failed
      BY <2>1 DEF Passed, PassedSoFar, RepetitionPassed, Succeeded
    <2>3. IsFiniteSet(1 .. n) /\ Cardinality(1 .. n) = n
      <3>1. \A k \in Nat : IsFiniteSet(1 .. k) /\ Cardinality(1 .. k) = k
        <4> SUFFICES ASSUME NEW k \in Nat PROVE IsFiniteSet(1 .. k) /\ Cardinality(1 .. k) = k
          OBVIOUS
        <4>1. IsFiniteSet(1 .. k) /\ Cardinality(1 .. k) = IF 1 > k THEN 0 ELSE k - 1 + 1
          BY FS_Interval
        <4> QED BY <4>1
      <3> QED BY <2>1, <3>1
    <2> DEFINE all == 1 .. n
    <2> HIDE DEF failed, n
    <2>4. (1 .. n) \cap failed = failed
      BY <2>1
    <2>5. Cardinality(all \ failed) = Cardinality(all) - Cardinality(all \cap failed)
      <3> HIDE DEF all
      <3>1. IsFiniteSet(all)
        BY <2>3 DEF all
      <3> QED BY <3>1, FS_Difference
    <2>6. IsFiniteSet(failed) /\ Cardinality(failed) \in Nat
      BY <2>1, <2>3, FS_Subset, FS_CardinalityType
    <2>7. Successes = n - Cardinality(failed)
      BY <2>2, <2>3, <2>4, <2>5 DEF Successes
    <2> QED BY <2>1, <2>6, <2>7
  <1> QED BY <1>1, Invariance, PTL

\* Theorem: once the deadline is over no target is spawned: the second look at it, after the
\* receiver was started, is the only way to a process.
THEOREM DeadlineStopsTargets == Spec => NoTargetAfterDeadline
  <1>1. [Next]_vars => [over /\ pc' = "process" => pc = "process"]_vars
    BY DEF Next, Work, vars, Finish, NothingToReport, StartRepetition, CannotStart, Spawn, Release,
           SpawnRefused, TargetEnds, Judge, SaveRun, SaveResult, DeadlineOver, Killed, Ended
  <1> QED BY <1>1, PTL DEF Spec, NoTargetAfterDeadline

----------------------------------------------------------------------------
(* The accounting of effects: for any effects and any number of attempts,  *)
(* no key is counted more often than it happened, and one complete account *)
(* makes the counts exact.                                                 *)

Tried == [effect : AttemptedEffects, outcome : Outcomes, inSpans : BOOLEAN, inResult : BOOLEAN]

AttemptsOK == attempts \in Seq(Tried)

\* The attempts that happened and have a key.
Fibre(k) == {i \in DOMAIN attempts : Happened(attempts[i]) /\ EffectKey(attempts[i].effect) = k}

HappenedKeys == {EffectKey(attempts[i].effect) : i \in Happenings}

----------------------------------------------------------------------------
(* Counts of one key.                                                      *)

\* Lemma: attempts are numbered from one, and each is about one of the effects.
LEMMA Positions ==
  ASSUME AttemptsOK
  PROVE  /\ IsFiniteSet(DOMAIN attempts)
         /\ \A i \in DOMAIN attempts :
              /\ attempts[i].effect \in AttemptedEffects
              /\ EffectKey(attempts[i].effect) \in Keys
  <1>1. Len(attempts) \in Nat /\ DOMAIN attempts = 1 .. Len(attempts)
    BY DEF AttemptsOK
  <1>2. IsFiniteSet(1 .. Len(attempts))
    BY <1>1, FS_Interval
  <1>3. ASSUME NEW i \in DOMAIN attempts PROVE attempts[i].effect \in AttemptedEffects
    <2>1. attempts[i] \in Tried
      BY DEF AttemptsOK
    <2> QED BY <2>1 DEF Tried
  <1> QED BY <1>1, <1>2, <1>3 DEF Keys

\* Lemma: an account that holds some of the attempts counts a key at most as often as it happened.
LEMMA AccountWithin ==
  ASSUME AttemptsOK, NEW A \in SUBSET DOMAIN attempts, NEW k
  PROVE  CountOf(A, k) \in Nat /\ Truly(k) \in Nat /\ CountOf(A, k) <= Truly(k)
  <1> DEFINE part == {i \in A : Happened(attempts[i]) /\ EffectKey(attempts[i].effect) = k}
  <1>1. IsFiniteSet(Fibre(k)) /\ part \in SUBSET Fibre(k)
    BY Positions, FS_Subset DEF Fibre
  <1>2. IsFiniteSet(part) /\ Cardinality(part) <= Cardinality(Fibre(k))
    BY <1>1, FS_Subset
  <1>3. Cardinality(part) \in Nat /\ Cardinality(Fibre(k)) \in Nat
    BY <1>1, <1>2, FS_CardinalityType
  <1>4. CountOf(A, k) = Cardinality(part) /\ Truly(k) = Cardinality(Fibre(k))
    BY DEF CountOf, Truly, Fibre
  <1> QED BY <1>2, <1>3, <1>4

\* Lemma: so does the larger of the two accounts' counts.
LEMMA OccurrencesWithin ==
  ASSUME AttemptsOK, NEW k
  PROVE  Occurrences(k) \in Nat /\ Truly(k) \in Nat /\ Occurrences(k) <= Truly(k)
  <1>1. SpanEffects \in SUBSET DOMAIN attempts /\ ReportedEffects \in SUBSET DOMAIN attempts
    BY DEF SpanEffects, ReportedEffects
  <1> QED BY <1>1, AccountWithin DEF Occurrences, Larger

\* Lemma: a set of more than one element has two.
LEMMA TwoElements ==
  ASSUME NEW S, IsFiniteSet(S), Cardinality(S) > 1
  PROVE  \E i, j \in S : i # j
  <1>1. PICK i \in S : TRUE
    BY FS_EmptySet
  <1>2. S # {i}
    BY FS_Singleton
  <1> QED BY <1>1, <1>2

\* Lemma: two effects with one key are one effect.
LEMMA KeyTellsEffect ==
  ASSUME NEW f \in AttemptedEffects, NEW g \in AttemptedEffects, EffectKey(f) = EffectKey(g)
  PROVE  f = g
  <1> DEFINE Pair(e) == [kind |-> e.kind, target |-> e.target]
             Triple(e) == [kind |-> e.kind, target |-> e.target, key |-> e.key]
  <1>1. \A d, e : Pair(d) # Triple(e)
    <2> TAKE d, e
    <2>1. "key" \notin DOMAIN Pair(d) /\ "key" \in DOMAIN Triple(e)
      OBVIOUS
    <2> QED BY <2>1
  <1>2. f = Triple(f) /\ g = Triple(g)
    BY EffectAssumption
  <1>3. CASE f.key = NoKey /\ g.key = NoKey
    <2>1. Pair(f) = Pair(g)
      BY <1>3 DEF EffectKey
    <2>2. f.kind = g.kind /\ f.target = g.target
      BY <2>1
    <2> QED BY <1>2, <1>3, <2>2
  <1>4. CASE f.key # NoKey /\ g.key # NoKey
    BY <1>2, <1>4 DEF EffectKey
  <1>5. CASE (f.key = NoKey) # (g.key = NoKey)
    BY <1>1, <1>5 DEF EffectKey
  <1> QED BY <1>3, <1>4, <1>5

----------------------------------------------------------------------------
(* Counts of all keys.                                                     *)

\* Lemma: when each key is counted as often as it happened, as much is counted as happened:
\* number the attempts of each key.
LEMMA CountedLikeHappenings ==
  ASSUME AttemptsOK, \A k \in Keys : Occurrences(k) = Truly(k)
  PROVE  ExistsBijection(Counted, Happenings)
  <1> DEFINE number == [k \in Keys |-> CHOOSE b : b \in Bijection(1 .. Occurrences(k), Fibre(k))]
             F(c) == number[c[1]][c[2]]
             f == [c \in Counted |-> F(c)]
  <1>1. ASSUME NEW k \in Keys
        PROVE  /\ number[k] \in [1 .. Occurrences(k) -> Fibre(k)]
               /\ \A m, n \in 1 .. Occurrences(k) : number[k][m] = number[k][n] => m = n
               /\ \A i \in Fibre(k) : \E n \in 1 .. Occurrences(k) : number[k][n] = i
    <2>1. IsFiniteSet(Fibre(k))
      BY Positions, FS_Subset DEF Fibre
    <2>2. Occurrences(k) = Cardinality(Fibre(k))
      BY DEF Truly, CountOf, Fibre
    <2>3. ExistsBijection(1 .. Occurrences(k), Fibre(k))
      BY <2>1, <2>2, FS_CardinalityType
    <2>4. PICK b \in Bijection(1 .. Occurrences(k), Fibre(k)) : b = number[k]
      <3>1. \E b : b \in Bijection(1 .. Occurrences(k), Fibre(k))
        BY <2>3, Fun_ExistsBij
      <3> QED BY <3>1
    <2> HIDE DEF number
    <2>5. /\ b \in [1 .. Occurrences(k) -> Fibre(k)]
          /\ \A m, n \in 1 .. Occurrences(k) : b[m] = b[n] => m = n
          /\ \A i \in Fibre(k) : \E n \in 1 .. Occurrences(k) : b[n] = i
      <3> DEFINE S == 1 .. Occurrences(k)
                 T == Fibre(k)
      <3>1. b \in Bijection(S, T)
        BY <2>4
      <3> HIDE DEF S, T
      <3>2. b \in [S -> T] /\ (\A m, n \in S : b[m] = b[n] => m = n) /\ \A i \in T : \E n \in S : b[n] = i
        BY <3>1, Fun_BijectionProperties
      <3> QED BY <3>2 DEF S, T
    <2> QED BY <2>4, <2>5
  <1>2. ASSUME NEW c \in Counted
        PROVE  /\ c[1] \in Keys /\ c[2] \in 1 .. Occurrences(c[1]) /\ c = <<c[1], c[2]>>
               /\ F(c) \in Fibre(c[1])
    <2>1. PICK k \in Keys : c \in {k} \X (1 .. Occurrences(k))
      BY DEF Counted
    <2>2. c[1] = k /\ c[2] \in 1 .. Occurrences(k) /\ c = <<c[1], c[2]>>
      BY <2>1
    <2> HIDE DEF number
    <2>3. number[k] \in [1 .. Occurrences(k) -> Fibre(k)]
      BY <1>1
    <2> QED BY <2>2, <2>3
  <1>3. f \in [Counted -> Happenings]
    BY <1>2 DEF Fibre, Happenings
  <1>4. ASSUME NEW c \in Counted, NEW d \in Counted, F(c) = F(d) PROVE c = d
    <2> HIDE DEF number
    <2>1. F(c) \in Fibre(c[1]) /\ F(d) \in Fibre(d[1])
      BY <1>2
    <2>2. c[1] = d[1]
      BY <1>4, <2>1 DEF Fibre
    <2>3. c[1] \in Keys /\ c[2] \in 1 .. Occurrences(c[1]) /\ d[2] \in 1 .. Occurrences(c[1])
      BY <1>2, <2>2
    <2>4. number[c[1]][c[2]] = number[c[1]][d[2]]
      BY <1>4, <2>2
    <2>5. c[2] = d[2]
      BY <1>1, <2>3, <2>4
    <2> QED BY <1>2, <2>2, <2>5
  <1>5. ASSUME NEW i \in Happenings PROVE \E c \in Counted : F(c) = i
    <2> DEFINE k == EffectKey(attempts[i].effect)
    <2>1. k \in Keys /\ i \in Fibre(k)
      BY Positions DEF Happenings, Fibre
    <2>2. PICK n \in 1 .. Occurrences(k) : number[k][n] = i
      BY <1>1, <2>1
    <2>3. <<k, n>> \in Counted
      BY <2>1, <2>2 DEF Counted
    <2> HIDE DEF number, k
    <2>4. F(<<k, n>>) = i
      BY <2>2
    <2> QED BY <2>3, <2>4
  <1>6. f \in Bijection(Counted, Happenings)
    <2>1. \A c, d \in Counted : f[c] = f[d] => c = d
      BY <1>4
    <2>2. \A i \in Happenings : \E c \in Counted : f[c] = i
      BY <1>5
    <2> QED BY <1>3, <2>1, <2>2, Fun_IsBij
  <1> QED BY <1>6, Fun_ExistsBij

\* Lemma: the first of each key and the ones beyond the first are all that is counted.
LEMMA FirstsAndExtras ==
  ASSUME AttemptsOK, \A k \in Keys : Occurrences(k) = Truly(k), IsFiniteSet(Counted)
  PROVE  TotalOccurrences = ExtraOccurrences + Cardinality(HappenedKeys)
  <1> DEFINE firsts == {<<k, 1>> : k \in HappenedKeys}
             extras == UNION {{k} \X (2 .. Occurrences(k)) : k \in DuplicateKeys}
  <1>1. \A k \in Keys : Occurrences(k) \in Nat
    BY OccurrencesWithin
  <1>2. ASSUME NEW k \in Keys PROVE k \in HappenedKeys <=> Occurrences(k) >= 1
    <2>1. IsFiniteSet(Fibre(k)) /\ Occurrences(k) = Cardinality(Fibre(k))
      BY Positions, FS_Subset DEF Fibre, Truly, CountOf
    <2>2. Occurrences(k) = 0 <=> Fibre(k) = {}
      BY <2>1, FS_EmptySet
    <2>3. k \in HappenedKeys <=> Fibre(k) # {}
      BY DEF HappenedKeys, Happenings, Fibre
    <2> QED BY <1>1, <2>2, <2>3
  <1>3. HappenedKeys \subseteq Keys
    BY Positions DEF HappenedKeys, Happenings
  <1>4. firsts \subseteq Counted
    <2> SUFFICES ASSUME NEW k \in HappenedKeys PROVE <<k, 1>> \in Counted
      OBVIOUS
    <2>1. k \in Keys /\ 1 \in 1 .. Occurrences(k)
      BY <1>1, <1>2, <1>3
    <2> QED BY <2>1 DEF Counted
  <1>5. extras \subseteq Counted
    <2> SUFFICES ASSUME NEW k \in DuplicateKeys, NEW n \in 2 .. Occurrences(k) PROVE <<k, n>> \in Counted
      OBVIOUS
    <2>1. k \in Keys /\ n \in 1 .. Occurrences(k)
      BY <1>1 DEF DuplicateKeys
    <2> QED BY <2>1 DEF Counted
  <1>6. Counted \subseteq firsts \cup extras
    <2> SUFFICES ASSUME NEW k \in Keys, NEW n \in 1 .. Occurrences(k) PROVE <<k, n>> \in firsts \cup extras
      BY DEF Counted
    <2>1. CASE n = 1
      BY <1>1, <1>2, <2>1
    <2>2. CASE n # 1
      <3>1. k \in DuplicateKeys /\ n \in 2 .. Occurrences(k)
        BY <1>1, <2>2 DEF DuplicateKeys
      <3> QED BY <3>1
    <2> QED BY <2>1, <2>2
  <1>7. firsts \cap extras = {}
    <2> SUFFICES ASSUME NEW k, NEW n, <<k, n>> \in firsts, <<k, n>> \in extras PROVE FALSE
      OBVIOUS
    <2>1. n = 1
      OBVIOUS
    <2>2. PICK j \in DuplicateKeys : n \in 2 .. Occurrences(j)
      OBVIOUS
    <2> QED BY <2>1, <2>2
  <1>8. ExistsBijection(firsts, HappenedKeys)
    <2> DEFINE f == [c \in firsts |-> c[1]]
    <2>1. f \in Bijection(firsts, HappenedKeys)
      <3>1. \A c \in firsts : f[c] \in HappenedKeys /\ c = <<f[c], 1>>
        OBVIOUS
      <3>2. \A k \in HappenedKeys : \E c \in firsts : f[c] = k
        <4> TAKE k \in HappenedKeys
        <4>1. <<k, 1>> \in firsts /\ f[<<k, 1>>] = k
          OBVIOUS
        <4> QED BY <4>1
      <3>3. f \in [firsts -> HappenedKeys] /\ \A c, d \in firsts : f[c] = f[d] => c = d
        BY <3>1
      <3> QED BY <3>2, <3>3, Fun_IsBij
    <2> QED BY <2>1, Fun_ExistsBij
  <1>9. IsFiniteSet(firsts) /\ IsFiniteSet(extras)
    BY <1>4, <1>5, FS_Subset
  <1>10. Cardinality(HappenedKeys) = Cardinality(firsts)
    BY <1>8, <1>9, FS_Bijection
  <1>11. /\ Cardinality(firsts \cup extras) =
              Cardinality(firsts) + Cardinality(extras) - Cardinality(firsts \cap extras)
         /\ Cardinality(firsts \cap extras) = 0
    BY <1>7, <1>9, FS_Union, FS_EmptySet
  <1>12. Cardinality(firsts) \in Nat /\ Cardinality(extras) \in Nat
    BY <1>9, FS_CardinalityType
  <1>13. Counted = firsts \cup extras
    BY <1>4, <1>5, <1>6
  <1>14. TotalOccurrences = Cardinality(firsts \cup extras) /\ ExtraOccurrences = Cardinality(extras)
    BY <1>13 DEF TotalOccurrences, ExtraOccurrences
  <1> HIDE DEF firsts, extras
  <1> QED BY <1>10, <1>11, <1>12, <1>14

----------------------------------------------------------------------------
(* The theorems about the accounts.                                        *)

\* The attempts are a list of attempts: each step adds one.
THEOREM AttemptsAre == AccountSpec => []AttemptsOK
  <1>1. AccountInit => AttemptsOK
    BY DEF AccountInit, AttemptsOK
  <1>2. AttemptsOK /\ [AccountNext]_attempts => AttemptsOK'
    <2>1. ASSUME AttemptsOK, Attempt PROVE AttemptsOK'
      <3>1. PICK f \in AttemptedEffects, o \in Outcomes, s \in BOOLEAN, r \in BOOLEAN :
              attempts' = Append(attempts, [effect |-> f, outcome |-> o, inSpans |-> s, inResult |-> r])
        BY <2>1 DEF Attempt
      <3> DEFINE a == [effect |-> f, outcome |-> o, inSpans |-> s, inResult |-> r]
      <3>2. a \in Tried
        BY DEF Tried
      <3> HIDE DEF a
      <3>3. attempts' = Append(attempts, a)
        BY <3>1 DEF a
      <3> QED BY <2>1, <3>2, <3>3 DEF AttemptsOK
    <2>2. ASSUME AttemptsOK, UNCHANGED attempts PROVE AttemptsOK'
      BY <2>2 DEF AttemptsOK
    <2> QED BY <2>1, <2>2 DEF AccountNext
  <1> QED BY <1>1, <1>2, PTL DEF AccountSpec

\* Whatever is recorded where, no key is counted more often than it happened, and what is
\* called a duplicate did happen twice (tallyEffects takes the larger count, not the sum).
THEOREM CountedAtMostOnce == AccountSpec => []NeverOvercounts
  <1>1. ASSUME AttemptsOK PROVE NeverOvercounts
    <2>1. \A k \in Keys : Occurrences(k) <= Truly(k)
      BY <1>1, OccurrencesWithin
    <2>2. ASSUME NEW k \in DuplicateKeys
          PROVE  \E i, j \in DOMAIN attempts :
                   /\ i # j /\ attempts[i].effect = attempts[j].effect
                   /\ EffectKey(attempts[i].effect) = k
      <3>1. IsFiniteSet(Fibre(k)) /\ Truly(k) = Cardinality(Fibre(k))
        BY <1>1, Positions, FS_Subset DEF Fibre, Truly, CountOf
      <3>2. Cardinality(Fibre(k)) > 1
        BY <1>1, <3>1, OccurrencesWithin DEF DuplicateKeys
      <3>3. PICK i \in Fibre(k), j \in Fibre(k) : i # j
        BY <3>1, <3>2, TwoElements
      <3>4. /\ i \in DOMAIN attempts /\ attempts[i].effect \in AttemptedEffects
            /\ EffectKey(attempts[i].effect) = k
            /\ j \in DOMAIN attempts /\ attempts[j].effect \in AttemptedEffects
            /\ EffectKey(attempts[j].effect) = k
        BY <1>1, Positions DEF Fibre
      <3>5. attempts[i].effect = attempts[j].effect
        BY <1>1, <3>4, KeyTellsEffect
      <3> QED BY <3>3, <3>4, <3>5
    <2> QED BY <2>1, <2>2 DEF NeverOvercounts
  <1>2. AttemptsOK => NeverOvercounts
    BY <1>1
  <1> QED BY <1>2, AttemptsAre, PTL

\* One complete account is enough: what is counted is what happened, the duplicates are the
\* keys that happened more than once, and the extra occurrences are all but one of each key.
THEOREM OneAccountIsEnough == AccountSpec => []CompleteAccountIsExact
  <1>1. ASSUME AttemptsOK, Complete(SpanEffects) \/ Complete(ReportedEffects)
        PROVE  \A k \in Keys : Occurrences(k) = Truly(k)
    <2>1. SpanEffects \in SUBSET DOMAIN attempts /\ ReportedEffects \in SUBSET DOMAIN attempts
      BY DEF SpanEffects, ReportedEffects
    <2> QED BY <1>1, <2>1, AccountWithin DEF Complete, Occurrences, Larger
  <1>2. AttemptsOK => CompleteAccountIsExact
    <2> SUFFICES ASSUME AttemptsOK, Complete(SpanEffects) \/ Complete(ReportedEffects)
                 PROVE  /\ TotalOccurrences = Cardinality(Happenings)
                        /\ DuplicateKeys = {k \in Keys : Truly(k) > 1}
                        /\ TotalOccurrences = ExtraOccurrences + Cardinality(HappenedKeys)
      BY DEF CompleteAccountIsExact, HappenedKeys
    <2>1. \A k \in Keys : Occurrences(k) = Truly(k)
      BY <1>1
    <2>2. IsFiniteSet(Happenings)
      BY Positions, FS_Subset DEF Happenings
    <2>3. ExistsBijection(Happenings, Counted)
      BY <2>1, CountedLikeHappenings, Fun_ExistsBijSymmetric
    <2>4. IsFiniteSet(Counted) /\ TotalOccurrences = Cardinality(Happenings)
      BY <2>2, <2>3, FS_Bijection DEF TotalOccurrences
    <2>5. DuplicateKeys = {k \in Keys : Truly(k) > 1}
      BY <2>1 DEF DuplicateKeys
    <2> QED BY <2>1, <2>4, <2>5, FirstsAndExtras
  <1> QED BY <1>2, AttemptsAre, PTL

============================================================================
