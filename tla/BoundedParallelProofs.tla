------------------------ MODULE BoundedParallelProofs ------------------------
(***************************************************************************)
(* Proofs about BoundedParallel, for every number of items, concurrency    *)
(* and deadline: the workers that share one index hand out each item once, *)
(* and implement WorkPool.                                                 *)
(*                                                                         *)
(* NoItemTwiceOrLost alone is not inductive.  Shared adds what it rests    *)
(* on: no worker holds an item that was not handed out, a worker leaves    *)
(* only when none is left, and one that threw has rejected the whole.      *)
(***************************************************************************)
EXTENDS BoundedParallel, FiniteSetTheorems, TLAPS

Shared ==
  /\ BatchTypeOK
  /\ now \in Nat
  /\ \A w \in Worker : holds[w] < nextIndex
  /\ \A w \in Worker : at[w] = "gone" => nextIndex > Items
  /\ \A w \in Worker : at[w] = "threw" => outcome = "rejected"
  /\ outcome = "resolved" => \A w \in Worker : at[w] = "gone"

IInv == Shared /\ NoItemTwiceOrLost

----------------------------------------------------------------------------
(* Sizes.                                                                  *)

\* The numbers are natural, and there is a worker whenever there is an item.
LEMMA WorkerFacts ==
  /\ Items \in Nat /\ Limit \in Nat
  /\ Worker \subseteq Nat
  /\ \A i \in Item : i \in Nat /\ i # 0 /\ i <= Items
  /\ \A i \in Item : 1 \in Worker
BY SizeAssumption DEF Item, Worker, Limit

----------------------------------------------------------------------------
(* The invariant.                                                          *)

LEMMA InitShared == Call => IInv
<1> SUFFICES ASSUME Call PROVE IInv
  OBVIOUS
<1> USE DEF Call, BatchInit
<1>1. BatchTypeOK
  BY WorkerFacts DEF BatchTypeOK
<1>2. now \in Nat
  BY DEF Init
<1>3. NoItemTwiceOrLost
  BY WorkerFacts DEF NoItemTwiceOrLost
<1> QED
  BY <1>1, <1>2, <1>3, WorkerFacts DEF IInv, Shared

LEMMA DeadlineShared == IInv /\ DeadlineStep => IInv'
<1> SUFFICES ASSUME IInv, DeadlineStep PROVE IInv'
  OBVIOUS
<1>1. UNCHANGED batch
  BY DEF DeadlineStep
<1>2. now' \in Nat
  BY DEF DeadlineStep, Next, Tick, ParentAborts, TimerFires, Dispose, IInv, Shared
<1> QED
  BY <1>1, <1>2 DEF IInv, Shared, BatchTypeOK, NoItemTwiceOrLost, batch

LEMMA StutterShared == IInv /\ UNCHANGED work_vars => IInv'
BY DEF IInv, Shared, BatchTypeOK, NoItemTwiceOrLost, work_vars, vars, batch

\* A worker takes the item at the index, or throws there; either way the index moves.
LEMMA TakeShared ==
  ASSUME IInv, NEW w \in Worker, TakeItem(w) PROVE IInv'
<1> USE WorkerFacts DEF IInv, Shared, TakeItem, vars
<1>0. nextIndex \in Item
  BY DEF BatchTypeOK, Item
<1>1. BatchTypeOK'
  BY <1>0 DEF BatchTypeOK, Item
<1>2. \A v \in Worker : holds'[v] < nextIndex'
  BY DEF BatchTypeOK
<1>3. NoItemTwiceOrLost'
  BY <1>0, <1>1 DEF BatchTypeOK, NoItemTwiceOrLost
<1> QED
  BY <1>1, <1>2, <1>3 DEF BatchTypeOK

LEMMA StopShared ==
  ASSUME IInv, NEW w \in Worker, StopAtDeadline(w) PROVE IInv'
<1> USE WorkerFacts DEF IInv, Shared, StopAtDeadline, Rejected, vars
<1>1. BatchTypeOK'
  BY DEF BatchTypeOK
<1>2. outcome' = "rejected" /\ outcome # "resolved"
  BY DEF BatchTypeOK
<1>3. NoItemTwiceOrLost'
  BY <1>1, <1>2 DEF BatchTypeOK, NoItemTwiceOrLost
<1> QED
  BY <1>1, <1>2, <1>3 DEF BatchTypeOK

LEMMA LeaveShared ==
  ASSUME IInv, NEW w \in Worker, Leave(w) PROVE IInv'
<1> USE WorkerFacts DEF IInv, Shared, Leave, vars
<1>1. BatchTypeOK'
  BY DEF BatchTypeOK
<1>2. NoItemTwiceOrLost'
  BY <1>1 DEF BatchTypeOK, NoItemTwiceOrLost
<1> QED
  BY <1>1, <1>2 DEF BatchTypeOK

\* The item a busy worker holds.
LEMMA HeldItem ==
  ASSUME IInv, NEW w \in Worker, at[w] = "busy"
  PROVE  holds[w] \in Item /\ holds[w] < nextIndex /\ results[holds[w]] = "none"
<1>1. holds[w] \in Item
  BY WorkerFacts DEF IInv, Shared, BatchTypeOK, Item
<1> QED
  BY <1>1 DEF IInv, Shared, BatchTypeOK, NoItemTwiceOrLost

LEMMA EndShared ==
  ASSUME IInv, NEW w \in Worker, Succeed(w) \/ FailSettled(w) PROVE IInv'
<1>0. at[w] = "busy" /\ \E r \in {"value", "error"} : results' = [results EXCEPT ![holds[w]] = r]
  BY DEF Succeed, FailSettled
<1>a. PICK r \in {"value", "error"} : results' = [results EXCEPT ![holds[w]] = r]
  BY <1>0
<1>b. /\ at' = [at EXCEPT ![w] = "ready"] /\ holds' = [holds EXCEPT ![w] = 0]
      /\ UNCHANGED <<now, settling, nextIndex, outcome>>
  BY DEF Succeed, FailSettled, vars
<1>c. holds[w] \in Item /\ holds[w] < nextIndex /\ results[holds[w]] = "none"
  BY <1>0, HeldItem
<1> USE WorkerFacts DEF IInv, Shared
<1>1. BatchTypeOK'
  BY <1>0, <1>a, <1>b, <1>c DEF BatchTypeOK
<1>2. NoItemTwiceOrLost'
  <2>1. \A u, v \in Worker : u # v /\ holds'[u] # 0 => holds'[u] # holds'[v]
    BY <1>b DEF BatchTypeOK, NoItemTwiceOrLost
  <2>2. \A i \in Item : results'[i] # "none" => i < nextIndex' /\ \A v \in Worker : holds'[v] # i
    BY <1>a, <1>b, <1>c DEF BatchTypeOK, NoItemTwiceOrLost
  <2>3. \A i \in Item : i < nextIndex' /\ results'[i] = "none" =>
          \E v \in Worker : holds'[v] = i \/ at'[v] = "threw"
    <3> SUFFICES ASSUME NEW i \in Item, i < nextIndex', results'[i] = "none"
                 PROVE  \E v \in Worker : holds'[v] = i \/ at'[v] = "threw"
      OBVIOUS
    <3>1. results[i] = "none" /\ i # holds[w]
      BY <1>a, <1>c DEF BatchTypeOK
    <3>2. PICK v \in Worker : holds[v] = i \/ at[v] = "threw"
      BY <3>1, <1>b DEF NoItemTwiceOrLost
    <3>3. v # w
      BY <3>1, <3>2, <1>0
    <3> QED
      BY <3>2, <3>3, <1>b DEF BatchTypeOK
  <2>4. \A i \in Item : outcome' = "resolved" => results'[i] # "none"
    BY <1>a, <1>b, <1>c DEF BatchTypeOK, NoItemTwiceOrLost
  <2> QED
    BY <2>1, <2>2, <2>3, <2>4 DEF NoItemTwiceOrLost
<1>3. outcome # "resolved"
  BY <1>0
<1>4. \A v \in Worker : at'[v] = "threw" => outcome' = "rejected"
  BY <1>b DEF BatchTypeOK
<1>5. \A v \in Worker : at'[v] = "gone" => nextIndex' > Items
  BY <1>b DEF BatchTypeOK
<1>6. \A v \in Worker : holds'[v] < nextIndex'
  BY <1>b DEF BatchTypeOK
<1> QED
  BY <1>1, <1>2, <1>3, <1>4, <1>5, <1>6, <1>b

LEMMA FailShared ==
  ASSUME IInv, NEW w \in Worker, Fail(w) PROVE IInv'
<1>0. at[w] = "busy"
  BY DEF Fail
<1>c. holds[w] \in Item /\ holds[w] < nextIndex /\ results[holds[w]] = "none"
  BY <1>0, HeldItem
<1> USE WorkerFacts DEF IInv, Shared, Fail, Rejected, vars
<1>1. BatchTypeOK'
  BY DEF BatchTypeOK
<1>2. outcome' = "rejected" /\ outcome # "resolved"
  BY DEF BatchTypeOK
<1>3. NoItemTwiceOrLost'
  BY <1>1, <1>2, <1>c DEF BatchTypeOK, NoItemTwiceOrLost
<1> QED
  BY <1>1, <1>2, <1>3 DEF BatchTypeOK

LEMMA ResolveShared == ASSUME IInv, Resolve PROVE IInv'
<1> USE WorkerFacts DEF IInv, Shared, Resolve, vars
<1>1. \A i \in Item : results[i] # "none"
  BY DEF BatchTypeOK, NoItemTwiceOrLost
<1>2. BatchTypeOK'
  BY DEF BatchTypeOK
<1>3. NoItemTwiceOrLost'
  BY <1>1 DEF NoItemTwiceOrLost
<1> QED
  BY <1>2, <1>3

\* Every step keeps the invariant.
LEMMA StepShared == IInv /\ [BatchNext]_work_vars => IInv'
<1> SUFFICES ASSUME IInv, [BatchNext]_work_vars PROVE IInv'
  OBVIOUS
<1>1. CASE DeadlineStep
  BY <1>1, DeadlineShared
<1>2. CASE Resolve
  BY <1>2, ResolveShared
<1>3. CASE \E w \in Worker : Step(w)
  BY <1>3, TakeShared, StopShared, LeaveShared, EndShared, FailShared DEF Step
<1>4. CASE UNCHANGED work_vars
  BY <1>4, StutterShared
<1> QED
  BY <1>1, <1>2, <1>3, <1>4 DEF BatchNext

LEMMA AlwaysIInv == BatchSpec => []IInv
<1> QED
  BY InitShared, StepShared, PTL DEF BatchSpec

\* mapWithConcurrency works on no item twice and skips none, however its workers interleave
\* and whenever the deadline ends, and resolves only with every result.
THEOREM NoItemTwiceOrLostHolds == BatchSpec => []NoItemTwiceOrLost
<1>1. IInv => NoItemTwiceOrLost
  BY DEF IInv
<1> QED
  BY <1>1, AlwaysIInv, PTL

----------------------------------------------------------------------------
(* The refinement.                                                         *)

Stage == [i \in Item |-> StageOf(i)]

\* A deadline that is over stays over.
LEMMA OverStays == now \in Nat /\ Over /\ [Next]_vars => Over'
<1> SUFFICES ASSUME now \in Nat, Over, [Next]_vars PROVE Over'
  OBVIOUS
<1>1. TimeoutMs \in Nat
  BY TimeAssumption
<1>2. signal # "live" => signal' # "live"
  BY DEF Next, Tick, ParentAborts, TimerFires, Dispose, vars
<1>3. now' \in Nat /\ now' >= now
  BY DEF Next, Tick, ParentAborts, TimerFires, Dispose, vars
<1> QED
  BY <1>1, <1>2, <1>3 DEF Over, Check, Expired

\* What the stage of an item says of the workers.
LEMMA StageFacts ==
  ASSUME IInv, NEW i \in Item
  PROVE  /\ StageOf(i) \in {"waiting", "started", "value", "error", "dropped"}
         /\ StageOf(i) = "waiting" <=> i >= nextIndex
         /\ StageOf(i) = "started" <=> \E w \in Worker : holds[w] = i
         /\ StageOf(i) \in {"value", "error"} <=> results[i] # "none"
<1>1. i >= nextIndex => results[i] = "none" /\ \A w \in Worker : holds[w] # i
  BY WorkerFacts DEF IInv, Shared, BatchTypeOK, NoItemTwiceOrLost
<1>2. results[i] # "none" => \A w \in Worker : holds[w] # i
  BY DEF IInv, NoItemTwiceOrLost
<1>3. results[i] \in {"none", "value", "error"}
  BY DEF IInv, Shared, BatchTypeOK
<1> QED
  BY <1>1, <1>2, <1>3 DEF StageOf

\* No more items are started than there are workers.
LEMMA StartedBound == IInv => Cardinality({i \in Item : Stage[i] = "started"}) <= Limit
<1> SUFFICES ASSUME IInv PROVE Cardinality({i \in Item : Stage[i] = "started"}) <= Limit
  OBVIOUS
<1> DEFINE S == {i \in Item : Stage[i] = "started"}
           f == [i \in S |-> CHOOSE w \in Worker : holds[w] = i]
<1>1. \A i \in S : f[i] \in Worker /\ holds[f[i]] = i
  BY StageFacts DEF Stage
<1>2. f \in Injection(S, Worker)
  <2>1. f \in [S -> Worker]
    BY <1>1
  <2>2. \A a, b \in S : f[a] = f[b] => a = b
    BY <1>1
  <2> HIDE DEF f
  <2> QED
    BY <2>1, <2>2 DEF Injection, IsInjective
<1>3. IsFiniteSet(Worker) /\ Cardinality(Worker) <= Limit
  <2> DEFINE n == IF Limit < Items THEN Limit ELSE Items
  <2>1. n \in Nat /\ n <= Limit /\ Worker = 1 .. n
    BY WorkerFacts DEF Worker
  <2> HIDE DEF n
  <2>2. IsFiniteSet(1 .. n) /\ Cardinality(1 .. n) = IF 1 > n THEN 0 ELSE n - 1 + 1
    BY <2>1, FS_Interval
  <2> QED
    BY <2>1, <2>2, WorkerFacts
<1>4. IsFiniteSet(S) /\ Cardinality(S) <= Cardinality(Worker)
  BY <1>2, <1>3, FS_Injection
<1>5. Cardinality(S) \in Nat /\ Cardinality(Worker) \in Nat
  BY <1>3, <1>4, FS_CardinalityType
<1> QED
  BY <1>3, <1>4, <1>5, WorkerFacts

LEMMA InitRefines == Call => Pool!Init
<1> SUFFICES ASSUME Call PROVE Pool!Init
  OBVIOUS
<1>1. \A i \in Item : StageOf(i) = "waiting"
  BY WorkerFacts DEF StageOf, Call, BatchInit
<1>2. Over \in BOOLEAN
  BY DEF Over
<1> QED
  BY <1>1, <1>2 DEF Pool!Init, Call, BatchInit

\* The deadline being over is the cancellation of the pool.
LEMMA DeadlineRefines == ASSUME IInv, DeadlineStep PROVE [Pool!Next]_(Pool!pool)
<1>1. UNCHANGED <<settling, outcome, Stage>>
  BY DEF DeadlineStep, batch, Stage, StageOf
<1>2. Over => Over'
  BY OverStays DEF DeadlineStep, IInv, Shared
<1>3. CASE Over' = Over
  BY <1>1, <1>3 DEF Pool!pool, Stage
<1>4. CASE Over' # Over
  <2>1. Over' = TRUE
    BY <1>2, <1>4 DEF Over
  <2> QED
    BY <1>1, <2>1 DEF Pool!Next, Pool!Cancel, Stage
<1> QED
  BY <1>3, <1>4

LEMMA TakeRefines == ASSUME IInv, IInv', NEW w \in Worker, TakeItem(w) PROVE Pool!Next
<1>0. PICK n \in Item : n = nextIndex
  BY WorkerFacts DEF TakeItem, IInv, Shared, BatchTypeOK, Item
<1>1. n \in Item /\ UNCHANGED <<settling, outcome, Over, results>> /\ Over = FALSE
  BY <1>0, WorkerFacts DEF TakeItem, vars, Over, Check, Expired, IInv, Shared, BatchTypeOK, Item
<1>2. StageOf(n) = "waiting" /\ \A j \in Item : j < n => StageOf(j) # "waiting"
  BY <1>0, <1>1, StageFacts, WorkerFacts
<1>3. \A i \in Item : StageOf(i)' = IF i = n THEN "started" ELSE StageOf(i)
  <2>1. \A i \in Item \ {n} : /\ (i >= nextIndex)' <=> i >= nextIndex
                              /\ \A v \in Worker : holds'[v] = i <=> holds[v] = i
    BY <1>0, WorkerFacts DEF TakeItem, IInv, Shared, BatchTypeOK
  <2>2. holds'[w] = n /\ results[n] = "none"
    BY <1>0, <1>1, WorkerFacts DEF TakeItem, IInv, Shared, BatchTypeOK, NoItemTwiceOrLost
  <2>3. StageOf(n)' = "started"
    BY <1>0, <1>1, <2>2, WorkerFacts DEF StageOf, TakeItem
  <2>4. ASSUME NEW i \in Item \ {n} PROVE StageOf(i)' = StageOf(i)
    BY <1>0, <1>1, <2>1 DEF StageOf
  <2> QED
    BY <2>3, <2>4
<1>4. Stage' = [Stage EXCEPT ![n] = "started"]
  BY <1>3 DEF Stage
<1>5. Cardinality({i \in Item : Stage'[i] = "started"}) <= Limit
  <2>1. (Cardinality({i \in Item : Stage[i] = "started"}) <= Limit)'
    BY StartedBound, PTL
  <2> QED
    BY <2>1
<1>6. Pool!Cardinality(Pool!Started)' <= Limit
  BY <1>5 DEF Pool!Started, Stage, Cardinality, Pool!Cardinality
<1>7. Pool!Start(n)
  BY <1>0, <1>1, <1>2, <1>4, <1>6 DEF Pool!Start, Stage
<1> QED
  BY <1>0, <1>1, <1>7 DEF Pool!Next

LEMMA StopRefines == ASSUME IInv, NEW w \in Worker, StopAtDeadline(w) PROVE Pool!Next
<1>0. PICK n \in Item : n = nextIndex
  BY WorkerFacts DEF StopAtDeadline, IInv, Shared, BatchTypeOK, Item
<1>1. n \in Item /\ UNCHANGED <<settling, Over, results, holds>> /\ Over = TRUE
  BY <1>0, WorkerFacts DEF StopAtDeadline, vars, Over, Check, Expired, IInv, Shared, BatchTypeOK, Item
<1>2. StageOf(n) = "waiting"
  BY <1>0, <1>1, StageFacts, WorkerFacts
<1>3. \A i \in Item : StageOf(i)' = IF i = n THEN "dropped" ELSE StageOf(i)
  <2>1. \A i \in Item \ {n} : (i >= nextIndex)' <=> i >= nextIndex
    BY <1>0, WorkerFacts DEF StopAtDeadline, IInv, Shared, BatchTypeOK
  <2>2. results[n] = "none" /\ \A v \in Worker : holds[v] # n
    BY <1>0, <1>1, <1>2, StageFacts
  <2>3. ~(n >= nextIndex')
    BY <1>0, <1>1, WorkerFacts DEF StopAtDeadline
  <2> QED
    BY <1>0, <1>1, <2>1, <2>2, <2>3 DEF StageOf
<1>4. Stage' = [Stage EXCEPT ![n] = "dropped"]
  BY <1>3 DEF Stage
<1>5. Pool!Drop(n)
  BY <1>0, <1>1, <1>2, <1>4 DEF Pool!Drop, Pool!Refused, StopAtDeadline, Rejected, Stage
<1> QED
  BY <1>0, <1>1, <1>5 DEF Pool!Next

LEMMA LeaveRefines == ASSUME IInv, NEW w \in Worker, Leave(w) PROVE UNCHANGED Pool!pool
<1>1. UNCHANGED <<settling, outcome, Over, results, holds>>
  BY DEF Leave, vars, Over, Check, Expired
<1>2. \A i \in Item : ~(i >= nextIndex) /\ ~(i >= nextIndex')
  BY WorkerFacts DEF Leave, IInv, Shared, BatchTypeOK
<1>3. \A i \in Item : StageOf(i)' = StageOf(i)
  BY <1>1, <1>2 DEF StageOf
<1> QED
  BY <1>1, <1>3 DEF Pool!pool

\* The items of other workers stay where they are when a worker lets go of its own.
LEMMA OthersStay ==
  ASSUME IInv, NEW w \in Worker, at[w] = "busy", holds' = [holds EXCEPT ![w] = 0],
         UNCHANGED nextIndex
  PROVE  /\ \A i \in Item \ {holds[w]} : \A v \in Worker : holds'[v] = i <=> holds[v] = i
         /\ \A v \in Worker : holds'[v] # holds[w]
         /\ StageOf(holds[w]) = "started"
<1>1. holds[w] \in Item /\ holds[w] # 0
  BY HeldItem, WorkerFacts
<1>2. StageOf(holds[w]) = "started"
  BY <1>1, StageFacts
<1> QED
  BY <1>1, <1>2, WorkerFacts DEF IInv, Shared, BatchTypeOK, NoItemTwiceOrLost

LEMMA SucceedRefines == ASSUME IInv, NEW w \in Worker, Succeed(w) PROVE Pool!Next
<1>0. PICK h \in Item : h = holds[w]
  BY HeldItem DEF Succeed
<1>1. h \in Item /\ at[w] = "busy" /\ UNCHANGED <<settling, outcome, Over, nextIndex>>
  BY <1>0, HeldItem DEF Succeed, vars, Over, Check, Expired
<1>r. results' = [results EXCEPT ![h] = "value"] /\ results \in [Item -> {"none", "value", "error"}]
  BY <1>0 DEF Succeed, IInv, Shared, BatchTypeOK
<1>2. \A i \in Item : StageOf(i)' = IF i = h THEN "value" ELSE StageOf(i)
  <2>1. StageOf(h)' = "value"
    BY <1>0, <1>1, <1>r DEF StageOf
  <2>2. ASSUME NEW i \in Item \ {h} PROVE StageOf(i)' = StageOf(i)
    <3>1. \A v \in Worker : holds'[v] = i <=> holds[v] = i
      BY <1>0, <1>1, OthersStay DEF Succeed
    <3> QED
      BY <1>0, <1>1, <1>r, <3>1 DEF StageOf
  <2> QED
    BY <2>1, <2>2
<1>3. Stage' = [Stage EXCEPT ![h] = "value"]
  BY <1>2 DEF Stage
<1>4. Pool!Complete(h)
  BY <1>0, <1>1, <1>3, OthersStay DEF Succeed, Pool!Complete, Stage
<1> QED
  BY <1>0, <1>1, <1>4 DEF Pool!Next

LEMMA FailSettledRefines == ASSUME IInv, NEW w \in Worker, FailSettled(w) PROVE Pool!Next
<1>0. PICK h \in Item : h = holds[w]
  BY HeldItem DEF FailSettled
<1>1. h \in Item /\ at[w] = "busy" /\ UNCHANGED <<settling, outcome, Over, nextIndex>>
  BY <1>0, HeldItem DEF FailSettled, vars, Over, Check, Expired
<1>r. results' = [results EXCEPT ![h] = "error"] /\ results \in [Item -> {"none", "value", "error"}]
  BY <1>0 DEF FailSettled, IInv, Shared, BatchTypeOK
<1>2. \A i \in Item : StageOf(i)' = IF i = h THEN "error" ELSE StageOf(i)
  <2>1. StageOf(h)' = "error"
    BY <1>0, <1>1, <1>r DEF StageOf
  <2>2. ASSUME NEW i \in Item \ {h} PROVE StageOf(i)' = StageOf(i)
    <3>1. \A v \in Worker : holds'[v] = i <=> holds[v] = i
      BY <1>0, <1>1, OthersStay DEF FailSettled
    <3> QED
      BY <1>0, <1>1, <1>r, <3>1 DEF StageOf
  <2> QED
    BY <2>1, <2>2
<1>3. Stage' = [Stage EXCEPT ![h] = "error"]
  BY <1>2 DEF Stage
<1>4. Pool!Break(h)
  BY <1>0, <1>1, <1>3, OthersStay DEF FailSettled, Pool!Break, Stage
<1> QED
  BY <1>0, <1>1, <1>4 DEF Pool!Next

LEMMA FailRefines == ASSUME IInv, NEW w \in Worker, Fail(w) PROVE Pool!Next
<1>0. PICK h \in Item : h = holds[w]
  BY HeldItem DEF Fail
<1>1. /\ h \in Item /\ h < nextIndex /\ results[h] = "none" /\ at[w] = "busy"
      /\ UNCHANGED <<settling, results, Over, nextIndex>>
  BY <1>0, HeldItem DEF Fail, vars, Over, Check, Expired
<1>2. \A i \in Item : StageOf(i)' = IF i = h THEN "dropped" ELSE StageOf(i)
  <2>1. ~(h >= nextIndex')
    BY <1>0, <1>1, WorkerFacts DEF IInv, Shared, BatchTypeOK
  <2>2. \A v \in Worker : holds'[v] # h
    BY <1>0, <1>1, OthersStay DEF Fail
  <2>3. StageOf(h)' = "dropped"
    BY <1>0, <1>1, <2>1, <2>2 DEF StageOf
  <2>4. ASSUME NEW i \in Item \ {h} PROVE StageOf(i)' = StageOf(i)
    <3>1. \A v \in Worker : holds'[v] = i <=> holds[v] = i
      BY <1>0, <1>1, OthersStay DEF Fail
    <3> QED
      BY <1>0, <1>1, <3>1 DEF StageOf
  <2> QED
    BY <2>3, <2>4
<1>3. Stage' = [Stage EXCEPT ![h] = "dropped"]
  BY <1>2 DEF Stage
<1>4. Pool!Break(h)
  BY <1>0, <1>1, <1>3, OthersStay DEF Fail, Pool!Break, Pool!Refused, Rejected, Stage
<1> QED
  BY <1>0, <1>1, <1>4 DEF Pool!Next

LEMMA ResolveRefines == ASSUME IInv, IInv', Resolve PROVE Pool!Next
<1>1. UNCHANGED <<settling, Over, Stage>>
  BY DEF Resolve, vars, Over, Check, Expired, Stage, StageOf
<1>2. \A i \in Item : results[i] # "none"
  BY DEF IInv, NoItemTwiceOrLost, Resolve
<1>3. \A i \in Item : Stage[i] \in {"value", "error"}
  BY <1>2, StageFacts DEF Stage
<1> QED
  BY <1>1, <1>3 DEF Pool!Next, Pool!Answer, Resolve, Stage

LEMMA StepRefines == IInv /\ IInv' /\ [BatchNext]_work_vars => [Pool!Next]_(Pool!pool)
<1> SUFFICES ASSUME IInv, IInv', [BatchNext]_work_vars PROVE [Pool!Next]_(Pool!pool)
  OBVIOUS
<1>1. CASE DeadlineStep
  BY <1>1, DeadlineRefines
<1>2. CASE Resolve
  BY <1>2, ResolveRefines
<1>3. CASE \E w \in Worker : Step(w)
  BY <1>3, TakeRefines, StopRefines, LeaveRefines, SucceedRefines, FailSettledRefines,
     FailRefines DEF Step
<1>4. CASE UNCHANGED work_vars
  BY <1>4 DEF work_vars, vars, batch, Pool!pool, StageOf, Over, Check, Expired
<1> QED
  BY <1>1, <1>2, <1>3, <1>4 DEF BatchNext

\* Workers that share an index and stop at a deadline implement the pool: items are started in
\* order, once, within the limit and not after a cancellation, and the answer is the pool's.
THEOREM ImplementsWorkPool == BatchSpec => KeepsPoolPromise
<1> QED
  BY InitRefines, StepRefines, AlwaysIInv, PTL DEF BatchSpec, KeepsPoolPromise

============================================================================
