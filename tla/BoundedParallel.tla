--------------------------- MODULE BoundedParallel ---------------------------
(***************************************************************************)
(* mapWithConcurrency and settleWithConcurrency                            *)
(* (packages/domain/src/parallel.ts): workers that share one index, take   *)
(* items until none is left, and stop when the deadline is over.  One      *)
(* event loop runs them; a worker gives way only while its item is being   *)
(* worked on.  In the settling variant an item that fails is a result like *)
(* another.                                                                *)
(*                                                                         *)
(* The module composes the batch with its deadline: every variable of      *)
(* Deadline is here, its steps interleave with those of the workers, and   *)
(* the workers ask it Check before each item, as analyzeFileSet does with  *)
(* the deadline that runAudit made.                                        *)
(***************************************************************************)
EXTENDS Deadline, FiniteSets

CONSTANTS
  Items,        \* how many items there are
  Concurrency   \* the option, which may be zero

ASSUME SizeAssumption == Items \in Nat /\ Concurrency \in Nat

Item == 1 .. Items

\* The limit is at least one, and no more workers are made than there are items.
Limit == IF Concurrency < 1 THEN 1 ELSE Concurrency
Worker == 1 .. (IF Limit < Items THEN Limit ELSE Items)

VARIABLES
  settling,   \* which of the two functions was called
  nextIndex,  \* the first item no worker has taken
  at,         \* where each worker is: ready, busy, gone or threw
  holds,      \* the item a busy worker is working on, otherwise zero
  results,    \* what came of the items
  outcome     \* the promise the caller has

batch == <<settling, nextIndex, at, holds, results, outcome>>
work_vars == <<vars, batch>>

\* Whether deadline.check raises.
Over == Check # "none"

----------------------------------------------------------------------------

\* Invariant: a worker holds an item exactly while it is busy.
BatchTypeOK ==
  /\ settling \in BOOLEAN
  /\ nextIndex \in Nat \ {0}
  /\ at \in [Worker -> {"ready", "busy", "gone", "threw"}]
  /\ holds \in [Worker -> 0 .. Items]
  /\ results \in [Item -> {"none", "value", "error"}]
  /\ outcome \in {"pending", "resolved", "rejected"}
  /\ \A w \in Worker : at[w] = "busy" <=> holds[w] # 0

BatchInit ==
  /\ settling \in BOOLEAN /\ nextIndex = 1
  /\ at = [w \in Worker |-> "ready"] /\ holds = [w \in Worker |-> 0]
  /\ results = [i \in Item |-> "none"]
  /\ outcome = "pending"

\* The call: the deadline is made, and with it the batch.
Call == Init /\ BatchInit

Rejected == IF outcome = "pending" THEN "rejected" ELSE outcome

----------------------------------------------------------------------------

\* The clock, the timers, the caller and whatever else runs under the deadline.
DeadlineStep == Next /\ UNCHANGED batch

TakeItemUnchecked(w) ==
  /\ at[w] = "ready" /\ nextIndex <= Items
  /\ nextIndex' = nextIndex + 1
  /\ at' = [at EXCEPT ![w] = "busy"] /\ holds' = [holds EXCEPT ![w] = nextIndex]
  /\ UNCHANGED <<vars, settling, results, outcome>>

TakeThenAwait(w) ==
  /\ at[w] = "ready" /\ nextIndex <= Items /\ ~Over
  /\ nextIndex' = IF \E v \in Worker : at[v] = "busy" THEN nextIndex + 1 ELSE nextIndex
  /\ at' = [at EXCEPT ![w] = "busy"] /\ holds' = [holds EXCEPT ![w] = nextIndex]
  /\ UNCHANGED <<vars, settling, results, outcome>>

\* The index is read and advanced with no await between.
TakeItem(w) ==
  /\ at[w] = "ready" /\ nextIndex <= Items /\ ~Over
  /\ nextIndex' = nextIndex + 1
  /\ at' = [at EXCEPT ![w] = "busy"] /\ holds' = [holds EXCEPT ![w] = nextIndex]
  /\ UNCHANGED <<vars, settling, results, outcome>>

StopQuietly(w) ==
  /\ at[w] = "ready" /\ nextIndex <= Items /\ Over
  /\ nextIndex' = nextIndex + 1
  /\ at' = [at EXCEPT ![w] = "threw"]
  /\ UNCHANGED <<vars, settling, holds, results, outcome>>

\* deadline.check raises after the index was advanced.
StopAtDeadline(w) ==
  /\ at[w] = "ready" /\ nextIndex <= Items /\ Over
  /\ nextIndex' = nextIndex + 1
  /\ at' = [at EXCEPT ![w] = "threw"]
  /\ outcome' = Rejected
  /\ UNCHANGED <<vars, settling, holds, results>>

\* No item is left; the index has been advanced all the same.
Leave(w) ==
  /\ at[w] = "ready" /\ nextIndex > Items
  /\ nextIndex' = nextIndex + 1
  /\ at' = [at EXCEPT ![w] = "gone"]
  /\ UNCHANGED <<vars, settling, holds, results, outcome>>

Succeed(w) ==
  /\ at[w] = "busy"
  /\ results' = [results EXCEPT ![holds[w]] = "value"]
  /\ at' = [at EXCEPT ![w] = "ready"] /\ holds' = [holds EXCEPT ![w] = 0]
  /\ UNCHANGED <<vars, settling, nextIndex, outcome>>

\* In the settling variant a failure is a result, and the worker goes on.
FailSettled(w) ==
  /\ at[w] = "busy" /\ settling
  /\ results' = [results EXCEPT ![holds[w]] = "error"]
  /\ at' = [at EXCEPT ![w] = "ready"] /\ holds' = [holds EXCEPT ![w] = 0]
  /\ UNCHANGED <<vars, settling, nextIndex, outcome>>

\* In the other it ends its worker and rejects the whole.
\* The other workers are not told: they go on taking items.
Fail(w) ==
  /\ at[w] = "busy" /\ ~settling
  /\ at' = [at EXCEPT ![w] = "threw"] /\ holds' = [holds EXCEPT ![w] = 0]
  /\ outcome' = Rejected
  /\ UNCHANGED <<vars, settling, nextIndex, results>>

\* Promise.all resolves when every worker has returned.
Resolve ==
  /\ outcome = "pending" /\ \A w \in Worker : at[w] = "gone"
  /\ outcome' = "resolved"
  /\ UNCHANGED <<vars, settling, nextIndex, at, holds, results>>

----------------------------------------------------------------------------

Step(w) ==
  TakeItem(w) \/ StopAtDeadline(w) \/ Leave(w) \/ Succeed(w) \/ FailSettled(w) \/ Fail(w)

BatchNext == DeadlineStep \/ Resolve \/ \E w \in Worker : Step(w)

\* Callbacks are run, and work on an item ends: its own deadline is the item's concern.
BatchFairness ==
  /\ WF_work_vars(Resolve)
  /\ \A w \in Worker : WF_work_vars(Step(w))

BatchSpec == Call /\ [][BatchNext]_work_vars /\ BatchFairness

----------------------------------------------------------------------------
(* What bounded parallelism promises.                                      *)

\* However the workers interleave, no item is worked on twice and none is skipped: an item
\* that was handed out is with one worker, has its result, or fell with a worker that threw,
\* and an answer has them all.
NoItemTwiceOrLost ==
  /\ \A v, w \in Worker : v # w /\ holds[v] # 0 => holds[v] # holds[w]
  /\ \A i \in Item :
       /\ results[i] # "none" => i < nextIndex /\ \A w \in Worker : holds[w] # i
       /\ i < nextIndex /\ results[i] = "none" =>
            \E w \in Worker : holds[w] = i \/ at[w] = "threw"
       /\ outcome = "resolved" => results[i] # "none"

\* Where an item is, for a caller who does not see the workers.
StageOf(i) ==
  IF results[i] # "none" THEN results[i]
  ELSE IF i >= nextIndex THEN "waiting"
  ELSE IF \E w \in Worker : holds[w] = i THEN "started"
  ELSE "dropped"

Pool == INSTANCE WorkPool WITH
  stage <- [i \in Item |-> StageOf(i)],
  cancelled <- Over, answer <- outcome

\* The workers and the shared index keep the promises of WorkPool: in order, once each, within
\* the limit, nothing started after the deadline, and a refusal only for a cancellation or,
\* in the variant that does not settle, for an item that failed.
KeepsPoolPromise == Pool!Init /\ [][Pool!Next]_(Pool!pool)

\* The caller gets an answer.
Answered == <>(outcome # "pending")

============================================================================
