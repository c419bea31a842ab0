---------------------------- MODULE ScenarioRun ----------------------------
(***************************************************************************)
(* One run of a scenario: the repetition loop of runScenarioWithArtifacts  *)
(* (packages/scenarios/src/run.ts), what buildRepetition makes of each     *)
(* repetition (repetition.ts), and the use case that saves the outcome     *)
(* (packages/usecases/src/scenario.ts).                                    *)
(*                                                                         *)
(* A repetition starts a receiver, spawns its target and drains what the   *)
(* target exported: TraceSession and SupervisedProcess are the details.    *)
(* Here a target ends somehow, at some cost and with a task outcome that   *)
(* it may or may not report, and what it started may hold its output.      *)
(* Meanwhile the deadline may pass or be cancelled, at any moment, and the *)
(* program may be killed.  Cost stands for every budget: tokens, calls,    *)
(* retries and duration are compared in the same way and are always known. *)
(***************************************************************************)
EXTENDS Naturals, Sequences, FiniteSets, SequencesExt

CONSTANTS
  Total,       \* the repetitions asked for
  Costs,       \* bound: the costs a target may report
  MaxCostUsd,  \* the ceiling of the policy
  Unknown      \* a cost that was not reported

ASSUME RunAssumption == Total \in Nat \ {0} /\ Costs \subseteq Nat /\ MaxCostUsd \in Nat
ASSUME UnknownAssumption == Unknown \notin Nat

VARIABLES
  pc,          \* where the call is
  over,        \* whether the deadline has passed or was cancelled
  ceiling,     \* the cost ceiling of the current repetition
  ending,      \* how the current target ended
  held,        \* whether a process the current target started holds its output
  repetitions, \* the repetitions so far
  savedRuns,   \* how many of them are in the store
  savedResult  \* whether the scenario's result is

vars == <<pc, over, ceiling, ending, held, repetitions, savedRuns, savedResult>>
store == <<savedRuns, savedResult>>

----------------------------------------------------------------------------
(* What a repetition comes to.                                             *)

CostOf(r) == IF r.cost = Unknown THEN 0 ELSE r.cost

\* spentUsd: a cost that was not reported adds nothing.
Spent(reps) == FoldLeft(LAMBDA sum, r : sum + CostOf(r), 0, reps)

FullCeiling(reps) == MaxCostUsd

\* remainingCostCeiling
RemainingCeiling(reps) == IF Spent(reps) < MaxCostUsd THEN MaxCostUsd - Spent(reps) ELSE 0

\* budgetBreach: a ceiling is applied to a cost that was reported.
Breach(cost) == cost # Unknown /\ cost > ceiling

\* repetitionStatus
StatusOf(e) ==
  CASE e.timedOut -> "timeout"
    [] ~e.timedOut /\ e.cancelled -> "cancelled"
    [] ~e.timedOut /\ ~e.cancelled /\ Breach(e.cost) -> "budget_exceeded"
    [] OTHER -> IF e.exitCode = 0 THEN "completed" ELSE "failed"

Repetition(e) ==
  [status |-> StatusOf(e), cost |-> e.cost, verdict |-> e.verdict, taskFailed |-> e.taskFailed]

VerdictPassed(r) == r.verdict = "passed"

\* everyRepetitionPassed: an evaluator that was skipped decided nothing.
RepetitionPassed(r) == r.status = "completed" /\ r.verdict = "passed"

PassedSoFar == \A i \in DOMAIN repetitions : RepetitionPassed(repetitions[i])

\* The result's verdict.
Passed == Len(repetitions) = Total /\ PassedSoFar

\* repetitionSucceeded, which takes the other view of what was skipped and asks the target too.
Succeeded(r) == r.status = "completed" /\ ~r.taskFailed /\ r.verdict # "failed"

Successes == Cardinality({i \in DOMAIN repetitions : Succeeded(repetitions[i])})

----------------------------------------------------------------------------

Status == {"completed", "failed", "timeout", "cancelled", "budget_exceeded"}
Verdicts == {"passed", "failed", "skipped"}
Ending == [timedOut : BOOLEAN, cancelled : BOOLEAN, exitCode : {0, 1},
           cost : Costs \cup {Unknown}, verdict : Verdicts, taskFailed : BOOLEAN]
Row == [status : Status, cost : Costs \cup {Unknown}, verdict : Verdicts, taskFailed : BOOLEAN]
NoEnding == [timedOut |-> FALSE, cancelled |-> FALSE, exitCode |-> 1,
             cost |-> Unknown, verdict |-> "skipped", taskFailed |-> FALSE]

\* Invariant: repetitions and stored rows never exceed what was asked for.
TypeOK ==
  /\ pc \in {"check", "receiver", "process", "drain", "saving", "done", "raised", "threw",
            "killed"}
  /\ over \in BOOLEAN /\ savedResult \in BOOLEAN
  /\ ceiling \in 0 .. MaxCostUsd /\ ending \in Ending
  /\ held \in BOOLEAN /\ repetitions \in Seq(Row)
  /\ Len(repetitions) <= Total /\ savedRuns \in 0 .. Len(repetitions)

Init ==
  /\ pc = "check" /\ over = FALSE /\ ceiling = 0 /\ ending = NoEnding
  /\ held = FALSE /\ repetitions = <<>> /\ savedRuns = 0 /\ savedResult = FALSE

----------------------------------------------------------------------------
(* The loop.                                                               *)

DeadlineOver ==
  /\ ~over /\ over' = TRUE
  /\ UNCHANGED <<pc, ceiling, ending, held, repetitions, store>>

LoopEndsByItself ==
  \/ Len(repetitions) = Total
  \/ repetitions # <<>> /\ Last(repetitions).status = "budget_exceeded"

\* Why the loop stops and the result is built: nothing left to run, a deadline that is
\* over with something to report, or a budget that was exceeded.
LoopEnds ==
  \/ Len(repetitions) = Total
  \/ repetitions # <<>> /\ over
  \/ repetitions # <<>> /\ Last(repetitions).status = "budget_exceeded"

Finish ==
  /\ pc = "check" /\ LoopEnds
  /\ pc' = "saving"
  /\ UNCHANGED <<over, ceiling, ending, held, repetitions, store>>

\* With nothing to report, check raises.
NothingToReport ==
  /\ pc = "check" /\ repetitions = <<>> /\ over
  /\ pc' = "raised"
  /\ UNCHANGED <<over, ceiling, ending, held, repetitions, store>>

StartRepetition ==
  /\ pc = "check" /\ ~LoopEnds /\ ~over
  /\ pc' = "receiver" /\ ceiling' = RemainingCeiling(repetitions)
  /\ UNCHANGED <<over, ending, held, repetitions, store>>

\* The receiver cannot be started, or the target cannot.
CannotStart ==
  /\ pc = "receiver"
  /\ pc' = "threw"
  /\ UNCHANGED <<over, ceiling, ending, held, repetitions, store>>

SpawnUnchecked ==
  /\ pc = "receiver"
  /\ pc' = "process" /\ held' \in BOOLEAN
  /\ UNCHANGED <<over, ceiling, ending, repetitions, store>>

\* runProcess checks the deadline again, because the receiver took time to start.
Spawn ==
  /\ pc = "receiver" /\ ~over
  /\ pc' = "process" /\ held' \in BOOLEAN
  /\ UNCHANGED <<over, ceiling, ending, repetitions, store>>

\* And raises when it is over by then.
SpawnRefused ==
  /\ pc = "receiver" /\ over
  /\ pc' = "raised"
  /\ UNCHANGED <<over, ceiling, ending, held, repetitions, store>>

\* What the target started lets go of its output.
Release ==
  /\ held /\ held' = FALSE
  /\ UNCHANGED <<pc, over, ceiling, ending, repetitions, store>>

\* Timed out, cancelled, or ended by itself; both flags may be set.  runProcess settles when
\* nobody holds the output (SupervisedProcess).
TargetEnds ==
  /\ pc = "process" /\ ~held
  /\ \E e \in Ending : (e.cancelled => over) /\ ending' = e
  /\ pc' = "drain"
  /\ UNCHANGED <<over, ceiling, held, repetitions, store>>

\* The drain is over, and the repetition is judged.
Judge ==
  /\ pc = "drain"
  /\ repetitions' = Append(repetitions, Repetition(ending))
  /\ ending' = NoEnding /\ ceiling' = 0
  /\ pc' = "check"
  /\ UNCHANGED <<over, held, store>>

----------------------------------------------------------------------------
(* The use case.                                                           *)

\* saveRun is one transaction for each repetition.
SaveRun ==
  /\ pc = "saving" /\ savedRuns < Len(repetitions)
  /\ savedRuns' = savedRuns + 1
  /\ UNCHANGED <<pc, over, ceiling, ending, held, repetitions, savedResult>>

SaveResultFirst ==
  /\ pc = "saving" /\ ~savedResult
  /\ savedResult' = TRUE
  /\ pc' = IF savedRuns = Len(repetitions) THEN "done" ELSE pc
  /\ UNCHANGED <<over, ceiling, ending, held, repetitions, savedRuns>>

SaveResult ==
  /\ pc = "saving" /\ savedRuns = Len(repetitions)
  /\ savedResult' = TRUE /\ pc' = "done"
  /\ UNCHANGED <<over, ceiling, ending, held, repetitions, savedRuns>>

Ended == pc \in {"done", "raised", "threw", "killed"}

\* The program is killed, or a write fails.
Killed ==
  /\ ~Ended
  /\ pc' = "killed"
  /\ UNCHANGED <<over, ceiling, ending, held, repetitions, store>>

----------------------------------------------------------------------------

Work ==
  \/ Finish \/ NothingToReport \/ StartRepetition \/ CannotStart \/ Spawn
  \/ SpawnRefused \/ TargetEnds \/ Judge \/ SaveRun \/ SaveResult

Next == Work \/ DeadlineOver \/ Release \/ Killed

\* The loop goes on, and runProcess ends every target whose output nobody holds
\* (SupervisedProcess).  Of what the target started nothing is assumed.
Spec == Init /\ [][Next]_vars /\ WF_vars(Work)

----------------------------------------------------------------------------
(* What a run promises.                                                    *)

\* The sum of all repetitions is held to one ceiling, each getting what the others left: a
\* scenario that passed did not spend more, as far as its target told; and a target is spawned
\* after the ones before it overspent only if a timeout hid the breach, since repetitionStatus
\* reports the timeout and the loop stops at budget_exceeded alone.
CeilingIsForAll ==
  /\ Passed => Spent(repetitions) <= MaxCostUsd
  /\ pc = "process" /\ Spent(repetitions) > MaxCostUsd =>
       \E i \in DOMAIN repetitions : repetitions[i].status = "timeout"

\* A stored result names runs that are stored, whenever the program dies.
StoredResultHasRuns == savedResult => savedRuns = Len(repetitions)

\* Of the repetitions of a scenario that passed, reliability fails those alone whose target
\* reported a failed task: no skipped evaluator and no status sets the two readings apart.
OnlyTheTaskDivides ==
  Passed => Len(repetitions) - Successes =
    Cardinality({i \in DOMAIN repetitions : repetitions[i].taskFailed})

\* Once the deadline is over no target is spawned, not even after a slow receiver.
NoTargetAfterDeadline == [][over /\ pc' = "process" => pc = "process"]_vars

\* Every run ends, unless something that a target started holds its output for ever.
ScenarioEndsUnlessHeld == <>Ended \/ <>[]held

============================================================================
