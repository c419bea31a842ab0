---------------------------- MODULE ValidationPlan ----------------------------
(***************************************************************************)
(* The validation plan of a goal: the recorded work it chooses as a        *)
(* baseline and the criteria and commands it states                        *)
(* (packages/usecases/src/goal.ts, packages/goals/src/create.ts), what the *)
(* commands leave in the store (scenario.ts, chaos.ts, trace.ts and        *)
(* compare.ts of usecases), and how the goal is judged by it               *)
(* (packages/goals/src/validate-plan.ts).                                  *)
(*                                                                         *)
(* Whoever implements the goal may follow the plan, leave commands out or  *)
(* give them in another order, and record other work meanwhile.  Variants, *)
(* reviews and the sentences of the plan are left out.                     *)
(***************************************************************************)
EXTENDS Comparison, Sequences

CONSTANTS
  Scenario,       \* the scenarios of the repository
  Unscripted,     \* stands for the scenario of a run that has none
  Declared,       \* Declared[s]: the fault plan of its own faults, or "none"
  SingleFault,    \* SingleFault[s]: the plan chaos makes of one of them
  Batches,        \* what the repetitions of one result may be, as kinds of run
  ResultsRead,    \* MAX_RESULTS_PER_SCENARIO
  ResultsListed,  \* the results scenarioResults returns
  MaxScenarios,   \* MAX_VALIDATION_SCENARIOS
  MaxRepetitions, \* bound: repetitions of one result
  MaxRecorded,    \* bound: results in the store when the goal is created
  MaxResults      \* bound: results in the store

\* Every result has a run, every repetition is counted once, and the list a comparison reads a
\* result from is longer than the one a baseline is chosen from (20 to 5).
ASSUME PlanAssumption ==
  /\ Unscripted \notin Scenario
  /\ Batches \subseteq Seq(DOMAIN RunKinds) \ {<<>>}
  /\ \A k \in DOMAIN RunKinds : RunKinds[k].covers \in Nat
  /\ ResultsRead \in Nat /\ ResultsListed \in Nat /\ ResultsRead < ResultsListed
  /\ MaxScenarios \in Nat \ {0} /\ MaxRepetitions \in Nat

VARIABLES
  results,    \* the results and traced runs in the store, oldest first
  attributed, \* how many of them the last audit attributed to components
  scan,       \* what the last scan says of the finding: "none", "present" or "gone"
  goal,       \* the goal, in a sequence of at most one
  compared,   \* the sides of its newest comparison of runs, if there is one
  followed    \* commands of the plan followed in order and with nothing between, or -1

vars == <<results, attributed, scan, goal, compared, followed>>

TheGoal == goal[1]
Kinds(i) == [j \in DOMAIN results[i].runs |-> RunKinds[results[i].runs[j]]]

----------------------------------------------------------------------------
(* Choosing the baseline.                                                  *)

\* scenarioResults: those of a scenario, and the newest of them up to a limit.
ResultsOf(s) == {i \in DOMAIN results : results[i].scenario = s}
Newest(s, limit) == {i \in ResultsOf(s) : Cardinality({j \in ResultsOf(s) : j > i}) < limit}

\* The repetitions that will contribute samples.
Contributing(i) == Cardinality({j \in DOMAIN Kinds(i) : Kinds(i)[j].completed /\ ~MeasuredNothing(Kinds(i)[j])})

\* runsExercising, as the results that hold them and how much of the finding they covered.
Coverage(i) == Max({0} \cup {Kinds(i)[j].covers : j \in {k \in DOMAIN Kinds(i) : Kinds(i)[k].completed}})
Exercising(s) == {i \in 1 .. attributed : results[i].scenario = s /\ Coverage(i) > 0}

\* The scenarios that exercised the components, ranked by how much and then by how lately.
Exercised == {s \in Scenario : Exercising(s) # {}}
Rank(s) == Max({0} \cup {Coverage(i) : i \in Exercising(s)})
Before(s, t) == Rank(s) > Rank(t) \/ (Rank(s) = Rank(t) /\ Max(Exercising(s)) > Max(Exercising(t)))

\* As many of them as the limit, each with the number of those that come before it.
InOrder(scenarios, limit) ==
  [n \in 1 .. Min({limit, Cardinality(scenarios)}) |->
     CHOOSE s \in scenarios : Cardinality({t \in scenarios : Before(t, s)}) = n - 1]

\* The results that have enough samples, or else all.
Preferred(candidates) ==
  LET enough == {i \in candidates : Contributing(i) >= MinimumSamples}
  IN  IF enough # {} THEN enough ELSE candidates

\* comparableResultFor: the newest; 0 if there is none.
ComparableResult(s) ==
  Max({0} \cup Preferred({i \in Newest(s, ResultsRead) : Contributing(i) > 0}))

\* That of the first scenario; 0 if no scenario has one.
Baseline ==
  LET comparable == Preferred({ComparableResult(s) : s \in Exercised} \ {0})
  IN  IF comparable = {} THEN 0
      ELSE ComparableResult(InOrder({results[i].scenario : i \in comparable}, 1)[1])

ScenariosComparedFirst(b) ==
  IF b = 0 THEN InOrder(Exercised, MaxScenarios)
  ELSE <<results[b].scenario>> \o InOrder(Exercised \ {results[b].scenario}, MaxScenarios - 1)

\* The scenarios the plan reruns; the compared one last, so that its rerun is the latest run.
ScenariosFor(b) ==
  IF b = 0 THEN InOrder(Exercised, MaxScenarios)
  ELSE Append(InOrder(Exercised \ {results[b].scenario}, MaxScenarios - 1), results[b].scenario)

----------------------------------------------------------------------------
(* The goal.                                                               *)

\* samplesRequiredFor, and one for a metric decided by presence.
Required(m) ==
  IF m \in DecidedByPresence THEN 1
  ELSE IF m = "durationMs.p50" THEN QuantileSamples ELSE MinimumSamples

\* metricIsDecidable; the baseline is a result of a scenario the plan reruns.
MetricIsDecidable(m, b, repetitions) ==
  b # 0 /\ Contributing(b) >= Required(m) /\ repetitions >= Required(m)

\* acceptanceCriteriaFor: the metrics; the improvement is asked for by some rules only.
MetricsStated(b, repetitions, improves) ==
  {m \in {"successRate", "duplicateSideEffects"} \cup (IF improves THEN {"durationMs.p50"} ELSE {}) :
     MetricIsDecidable(m, b, repetitions)}

\* validationPlanFor
Plan(g) ==
  <<<<"audit">>>> \o [n \in DOMAIN g.scenarios |-> <<"test", g.scenarios[n]>>]
    \o <<<<"compare">>, <<"validate">>>>

\* A command the plan may or may not name.
Follow(command) ==
  followed' = IF goal # <<>> /\ followed \in 0 .. Len(Plan(TheGoal)) - 1 /\ Plan(TheGoal)[followed + 1] = command
              THEN followed + 1
              ELSE IF goal = <<>> THEN 0 ELSE -1

\* createGoalFromFinding and createGoal
CreateGoal(repetitions, improves) ==
  /\ scan = "present" /\ goal = <<>>
  /\ goal' = <<[made |-> Len(results), repetitions |-> repetitions, baseline |-> Baseline,
                scenarios |-> ScenariosFor(Baseline), status |-> "ready",
                metrics |-> MetricsStated(Baseline, repetitions, improves)]>>
  /\ UNCHANGED <<results, attributed, scan, compared, followed>>

----------------------------------------------------------------------------
(* The commands.                                                           *)

Record(new) ==
  /\ Len(results) + Len(new) <= IF goal = <<>> THEN MaxRecorded ELSE MaxResults
  /\ results' = results \o new
  /\ UNCHANGED <<attributed, scan, goal, compared>>

Result(s, faults, runs) == [scenario |-> s, faults |-> faults, runs |-> runs]

\* orchescope test, as the plan gives it once there is one.
Test(s) ==
  /\ \E runs \in Batches :
       /\ goal # <<>> => Len(runs) = TheGoal.repetitions
       /\ Record(<<Result(s, Declared[s], runs)>>)
  /\ Follow(<<"test", s>>)

\* orchescope chaos: a baseline with the scenario's own faults, and a plan of one fault.
Chaos(s) ==
  /\ Declared[s] # "none"
  /\ \E whole, single \in Batches :
       /\ Len(whole) = Len(single)
       /\ Record(<<Result(s, Declared[s], whole), Result(s, SingleFault[s], single)>>)
  /\ Follow(<<"chaos">>)

\* orchescope trace
Trace ==
  /\ \E k \in DOMAIN RunKinds : Record(<<Result(Unscripted, "none", <<k>>)>>)
  /\ Follow(<<"trace">>)

\* orchescope audit; the code may have been changed, before the goal or for it.
Audit ==
  /\ attributed' = Len(results)
  /\ scan' \in {"present", "gone"}
  /\ Follow(<<"audit">>)
  /\ UNCHANGED <<results, goal, compared>>

\* sideFromRun and repetitionSet: the whole result where it is still listed, otherwise one run.
Side(i, run) ==
  LET r == results[i]
  IN  [of |-> i, scenario |-> r.scenario, faults |-> r.faults,
       runs |-> IF r.scenario # Unscripted /\ i \in Newest(r.scenario, ResultsListed)
                THEN r.runs ELSE <<run>>]

\* orchescope compare <baseline> latest --goal, where the goal has a baseline.
Compare ==
  /\ goal # <<>> /\ TheGoal.baseline # 0
  /\ compared' = <<[baseline |-> Side(TheGoal.baseline, results[TheGoal.baseline].runs[1]),
                    candidate |-> Side(Len(results), results[Len(results)].runs[Len(results[Len(results)].runs)])]>>
  /\ Follow(<<"compare">>)
  /\ UNCHANGED <<results, attributed, scan, goal>>

----------------------------------------------------------------------------
(* The judgement.                                                          *)

\* conditionsDisagree; an absent scenario says nothing.
ConditionsDisagree(b, c) ==
  \/ b.scenario # c.scenario /\ Unscripted \notin {b.scenario, c.scenario}
  \/ b.faults # c.faults

\* metricNotWorseOutcome and metricImprovementOutcome, for a tenth.
OutcomeBetween(m, b, c) ==
  IF DOMAIN b = {} \/ DOMAIN c = {} THEN "undecided"
  ELSE IF m # "durationMs.p50"
    THEN [indeterminate |-> "undecided", regressed |-> "failed", improved |-> "satisfied",
          unchanged |-> "satisfied"][Direction(m, b, c)]
  ELSE IF Median(b) = 0 THEN "undecided"
  ELSE IF 10 * (Median(b) - Median(c)) >= Median(b) THEN "satisfied" ELSE "failed"

MetricOutcome(m) ==
  IF compared = <<>> THEN "undecided"
  ELSE LET b == compared[1].baseline c == compared[1].candidate
       IN  IF ConditionsDisagree(b, c) THEN "undecided"
           ELSE OutcomeBetween(m, Samples(b, m), Samples(c, m))

\* scenarioPassesOutcome: the newest result, if it is newer than the goal.
ScenarioOutcome(s) ==
  LET newest == Max({0} \cup ResultsOf(s))
  IN  IF newest <= TheGoal.made \/ \E run \in Range(Kinds(newest)) : run.success = "unreported"
        THEN "undecided"
      ELSE IF \A run \in Range(Kinds(newest)) : run.completed /\ run.success = "yes"
        THEN "satisfied" ELSE "failed"

\* validateGoal
Validated ==
  /\ \A m \in TheGoal.metrics : MetricOutcome(m) = "satisfied"
  /\ \A s \in Range(TheGoal.scenarios) : ScenarioOutcome(s) = "satisfied"
  /\ scan = "gone"

\* validateGoalOutcome
Validate ==
  /\ goal # <<>>
  /\ goal' = [goal EXCEPT ![1].status = IF Validated THEN "validated" ELSE "in_progress"]
  /\ Follow(<<"validate">>)
  /\ UNCHANGED <<results, attributed, scan, compared>>

----------------------------------------------------------------------------

Init ==
  results = <<>> /\ attributed = 0 /\ scan = "none" /\ goal = <<>> /\ compared = <<>> /\ followed = 0

Next ==
  \/ \E s \in Scenario : Test(s) \/ Chaos(s)
  \/ Trace \/ Audit \/ Compare \/ Validate
  \/ \E n \in 1 .. MaxRepetitions, improves \in BOOLEAN : CreateGoal(n, improves)

Spec == Init /\ [][Next]_vars

----------------------------------------------------------------------------

\* Every repetition completed, was measured and reported whether it succeeded.
Reported(i) ==
  \A run \in Range(Kinds(i)) : run.completed /\ run.spans /\ run.success # "unreported"

\* A plan can decide what its goal states.  Where the commands were followed in their order
\* with nothing recorded between them, every repetition of the baseline and of the reruns
\* reported its outcome, and the baseline ran under the faults a rerun runs under, the two
\* sides are the baseline and its rerun, and each has for every metric of a criterion the
\* samples that criterion needs: on results of several scenarios, on repetitions that did not
\* count, on results that left the window the goal was created from.
PlanDecides ==
  /\ goal # <<>> /\ TheGoal.baseline # 0 /\ followed = Len(Plan(TheGoal))
  /\ Reported(TheGoal.baseline) /\ \A i \in TheGoal.made + 1 .. Len(results) : Reported(i)
  /\ results[TheGoal.baseline].faults = Declared[results[TheGoal.baseline].scenario]
  => LET b == compared[1].baseline c == compared[1].candidate
     IN  /\ b.of = TheGoal.baseline /\ c.of > TheGoal.made /\ ~ConditionsDisagree(b, c)
         /\ \A m \in TheGoal.metrics, side \in {b, c} : Count(Samples(side, m)) >= Required(m)

\* A plan followed out of order leaves its goal undecided: a goal is validated by a
\* comparison of the baseline with another recording, never with itself.
OutOfOrderIsUndecided ==
  goal # <<>> /\ TheGoal.status = "validated" /\ compared # <<>> =>
    compared[1].baseline.of # compared[1].candidate.of

=============================================================================
