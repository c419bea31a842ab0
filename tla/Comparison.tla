------------------------------ MODULE Comparison ------------------------------
(***************************************************************************)
(* The verdict of a comparison (packages/comparison/src/compare.ts): each  *)
(* metric is given a direction from the samples of the runs of two sides,  *)
(* each pair of findings that make the same claim another, and metrics     *)
(* decide when they can, findings when they cannot.                        *)
(*                                                                         *)
(* Means and spreads are compared in integers: both sides of every         *)
(* inequality are multiplied by the sample sizes.                          *)
(***************************************************************************)
EXTENDS Integers, Sequences, FiniteSets, Functions, FiniteSetsExt

CONSTANTS
  RunKinds,        \* what a run may have measured, numbered
  MinimumSamples,  \* MINIMUM_SAMPLES_PER_SIDE
  QuantileSamples  \* QUANTILE_MIN_SAMPLES of the quantile metric

\* The schema of a run refuses a metric below zero (packages/schema/src/run.ts).
ASSUME RunKindAssumption ==
  \A k \in DOMAIN RunKinds : RunKinds[k].duration \in Nat /\ RunKinds[k].duplicates \in Nat

ASSUME SamplesAssumption == MinimumSamples \in Nat /\ QuantileSamples \in Nat

----------------------------------------------------------------------------
(* Metrics.                                                                *)

\* One metric of each kind: a mean, the same numbers by rank, a rate, and one that counts
\* what must not happen at all.
Metrics == {"durationMs", "durationMs.p50", "successRate", "duplicateSideEffects"}

LowerIsBetter == Metrics \ {"successRate"}
DecidedByPresence == {"duplicateSideEffects"}

\* runMeasuredNothing
MeasuredNothing(run) == ~run.spans /\ run.success = "unreported"

\* numericMetric, for a run that has the metric.
NumericMetric(run, m) ==
  CASE m \in {"durationMs", "durationMs.p50"} -> run.duration
    [] m = "successRate" -> IF run.success = "yes" THEN 1 ELSE 0
    [] m = "duplicateSideEffects" -> run.duplicates

\* Whether a run has a sample of the metric.
Sampled(run, m) == ~MeasuredNothing(run) /\ (m = "successRate" => run.success # "unreported")

\* samplesFromRuns, for one metric: a value for each run that has one.
Samples(side, m) ==
  [i \in {j \in DOMAIN side.runs : Sampled(RunKinds[side.runs[j]], m)} |->
     NumericMetric(RunKinds[side.runs[i]], m)]

Count(values) == Cardinality(DOMAIN values)
Squares(values) == [i \in DOMAIN values |-> values[i] * values[i]]

\* The nearest rank, half way up: the least value that half of them do not exceed.
Median(values) ==
  Min({x \in Range(values) : 2 * Cardinality({i \in DOMAIN values : values[i] <= x}) >= Count(values)})

\* summarise: a numerator over a denominator.
Summary(m, values) ==
  IF m = "durationMs.p50" THEN [over |-> Median(values), under |-> 1]
  ELSE [over |-> SumFunction(values), under |-> Count(values)]

Below(p, q) == p.over * q.under < q.over * p.under

\* The square of the standard deviation, times n * (n - 1).
Spread(values) == Count(values) * SumFunction(Squares(values)) - SumFunction(values) * SumFunction(values)

\* Twice the combined standard error, or more.
OutsideNoise(v, w) ==
  LET m == Count(v) n == Count(w) d == SumFunction(v) * n - SumFunction(w) * m
  IN  d * d * (m - 1) * (n - 1) >= 4 * (Spread(v) * n * n * (n - 1) + Spread(w) * m * m * (m - 1))

MeaningfulByOneSide(m, v, w) ==
  IF m = "durationMs.p50" THEN Count(v) >= QuantileSamples /\ Count(w) >= QuantileSamples
  ELSE Count(v) >= MinimumSamples /\ OutsideNoise(v, w)

\* differenceIsMeaningful for a mean; for a quantile enough samples are enough.
Meaningful(m, v, w) ==
  IF m = "durationMs.p50" THEN Count(v) >= QuantileSamples /\ Count(w) >= QuantileSamples
  ELSE Count(v) >= MinimumSamples /\ Count(w) >= MinimumSamples /\ OutsideNoise(v, w)

Better(yes) == IF yes THEN "improved" ELSE "regressed"

\* directionFor, for two summaries.
DirectionBetween(b, c, lower, present, meaningful) ==
  IF ~Below(b, c) /\ ~Below(c, b) THEN "unchanged"
  ELSE IF present /\ 0 \in {b.over, c.over} THEN Better(c.over = 0)
  ELSE IF ~meaningful THEN "indeterminate"
  ELSE Better(Below(c, b) <=> lower)

\* directionFor
Direction(m, v, w) ==
  IF DOMAIN v = {} \/ DOMAIN w = {} THEN "indeterminate"
  ELSE DirectionBetween(Summary(m, v), Summary(m, w), m \in LowerIsBetter, m \in DecidedByPresence,
                        Meaningful(m, v, w))

\* The metrics either side has a sample of.
Compared(b, c) == {m \in Metrics : DOMAIN Samples(b, m) # {} \/ DOMAIN Samples(c, m) # {}}

\* verdictFromMetrics, from the directions; "undecided" where the code has no answer.
VerdictFromDirections(moved, lostTask) ==
  IF "regressed" \in moved /\ (lostTask \/ "improved" \notin moved) THEN "regressed"
  ELSE IF {"regressed", "improved"} \subseteq moved THEN "mixed"
  ELSE IF "improved" \in moved THEN "improved"
  ELSE IF "unchanged" \in moved THEN "unchanged" ELSE "undecided"

\* verdictFromMetrics
VerdictFromMetrics(b, c) ==
  LET direction(m) == Direction(m, Samples(b, m), Samples(c, m))
  IN  VerdictFromDirections({direction(m) : m \in Compared(b, c)}, direction("successRate") = "regressed")

----------------------------------------------------------------------------
(* Findings.                                                               *)

\* A strength or a risk, what it is about, and the key the build gave it, if it gives keys.
Finding ==
  [strength : BOOLEAN, about : STRING, key : STRING, semantic : BOOLEAN, scale : Nat, severity : Nat]

\* findingsShareIdentity: the key where both sides have one, otherwise what they are about.
SameClaim(f, g) ==
  /\ f.strength = g.strength
  /\ IF f.semantic /\ g.semantic THEN f.key = g.key ELSE f.about = g.about

\* The findings of one list that no finding of the other shares its claim with.
Alone(fs, gs) == {f \in Range(fs) : \A g \in Range(gs) : ~SameClaim(f, g)}

\* Each finding of the candidate with the first of the baseline that shares its claim.
Pairs(fs, gs) ==
  {<<fs[Min({i \in DOMAIN fs : SameClaim(fs[i], g)})], g>> : g \in Range(gs) \ Alone(gs, fs)}

\* presenceDirection
PresenceDirection(f, change) == Better(f.strength <=> change = "introduced")

\* scaleDirection
ScaleDirection(b, c) ==
  LET grew == c.scale > b.scale shrank == c.scale < b.scale
      worse == c.severity > b.severity milder == c.severity < b.severity
      up == IF b.strength THEN grew \/ worse ELSE shrank /\ ~worse
      down == IF b.strength THEN shrank \/ milder ELSE grew \/ worse
  IN  IF up THEN "improved" ELSE IF down THEN "regressed" ELSE "unchanged"

\* diffFindings
Moves(fs, gs) ==
  {PresenceDirection(f, "resolved") : f \in Alone(fs, gs)}
    \cup {PresenceDirection(g, "introduced") : g \in Alone(gs, fs)}
    \cup {ScaleDirection(p[1], p[2]) : p \in Pairs(fs, gs)}

\* verdictFromFindings
VerdictFromFindings(fs, gs) ==
  LET moves == Moves(fs, gs)
  IN  IF {"improved", "regressed"} \subseteq moves THEN "mixed"
      ELSE IF "regressed" \in moves THEN "regressed"
      ELSE IF "improved" \in moves THEN "improved" ELSE "unchanged"

\* decideVerdict, when metrics have had their say.
VerdictAfter(fromMetrics, b, c) ==
  IF fromMetrics \in {"improved", "regressed", "mixed"} THEN fromMetrics
  ELSE IF b.scan # <<>> /\ c.scan # <<>> THEN VerdictFromFindings(b.scan[1], c.scan[1])
  ELSE IF fromMetrics = "undecided" THEN "insufficient_evidence" ELSE fromMetrics

\* decideVerdict
Verdict(b, c) == VerdictAfter(VerdictFromMetrics(b, c), b, c)

============================================================================
