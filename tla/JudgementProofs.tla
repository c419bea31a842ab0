--------------------------- MODULE JudgementProofs ---------------------------
(***************************************************************************)
(* What a comparison promises of any two sides, and what a validation plan *)
(* promises of any store: theorems about Comparison and ValidationPlan for *)
(* any number of runs, findings, scenarios and results.                    *)
(***************************************************************************)
EXTENDS ComparisonSides, ValidationPlan, FoldFacts, SequenceTheorems, FunctionTheorems

----------------------------------------------------------------------------
(* Samples and their summaries.                                            *)

Numbers(v) == IsFiniteSet(DOMAIN v) /\ v \in [DOMAIN v -> Nat]

Runs(side) == side.runs \in Seq(DOMAIN RunKinds)

\* Lemma: the samples of a metric are naturals, at most one for each run.
LEMMA SamplesAreNumbers ==
  ASSUME NEW side, Runs(side), NEW m \in Metrics
  PROVE  Numbers(Samples(side, m)) /\ DOMAIN Samples(side, m) \in SUBSET DOMAIN side.runs
  <1> DEFINE D == {j \in DOMAIN side.runs : Sampled(RunKinds[side.runs[j]], m)}
             v == [i \in D |-> NumericMetric(RunKinds[side.runs[i]], m)]
  <1>1. Samples(side, m) = v
    BY DEF Samples
  <1>2. DOMAIN side.runs = 1 .. Len(side.runs) /\ Len(side.runs) \in Nat
    BY DEF Runs
  <1>3. IsFiniteSet(DOMAIN side.runs)
    BY <1>2, FS_Interval
  <1>4. D \in SUBSET DOMAIN side.runs
    OBVIOUS
  <1>5. IsFiniteSet(D)
    <2> HIDE DEF D
    <2> QED BY <1>3, <1>4, FS_Subset
  <1>6. ASSUME NEW i \in D PROVE NumericMetric(RunKinds[side.runs[i]], m) \in Nat
    <2>1. side.runs[i] \in DOMAIN RunKinds
      BY <1>2 DEF Runs
    <2> DEFINE run == RunKinds[side.runs[i]]
    <2>2. run.duration \in Nat /\ run.duplicates \in Nat
      BY <2>1, RunKindAssumption
    <2> HIDE DEF run
    <2>3. NumericMetric(run, m) \in Nat
      BY <2>2 DEF NumericMetric, Metrics
    <2> QED BY <2>3 DEF run
  <1>7. v \in [D -> Nat] /\ DOMAIN v = D
    <2> HIDE DEF D
    <2> QED BY <1>6
  <1> HIDE DEF v, D
  <1> QED BY <1>1, <1>4, <1>5, <1>7 DEF Numbers

\* Lemma: there are as many samples as runs that have one.
LEMMA CountIsNatural ==
  ASSUME NEW v, Numbers(v)
  PROVE  Count(v) \in Nat
  BY FS_CardinalityType DEF Count, Numbers

\* Lemma: samples have a median: half of them do not exceed the largest.
LEMMA MedianIsNatural ==
  ASSUME NEW v, Numbers(v), DOMAIN v # {}
  PROVE  Median(v) \in Nat
  <1> DEFINE D == DOMAIN v
             V == {v[i] : i \in D}
             halves == {x \in Range(v) : 2 * Cardinality({i \in DOMAIN v : v[i] <= x}) >= Count(v)}
  <1>1. V \in SUBSET Nat /\ V # {} /\ V = Range(v)
    BY DEF Numbers, Range
  <1>2. IsFiniteSet(V)
    BY FinitelyManyValues DEF Numbers
  <1>3. Max(V) \in V /\ \A x \in V : x <= Max(V)
    <2> HIDE DEF V
    <2> QED BY <1>1, <1>2, MaxOfFinite
  <1>4. Max(V) \in halves
    <2> DEFINE x == Max(V)
    <2>1. {i \in DOMAIN v : v[i] <= x} = DOMAIN v
      <3> HIDE DEF x
      <3>1. \A i \in DOMAIN v : v[i] \in V
        OBVIOUS
      <3> HIDE DEF V
      <3> QED BY <1>3, <3>1 DEF x
    <2>2. Count(v) \in Nat
      BY CountIsNatural
    <2>3. x \in Range(v)
      BY <1>1, <1>3
    <2> HIDE DEF x, V
    <2>4. 2 * Cardinality({i \in DOMAIN v : v[i] <= x}) >= Count(v)
      BY <2>1, <2>2 DEF Count
    <2> QED BY <2>3, <2>4 DEF x
  <1>5. halves \in SUBSET Nat
    BY <1>1
  <1>6. Min(halves) \in halves
    <2> HIDE DEF halves, V
    <2> QED BY <1>4, <1>5, MinIsLeast
  <1>7. Median(v) = Min(halves)
    BY DEF Median
  <1> HIDE DEF halves
  <1> QED BY <1>5, <1>6, <1>7

\* Lemma: a summary of samples is one natural over another.
LEMMA SummaryIsNatural ==
  ASSUME NEW v, Numbers(v), DOMAIN v # {}, NEW m
  PROVE  Summary(m, v).over \in Nat /\ Summary(m, v).under \in Nat
  <1>1. SumFunction(v) \in Nat
    BY SumIsNatural DEF Numbers
  <1>2. Median(v) \in Nat /\ Count(v) \in Nat
    BY MedianIsNatural, CountIsNatural
  <1> QED BY <1>1, <1>2 DEF Summary

\* Lemma: the noise around two means is the same from either of them.
LEMMA NoiseIsSymmetric ==
  ASSUME NEW v, Numbers(v), NEW w, Numbers(w)
  PROVE  OutsideNoise(v, w) <=> OutsideNoise(w, v)
  <1> DEFINE m == Count(v)
             n == Count(w)
             p == SumFunction(v) * n
             q == SumFunction(w) * m
             x == Spread(v) * n * n * (n - 1)
             y == Spread(w) * m * m * (m - 1)
  <1>1. m \in Nat /\ n \in Nat /\ SumFunction(v) \in Nat /\ SumFunction(w) \in Nat
    BY CountIsNatural, SumIsNatural DEF Numbers
  <1>2. ASSUME NEW u, Numbers(u) PROVE Spread(u) \in Int
    <2>1. Squares(u) \in [DOMAIN u -> Nat]
      <3>1. \A i \in DOMAIN u : u[i] * u[i] \in Nat
        BY <1>2 DEF Numbers
      <3> QED BY <3>1 DEF Squares
    <2>2. SumFunction(Squares(u)) \in Nat /\ SumFunction(u) \in Nat /\ Count(u) \in Nat
      BY <1>2, <2>1, SumIsNatural, CountIsNatural DEF Numbers
    <2> QED BY <2>2 DEF Spread
  <1>3. p \in Int /\ q \in Int
    BY <1>1
  <1>4. x \in Int /\ y \in Int
    <2>1. Spread(v) \in Int /\ Spread(w) \in Int
      BY <1>2
    <2> HIDE DEF m, n
    <2> QED BY <1>1, <2>1
  <1>5. OutsideNoise(v, w) <=> (p - q) * (p - q) * (m - 1) * (n - 1) >= 4 * (x + y)
    BY DEF OutsideNoise
  <1>6. OutsideNoise(w, v) <=> (q - p) * (q - p) * (n - 1) * (m - 1) >= 4 * (y + x)
    BY DEF OutsideNoise
  <1> HIDE DEF m, n, p, q, x, y
  <1>7. (p - q) * (p - q) = (q - p) * (q - p) /\ (p - q) * (p - q) \in Int
    BY <1>3
  <1>8. \A e, a, b \in Int : e * a * b = e * b * a
    OBVIOUS
  <1>9. (p - q) * (p - q) * (m - 1) * (n - 1) = (q - p) * (q - p) * (n - 1) * (m - 1)
    BY <1>1, <1>7, <1>8
  <1>10. x + y = y + x
    BY <1>4
  <1> QED BY <1>5, <1>6, <1>9, <1>10

----------------------------------------------------------------------------
(* Directions, from either side.                                           *)

\* The other way round.
Flip(d) == IF d = "improved" THEN "regressed" ELSE IF d = "regressed" THEN "improved" ELSE d

\* Lemma: what may be called from one side may be called from the other.
LEMMA MeaningfulIsSymmetric ==
  ASSUME NEW v, Numbers(v), NEW w, Numbers(w), NEW m
  PROVE  Meaningful(m, v, w) <=> Meaningful(m, w, v)
  BY NoiseIsSymmetric DEF Meaningful

\* Lemma: of two summaries each says of the other the opposite; only one can be zero.
LEMMA DirectionBetweenFlips ==
  ASSUME NEW b, NEW c, b.over \in Nat, b.under \in Nat, c.over \in Nat, c.under \in Nat,
         NEW lower \in BOOLEAN, NEW present \in BOOLEAN, NEW meaningful \in BOOLEAN
  PROVE  DirectionBetween(c, b, lower, present, meaningful)
           = Flip(DirectionBetween(b, c, lower, present, meaningful))
  <1> DEFINE p == b.over * c.under
             q == c.over * b.under
  <1>1. p \in Nat /\ q \in Nat
    OBVIOUS
  <1>2. (Below(b, c) <=> p < q) /\ (Below(c, b) <=> q < p)
    BY DEF Below
  <1>3. b.over = 0 /\ c.over = 0 => p = 0 /\ q = 0
    OBVIOUS
  <1> HIDE DEF p, q
  <1>4. CASE p = q
    BY <1>1, <1>2, <1>4 DEF DirectionBetween, Flip
  <1>5. CASE p < q
    BY <1>1, <1>2, <1>3, <1>5 DEF DirectionBetween, Flip, Better
  <1>6. CASE q < p
    BY <1>1, <1>2, <1>3, <1>6 DEF DirectionBetween, Flip, Better
  <1> QED BY <1>1, <1>4, <1>5, <1>6

\* Lemma: a metric moves the other way when the sides change places, and not against itself.
LEMMA DirectionFlips ==
  ASSUME NEW b, Runs(b), NEW c, Runs(c), NEW m \in Metrics
  PROVE  /\ Direction(m, Samples(c, m), Samples(b, m)) = Flip(Direction(m, Samples(b, m), Samples(c, m)))
         /\ Direction(m, Samples(b, m), Samples(b, m)) \in {"unchanged", "indeterminate"}
  <1> DEFINE v == Samples(b, m)
             w == Samples(c, m)
  <1>1. Numbers(v) /\ Numbers(w)
    BY SamplesAreNumbers
  <1> HIDE DEF v, w
  <1>2. Direction(m, w, v) = Flip(Direction(m, v, w))
    <2>1. CASE DOMAIN v = {} \/ DOMAIN w = {}
      BY <2>1 DEF Direction, Flip
    <2>2. CASE DOMAIN v # {} /\ DOMAIN w # {}
      <3> DEFINE x == Summary(m, v)
                 y == Summary(m, w)
                 lower == m \in LowerIsBetter
                 present == m \in DecidedByPresence
                 meaningful == Meaningful(m, v, w)
      <3>1. x.over \in Nat /\ x.under \in Nat /\ y.over \in Nat /\ y.under \in Nat
        BY <1>1, <2>2, SummaryIsNatural
      <3>2. meaningful = Meaningful(m, w, v) /\ meaningful \in BOOLEAN
        <4>1. meaningful \in BOOLEAN /\ Meaningful(m, w, v) \in BOOLEAN
          BY DEF Meaningful, OutsideNoise
        <4> QED BY <1>1, <4>1, MeaningfulIsSymmetric
      <3>3. Direction(m, v, w) = DirectionBetween(x, y, lower, present, meaningful)
        BY <2>2 DEF Direction
      <3>4. Direction(m, w, v) = DirectionBetween(y, x, lower, present, meaningful)
        BY <2>2, <3>2 DEF Direction
      <3>5. lower \in BOOLEAN /\ present \in BOOLEAN
        OBVIOUS
      <3> HIDE DEF x, y, lower, present, meaningful
      <3> QED BY <3>1, <3>2, <3>3, <3>4, <3>5, DirectionBetweenFlips
    <2> QED BY <2>1, <2>2
  <1>3. Direction(m, v, v) \in {"unchanged", "indeterminate"}
    <2>1. CASE DOMAIN v = {}
      BY <2>1 DEF Direction
    <2>2. CASE DOMAIN v # {}
      <3> DEFINE x == Summary(m, v)
      <3>1. x.over \in Nat /\ x.under \in Nat
        BY <1>1, <2>2, SummaryIsNatural
      <3>2. Direction(m, v, v)
              = DirectionBetween(x, x, m \in LowerIsBetter, m \in DecidedByPresence, Meaningful(m, v, v))
        BY <2>2 DEF Direction
      <3> HIDE DEF x
      <3>3. ~Below(x, x)
        <4>1. x.over * x.under \in Nat
          BY <3>1
        <4> QED BY <4>1 DEF Below
      <3> QED BY <3>2, <3>3 DEF DirectionBetween
    <2> QED BY <2>1, <2>2
  <1> QED BY <1>2, <1>3 DEF v, w

\* What the metrics of two sides did.
Moved(b, c) == {Direction(m, Samples(b, m), Samples(c, m)) : m \in Compared(b, c)}

\* Lemma: metrics that decide for one side decide against the other, and those that leave a
\* comparison open leave it as open the other way.  They find no change from a side to itself.
LEMMA MetricsAreOriented ==
  ASSUME NEW b, Runs(b), NEW c, Runs(c)
  PROVE  /\ VerdictFromMetrics(b, c) = "improved" => VerdictFromMetrics(c, b) = "regressed"
         /\ VerdictFromMetrics(b, c) \in {"unchanged", "undecided"} =>
              VerdictFromMetrics(c, b) = VerdictFromMetrics(b, c)
         /\ VerdictFromMetrics(b, b) \in {"unchanged", "undecided"}
  <1>1. /\ VerdictFromMetrics(b, c) = VerdictFromDirections(Moved(b, c),
             Direction("successRate", Samples(b, "successRate"), Samples(c, "successRate")) = "regressed")
        /\ VerdictFromMetrics(c, b) = VerdictFromDirections(Moved(c, b),
             Direction("successRate", Samples(c, "successRate"), Samples(b, "successRate")) = "regressed")
        /\ VerdictFromMetrics(b, b) = VerdictFromDirections(Moved(b, b),
             Direction("successRate", Samples(b, "successRate"), Samples(b, "successRate")) = "regressed")
    BY DEF VerdictFromMetrics, Moved
  <1>2. Compared(c, b) = Compared(b, c) /\ Compared(b, c) \subseteq Metrics /\ Compared(b, b) \subseteq Metrics
    BY DEF Compared
  <1>3. ASSUME NEW d
        PROVE  /\ d \in Moved(b, c) => Flip(d) \in Moved(c, b)
               /\ d \in Moved(c, b) => Flip(d) \in Moved(b, c)
    <2>1. \A m \in Compared(b, c) :
            /\ Direction(m, Samples(c, m), Samples(b, m)) = Flip(Direction(m, Samples(b, m), Samples(c, m)))
            /\ Direction(m, Samples(b, m), Samples(c, m)) = Flip(Direction(m, Samples(c, m), Samples(b, m)))
      BY <1>2, DirectionFlips
    <2> QED BY <1>2, <2>1 DEF Moved
  <1>4. /\ "improved" \in Moved(b, c) <=> "regressed" \in Moved(c, b)
        /\ "regressed" \in Moved(b, c) <=> "improved" \in Moved(c, b)
        /\ "unchanged" \in Moved(b, c) <=> "unchanged" \in Moved(c, b)
    BY <1>3 DEF Flip
  <1>5. \A d \in Moved(b, b) : d \in {"unchanged", "indeterminate"}
    BY <1>2, DirectionFlips DEF Moved
  <1>6. "improved" \notin Moved(b, b) /\ "regressed" \notin Moved(b, b)
    BY <1>5
  <1> QED BY <1>1, <1>4, <1>6 DEF VerdictFromDirections

----------------------------------------------------------------------------
(* Findings, from either side.                                             *)

\* Lemma: a claim is shared both ways, and every finding shares its own.
LEMMA SharedBothWays ==
  ASSUME NEW f \in Finding, NEW g \in Finding
  PROVE  (SameClaim(f, g) <=> SameClaim(g, f)) /\ SameClaim(f, f)
  BY DEF SameClaim, Finding

\* Lemma: the findings of a list, and where they are.
LEMMA ListedFindings ==
  ASSUME NEW fs, OfOneScan(fs)
  PROVE  /\ Range(fs) \subseteq Finding
         /\ DOMAIN fs \in SUBSET Nat
         /\ \A f, h \in Range(fs) : f.semantic = h.semantic /\ (SameClaim(f, h) => f = h)
  <1>1. fs \in Seq(Finding) /\ DOMAIN fs = 1 .. Len(fs) /\ Len(fs) \in Nat
    BY DEF OfOneScan
  <1>2. Range(fs) \subseteq Finding
    BY <1>1 DEF Range
  <1>3. ASSUME NEW f \in Range(fs), NEW h \in Range(fs)
        PROVE  f.semantic = h.semantic /\ (SameClaim(f, h) => f = h)
    <2>1. PICK i \in DOMAIN fs, j \in DOMAIN fs : f = fs[i] /\ h = fs[j]
      BY DEF Range
    <2> QED BY <2>1 DEF OfOneScan
  <1> QED BY <1>1, <1>2, <1>3

\* Lemma: a pair is of two findings that share a claim, and every finding that is not alone is
\* in one; it is the one where no other finding of the first list shares its claim.
LEMMA PairsShareClaims ==
  ASSUME NEW fs, OfOneScan(fs), NEW gs, OfOneScan(gs)
  PROVE  /\ \A p \in Pairs(fs, gs) :
              p = <<p[1], p[2]>> /\ p[1] \in Range(fs) /\ p[2] \in Range(gs) /\ SameClaim(p[1], p[2])
         /\ \A f \in Range(fs), g \in Range(gs) :
              SameClaim(f, g) /\ (\A h \in Range(fs) : SameClaim(h, g) => h = f) =>
                <<f, g>> \in Pairs(fs, gs)
  <1> DEFINE claimed(g) == {i \in DOMAIN fs : SameClaim(fs[i], g)}
             first(g) == fs[Min(claimed(g))]
  <1>1. Range(fs) \subseteq Finding /\ Range(gs) \subseteq Finding /\ DOMAIN fs \in SUBSET Nat
    BY ListedFindings
  <1>2. ASSUME NEW g \in Range(gs), NEW f \in Range(fs), SameClaim(f, g)
        PROVE  first(g) \in Range(fs) /\ SameClaim(first(g), g)
    <2>1. PICK i \in DOMAIN fs : f = fs[i]
      BY DEF Range
    <2>2. claimed(g) \in SUBSET Nat /\ claimed(g) # {}
      BY <1>1, <1>2, <2>1
    <2>3. Min(claimed(g)) \in claimed(g)
      <3> HIDE DEF claimed
      <3> QED BY <2>2, MinIsLeast
    <2> QED BY <2>3 DEF Range
  <1>3. \A g \in Range(gs) : g \notin Alone(gs, fs) <=> \E f \in Range(fs) : SameClaim(f, g)
    BY <1>1, SharedBothWays DEF Alone
  <1>4. Pairs(fs, gs) = {<<first(g), g>> : g \in Range(gs) \ Alone(gs, fs)}
    BY DEF Pairs
  <1> HIDE DEF first
  <1>5. ASSUME NEW p \in Pairs(fs, gs)
        PROVE  p = <<p[1], p[2]>> /\ p[1] \in Range(fs) /\ p[2] \in Range(gs) /\ SameClaim(p[1], p[2])
    <2>1. PICK g \in Range(gs) \ Alone(gs, fs) : p = <<first(g), g>>
      BY <1>4
    <2>2. PICK f \in Range(fs) : SameClaim(f, g)
      BY <1>3
    <2> QED BY <2>1, <2>2, <1>2
  <1>6. ASSUME NEW f \in Range(fs), NEW g \in Range(gs), SameClaim(f, g),
               \A h \in Range(fs) : SameClaim(h, g) => h = f
        PROVE  <<f, g>> \in Pairs(fs, gs)
    <2>1. first(g) = f
      BY <1>2, <1>6
    <2>2. g \in Range(gs) \ Alone(gs, fs)
      BY <1>3, <1>6
    <2> QED BY <1>4, <2>1, <2>2
  <1> QED BY <1>5, <1>6

\* Lemma: what grew or worsened one way shrank or became milder the other.  A risk that only
\* became milder is no change one way and a regression the other.
LEMMA ScaleIsOriented ==
  ASSUME NEW f \in Finding, NEW g \in Finding, f.strength = g.strength, ~TradesOff(f, g)
  PROVE  /\ ScaleDirection(f, g) = "improved" => ScaleDirection(g, f) = "regressed"
         /\ ScaleDirection(f, f) = "unchanged"
         /\ ScaleDirection(f, g) \in {"improved", "regressed", "unchanged"}
  <1>1. /\ f.scale \in Nat /\ g.scale \in Nat /\ f.severity \in Nat /\ g.severity \in Nat
        /\ f.strength \in BOOLEAN
    BY DEF Finding
  <1> QED BY <1>1 DEF ScaleDirection, TradesOff

\* Lemma: the moves of a list against another that are the opposite the other way round: that
\* a finding came or went, and that a claim of both improved, where one finding of each has it.
LEMMA MovesReverse ==
  ASSUME NEW fs, OfOneScan(fs), NEW gs, OfOneScan(gs),
         \A f \in Range(fs), g \in Range(gs) : SameClaim(f, g) => ~TradesOff(f, g),
         \A f \in Range(fs), g, h \in Range(gs) : SameClaim(f, g) /\ SameClaim(f, h) => g = h
  PROVE  "improved" \in Moves(fs, gs) => "regressed" \in Moves(gs, fs)
  <1>1. Range(fs) \subseteq Finding /\ Range(gs) \subseteq Finding
    BY ListedFindings
  <1>2. ASSUME "improved" \in Moves(fs, gs), "regressed" \notin Moves(gs, fs) PROVE FALSE
    <2>1. CASE \E f \in Alone(fs, gs) : PresenceDirection(f, "resolved") = "improved"
      <3>1. PICK f \in Alone(fs, gs) : PresenceDirection(f, "resolved") = "improved"
        BY <2>1
      <3>2. f.strength \in BOOLEAN
        BY <1>1 DEF Alone, Finding
      <3>3. PresenceDirection(f, "introduced") = "regressed"
        BY <3>1, <3>2 DEF PresenceDirection, Better
      <3> QED BY <1>2, <3>3 DEF Moves
    <2>2. CASE \E g \in Alone(gs, fs) : PresenceDirection(g, "introduced") = "improved"
      <3>1. PICK g \in Alone(gs, fs) : PresenceDirection(g, "introduced") = "improved"
        BY <2>2
      <3>2. g.strength \in BOOLEAN
        BY <1>1 DEF Alone, Finding
      <3>3. PresenceDirection(g, "resolved") = "regressed"
        BY <3>1, <3>2 DEF PresenceDirection, Better
      <3> QED BY <1>2, <3>3 DEF Moves
    <2>3. CASE \E p \in Pairs(fs, gs) : ScaleDirection(p[1], p[2]) = "improved"
      <3>1. PICK p \in Pairs(fs, gs) : ScaleDirection(p[1], p[2]) = "improved"
        BY <2>3
      <3> DEFINE f == p[1]
                 g == p[2]
      <3>2. f \in Range(fs) /\ g \in Range(gs) /\ SameClaim(f, g)
        BY PairsShareClaims
      <3> HIDE DEF f, g
      <3>3. f \in Finding /\ g \in Finding /\ f.strength = g.strength /\ ~TradesOff(f, g)
        BY <1>1, <3>2 DEF SameClaim
      <3>4. ScaleDirection(g, f) = "regressed"
        BY <3>1, <3>3, ScaleIsOriented DEF f, g
      <3>5. <<g, f>> \in Pairs(gs, fs)
        <4>1. \A h \in Range(gs) : SameClaim(h, f) => h = g
          BY <1>1, <3>2, SharedBothWays
        <4>2. SameClaim(g, f)
          BY <3>2, <3>3, SharedBothWays
        <4> QED BY <3>2, <4>1, <4>2, PairsShareClaims
      <3>6. <<g, f>>[1] = g /\ <<g, f>>[2] = f
        OBVIOUS
      <3> QED BY <1>2, <3>4, <3>5, <3>6 DEF Moves
    <2> QED BY <1>2, <2>1, <2>2, <2>3 DEF Moves
  <1> QED BY <1>2

\* Lemma: one finding for a claim in one list is one finding for each claim of the other list,
\* where both lists have keys or this one has none.
LEMMA OneForEachClaim ==
  ASSUME NEW fs, OfOneScan(fs), NEW gs, OfOneScan(gs),
         \A f \in Range(fs), g \in Range(gs) : g.semantic => f.semantic
  PROVE  \A f \in Range(fs), g, h \in Range(gs) : SameClaim(f, g) /\ SameClaim(f, h) => g = h
  <1> SUFFICES ASSUME NEW f \in Range(fs), NEW g \in Range(gs), NEW h \in Range(gs),
                      SameClaim(f, g), SameClaim(f, h)
               PROVE  g = h
    OBVIOUS
  <1>1. f \in Finding /\ g \in Finding /\ h \in Finding
    BY ListedFindings
  <1>2. g.semantic = h.semantic /\ (SameClaim(g, h) => g = h)
    BY ListedFindings
  <1>3. SameClaim(g, h)
    BY <1>1, <1>2 DEF SameClaim, Finding
  <1> QED BY <1>2, <1>3

\* Lemma: findings that improve on others are not improved on by them, and where all of them
\* have keys, the others are a regression.  No list is better or worse than itself.
LEMMA FindingsAreOriented ==
  ASSUME NEW fs, OfOneScan(fs), NEW gs, OfOneScan(gs),
         \A f \in Range(fs), g \in Range(gs) : ~TradesOff(f, g),
         VerdictFromFindings(fs, gs) = "improved"
  PROVE  /\ VerdictFromFindings(gs, fs) # "improved"
         /\ (\A f \in Range(fs), g \in Range(gs) : f.semantic /\ g.semantic) =>
              VerdictFromFindings(gs, fs) = "regressed"
  <1>1. "improved" \in Moves(fs, gs) /\ "regressed" \notin Moves(fs, gs)
    BY DEF VerdictFromFindings
  <1>2. \A g \in Range(gs), f \in Range(fs) : SameClaim(g, f) => ~TradesOff(g, f)
    <2> SUFFICES ASSUME NEW f \in Range(fs), NEW g \in Range(gs), SameClaim(g, f), TradesOff(g, f)
                 PROVE  FALSE
      OBVIOUS
    <2>1. f \in Finding /\ g \in Finding /\ ~TradesOff(f, g)
      BY ListedFindings
    <2> QED BY <2>1 DEF TradesOff, SameClaim, Finding
  <1>3. ASSUME \A f \in Range(fs), g \in Range(gs) : g.semantic => f.semantic
        PROVE  "regressed" \in Moves(gs, fs)
    BY <1>1, <1>3, OneForEachClaim, MovesReverse
  <1>4. ASSUME \A f \in Range(fs), g \in Range(gs) : f.semantic => g.semantic
        PROVE  "improved" \notin Moves(gs, fs)
    <2>1. \A g \in Range(gs), f, h \in Range(fs) : SameClaim(g, f) /\ SameClaim(g, h) => f = h
      BY <1>4, OneForEachClaim
    <2> QED BY <1>1, <1>2, <2>1, MovesReverse
  <1>5. \/ \A f \in Range(fs), g \in Range(gs) : g.semantic => f.semantic
        \/ \A f \in Range(fs), g \in Range(gs) : f.semantic => g.semantic
    <2>1. \A f, h \in Range(fs) : f.semantic = h.semantic
      BY ListedFindings
    <2>2. \A f, h \in Range(gs) : f.semantic = h.semantic
      BY ListedFindings
    <2>3. \A f \in Range(fs) \cup Range(gs) : f.semantic \in BOOLEAN
      BY ListedFindings DEF Finding
    <2> QED BY <2>1, <2>2, <2>3
  <1>6. VerdictFromFindings(gs, fs) # "improved"
    BY <1>3, <1>4, <1>5 DEF VerdictFromFindings
  <1>7. ASSUME \A f \in Range(fs), g \in Range(gs) : f.semantic /\ g.semantic
        PROVE  VerdictFromFindings(gs, fs) = "regressed"
    <2>1. "regressed" \in Moves(gs, fs) /\ "improved" \notin Moves(gs, fs)
      BY <1>3, <1>4, <1>7
    <2> QED BY <2>1 DEF VerdictFromFindings
  <1> QED BY <1>6, <1>7

\* Lemma: and no list of findings is better or worse than itself.
LEMMA FindingsOfOneSide ==
  ASSUME NEW fs, OfOneScan(fs)
  PROVE  VerdictFromFindings(fs, fs) = "unchanged"
  <1>1. Alone(fs, fs) = {}
    BY ListedFindings, SharedBothWays DEF Alone
  <1>2. ASSUME NEW p \in Pairs(fs, fs) PROVE ScaleDirection(p[1], p[2]) = "unchanged"
    <2>1. p[1] \in Range(fs) /\ p[2] \in Range(fs) /\ SameClaim(p[1], p[2])
      BY PairsShareClaims
    <2>2. p[1] = p[2] /\ p[1] \in Finding
      BY <2>1, ListedFindings
    <2>3. ~TradesOff(p[1], p[1])
      BY <2>2 DEF TradesOff, Finding
    <2> QED BY <2>2, <2>3, ScaleIsOriented
  <1>3. \A d \in Moves(fs, fs) : d = "unchanged"
    BY <1>1, <1>2 DEF Moves
  <1> QED BY <1>3 DEF VerdictFromFindings

----------------------------------------------------------------------------
(* The theorem about verdicts.                                             *)

OneSide == [runs : Seq(DOMAIN RunKinds), scan : Scans]

SidesOK == sides \in [Sides -> OneSide]

\* The sides are two lists of runs with the findings each side began with.
THEOREM SidesTyped == SidesSpec => []SidesOK
  <1>1. SidesInit => SidesOK
    <2> SUFFICES ASSUME NEW f \in [Sides -> Scans], sides = [s \in Sides |-> [runs |-> <<>>, scan |-> f[s]]]
                 PROVE  SidesOK
      BY DEF SidesInit
    <2>1. <<>> \in Seq(DOMAIN RunKinds)
      OBVIOUS
    <2> QED BY <2>1 DEF SidesOK, OneSide
  <1>2. SidesOK /\ [SidesNext]_sides => SidesOK'
    <2>1. ASSUME SidesOK, NEW s \in Sides, AddRun(s) PROVE SidesOK'
      <3>1. PICK k \in DOMAIN RunKinds : sides' = [sides EXCEPT ![s].runs = Append(@, k)]
        BY <2>1 DEF AddRun
      <3>2. sides[s] \in OneSide
        BY <2>1 DEF SidesOK
      <3>3. Append(sides[s].runs, k) \in Seq(DOMAIN RunKinds)
        BY <3>2 DEF OneSide
      <3>4. [sides[s] EXCEPT !.runs = Append(sides[s].runs, k)] \in OneSide
        BY <3>2, <3>3 DEF OneSide
      <3>5. sides' = [sides EXCEPT ![s] = [sides[s] EXCEPT !.runs = Append(sides[s].runs, k)]]
        BY <3>1
      <3> QED BY <2>1, <3>4, <3>5 DEF SidesOK
    <2>2. ASSUME SidesOK, UNCHANGED sides PROVE SidesOK'
      BY <2>2 DEF SidesOK
    <2> QED BY <2>1, <2>2 DEF SidesNext
  <1> QED BY <1>1, <1>2, PTL DEF SidesSpec

\* A verdict has a sense: nothing is better or worse than itself, and an improvement one way is
\* a regression the other, for any runs, whether metrics or findings decided (decideVerdict).
THEOREM VerdictsAreOriented == SidesSpec => []VerdictIsOriented
  <1>1. ASSUME SidesOK PROVE VerdictIsOriented
    <2> DEFINE b == sides["baseline"]
               c == sides["candidate"]
    <2>1. b \in OneSide /\ c \in OneSide
      BY <1>1 DEF SidesOK, Sides
    <2>2. ASSUME NEW s \in OneSide PROVE Verdict(s, s) \in {"unchanged", "insufficient_evidence"}
      <3>1. VerdictFromMetrics(s, s) \in {"unchanged", "undecided"}
        BY MetricsAreOriented DEF OneSide, Runs
      <3>2. s.scan # <<>> => VerdictFromFindings(s.scan[1], s.scan[1]) = "unchanged"
        BY ScanAssumption, FindingsOfOneSide DEF OneSide
      <3> QED BY <3>1, <3>2 DEF Verdict, VerdictAfter
    <2>3. ASSUME Verdict(b, c) = "improved", Compares(LAMBDA f, g : ~TradesOff(f, g))
          PROVE  /\ Verdict(c, b) # "improved"
                 /\ Compares(LAMBDA f, g : f.semantic /\ g.semantic) => Verdict(c, b) = "regressed"
      <3>1. Runs(b) /\ Runs(c)
        BY <2>1 DEF OneSide, Runs
      <3> DEFINE there == VerdictFromMetrics(b, c)
                 back == VerdictFromMetrics(c, b)
      <3>2. /\ there = "improved" => back = "regressed"
            /\ there \in {"unchanged", "undecided"} => back = there
        <4> HIDE DEF b, c
        <4> QED BY <3>1, MetricsAreOriented
      <3>3. VerdictAfter(there, b, c) = "improved"
        BY <2>3 DEF Verdict
      <3>4. Verdict(c, b) = VerdictAfter(back, c, b)
        BY DEF Verdict
      <3>5. there \in {"improved", "regressed", "mixed", "unchanged", "undecided"}
        BY DEF VerdictFromMetrics, VerdictFromDirections
      <3>6. CASE there = "improved"
        BY <3>2, <3>4, <3>6 DEF VerdictAfter
      <3>7. CASE there \in {"unchanged", "undecided"}
        <4> DEFINE fs == b.scan[1]
                   gs == c.scan[1]
        <4>1. b.scan # <<>> /\ c.scan # <<>> /\ VerdictFromFindings(fs, gs) = "improved"
          BY <3>3, <3>7 DEF VerdictAfter
        <4>2. OfOneScan(fs) /\ OfOneScan(gs)
          BY <2>1, <4>1, ScanAssumption DEF OneSide
        <4>3. \A f \in Range(fs), g \in Range(gs) : ~TradesOff(f, g)
          BY <2>3, <4>1 DEF Compares
        <4>4. Compares(LAMBDA f, g : f.semantic /\ g.semantic) =>
                \A f \in Range(fs), g \in Range(gs) : f.semantic /\ g.semantic
          BY <4>1 DEF Compares
        <4>5. Verdict(c, b) = VerdictFromFindings(gs, fs)
          BY <3>2, <3>4, <3>7, <4>1 DEF VerdictAfter
        <4> HIDE DEF fs, gs, b, c
        <4> QED BY <4>1, <4>2, <4>3, <4>4, <4>5, FindingsAreOriented
      <3>8. CASE there \in {"regressed", "mixed"}
        BY <3>3, <3>8 DEF VerdictAfter
      <3> QED BY <3>5, <3>6, <3>7, <3>8
    <2> QED BY <2>1, <2>2, <2>3 DEF VerdictIsOriented
  <1>2. SidesOK => VerdictIsOriented
    BY <1>1
  <1> QED BY <1>2, SidesTyped, PTL

----------------------------------------------------------------------------
(* The order of scenarios.                                                 *)

Faults == {"none"} \cup {Declared[s] : s \in Scenario} \cup {SingleFault[s] : s \in Scenario}

Recorded ==
  [scenario : Scenario \cup {Unscripted}, faults : Faults, runs : Seq(DOMAIN RunKinds) \ {<<>>}]

StoreOK == results \in Seq(Recorded) /\ attributed \in 0 .. Len(results)

\* Lemma: the positions of results and of their runs.
LEMMA StoredResults ==
  ASSUME StoreOK
  PROVE  /\ Len(results) \in Nat /\ DOMAIN results = 1 .. Len(results) /\ attributed \in Nat
         /\ \A i \in 1 .. Len(results) :
              /\ results[i] \in Recorded
              /\ Len(results[i].runs) \in Nat \ {0} /\ DOMAIN results[i].runs = 1 .. Len(results[i].runs)
              /\ DOMAIN Kinds(i) = 1 .. Len(results[i].runs)
              /\ \A j \in 1 .. Len(results[i].runs) :
                   results[i].runs[j] \in DOMAIN RunKinds /\ Kinds(i)[j] = RunKinds[results[i].runs[j]]
  <1>1. Len(results) \in Nat /\ DOMAIN results = 1 .. Len(results) /\ attributed \in Nat
    BY DEF StoreOK
  <1>2. ASSUME NEW i \in 1 .. Len(results)
        PROVE  /\ results[i] \in Recorded
               /\ Len(results[i].runs) \in Nat \ {0} /\ DOMAIN results[i].runs = 1 .. Len(results[i].runs)
               /\ DOMAIN Kinds(i) = 1 .. Len(results[i].runs)
               /\ \A j \in 1 .. Len(results[i].runs) :
                    results[i].runs[j] \in DOMAIN RunKinds /\ Kinds(i)[j] = RunKinds[results[i].runs[j]]
    <2>1. results[i] \in Recorded
      BY DEF StoreOK
    <2> DEFINE runs == results[i].runs
    <2>2. runs \in Seq(DOMAIN RunKinds) /\ runs # <<>>
      BY <2>1 DEF Recorded
    <2> HIDE DEF runs
    <2>3. Len(runs) \in Nat \ {0} /\ DOMAIN runs = 1 .. Len(runs)
          /\ \A j \in 1 .. Len(runs) : runs[j] \in DOMAIN RunKinds
      BY <2>2, EmptySeq
    <2>4. Kinds(i) = [j \in DOMAIN runs |-> RunKinds[runs[j]]]
      BY DEF Kinds, runs
    <2>5. DOMAIN Kinds(i) = 1 .. Len(runs) /\ \A j \in 1 .. Len(runs) : Kinds(i)[j] = RunKinds[runs[j]]
      BY <2>3, <2>4
    <2> QED BY <2>1, <2>3, <2>5 DEF runs
  <1> QED BY <1>1, <1>2

\* Lemma: how much of the finding a result covered is a natural number.
LEMMA CoverageIsNatural ==
  ASSUME StoreOK, NEW i \in 1 .. Len(results)
  PROVE  Coverage(i) \in Nat
  <1> DEFINE n == Len(results[i].runs)
             D == {k \in DOMAIN Kinds(i) : Kinds(i)[k].completed}
             covers == [j \in D |-> Kinds(i)[j].covers]
             V == {covers[j] : j \in D}
  <1>1. D \in SUBSET (1 .. n) /\ n \in Nat
    BY StoredResults
  <1>2. IsFiniteSet(D)
    <2> HIDE DEF D, n
    <2>1. IsFiniteSet(1 .. n)
      BY <1>1, FS_Interval
    <2> QED BY <1>1, <2>1, FS_Subset
  <1>3. \A j \in D : Kinds(i)[j].covers \in Nat
    BY <1>1, StoredResults, PlanAssumption
  <1>4. V = {Kinds(i)[j].covers : j \in D} /\ DOMAIN covers = D
    OBVIOUS
  <1>5. IsFiniteSet(V)
    <2> HIDE DEF D, covers
    <2> QED BY <1>2, <1>4, FinitelyManyValues
  <1>6. V \in SUBSET Nat
    BY <1>3, <1>4
  <1>7. Coverage(i) = Max({0} \cup V)
    BY <1>4 DEF Coverage
  <1> HIDE DEF V, D, covers, n
  <1>8. Max({0} \cup V) \in Nat
    BY <1>5, <1>6, LargestOrZero
  <1> QED BY <1>7, <1>8

\* Lemma: scenarios that exercised the components are finitely many and totally ordered: no
\* two of them have the same newest result.
LEMMA BeforeIsTotal ==
  ASSUME StoreOK
  PROVE  /\ IsFiniteSet(Exercised)
         /\ \A s, t \in Exercised : s # t => Before(s, t) \/ Before(t, s)
         /\ \A s \in Exercised : ~Before(s, s)
         /\ \A s, t, u \in Exercised : Before(s, t) /\ Before(t, u) => Before(s, u)
  <1>1. attributed \in Nat /\ 1 .. attributed \subseteq 1 .. Len(results)
    BY StoredResults DEF StoreOK
  <1>2. IsFiniteSet(Exercised)
    <2> DEFINE of == [i \in 1 .. attributed |-> results[i].scenario]
               all == {of[i] : i \in 1 .. attributed}
    <2>1. IsFiniteSet(1 .. attributed) /\ DOMAIN of = 1 .. attributed
      BY <1>1, FS_Interval
    <2>2. Exercised \in SUBSET all
      BY DEF Exercised, Exercising
    <2> HIDE DEF of
    <2>3. IsFiniteSet(all)
      BY <2>1, FinitelyManyValues
    <2> HIDE DEF all
    <2> QED BY <2>2, <2>3, FS_Subset
  <1>3. ASSUME NEW s \in Exercised
        PROVE  Rank(s) \in Nat /\ Max(Exercising(s)) \in Nat /\ results[Max(Exercising(s))].scenario = s
    <2>1. Exercising(s) \in SUBSET (1 .. attributed) /\ Exercising(s) # {}
      BY DEF Exercised, Exercising
    <2>2. Max(Exercising(s)) \in Exercising(s)
      BY <1>1, <2>1, MaxIsLargest
    <2>3. Rank(s) \in Nat
      <3> DEFINE D == Exercising(s)
                 cover == [i \in D |-> Coverage(i)]
                 V == {cover[i] : i \in D}
      <3>1. IsFiniteSet(D)
        <4>1. IsFiniteSet(1 .. attributed)
          BY <1>1, FS_Interval
        <4> QED BY <2>1, <4>1, FS_Subset
      <3>2. V = {Coverage(i) : i \in D} /\ DOMAIN cover = D
        OBVIOUS
      <3>3. V \in SUBSET Nat
        BY <1>1, <2>1, <3>2, CoverageIsNatural
      <3>4. IsFiniteSet(V)
        <4> HIDE DEF D, cover
        <4> QED BY <3>1, <3>2, FinitelyManyValues
      <3>5. Rank(s) = Max({0} \cup V)
        BY <3>2 DEF Rank
      <3> HIDE DEF V, D, cover
      <3>6. Max({0} \cup V) \in Nat
        BY <3>3, <3>4, LargestOrZero
      <3> QED BY <3>5, <3>6
    <2> QED BY <1>1, <2>1, <2>2, <2>3 DEF Exercising
  <1>4. ASSUME NEW s \in Exercised, NEW t \in Exercised, s # t PROVE Before(s, t) \/ Before(t, s)
    <2>1. Max(Exercising(s)) # Max(Exercising(t))
      BY <1>3, <1>4
    <2> QED BY <1>3, <2>1 DEF Before
  <1>5. ASSUME NEW s \in Exercised PROVE ~Before(s, s)
    BY <1>3 DEF Before
  <1>6. ASSUME NEW s \in Exercised, NEW t \in Exercised, NEW u \in Exercised, Before(s, t), Before(t, u)
        PROVE  Before(s, u)
    <2>1. /\ Rank(s) \in Nat /\ Rank(t) \in Nat /\ Rank(u) \in Nat
          /\ Max(Exercising(s)) \in Nat /\ Max(Exercising(t)) \in Nat /\ Max(Exercising(u)) \in Nat
      BY <1>3
    <2> QED BY <1>6, <2>1 DEF Before
  <1> QED BY <1>2, <1>4, <1>5, <1>6

\* Lemma: every place in the order has its scenario: as many come before each of them as there
\* are places before its own, so the places are taken one by one.
LEMMA InOrderIsAListing ==
  ASSUME StoreOK, NEW S \in SUBSET Exercised, NEW limit \in Nat
  PROVE  /\ InOrder(S, limit) \in Seq(S)
         /\ S # {} /\ limit > 0 => InOrder(S, limit)[1] \in S
  <1> DEFINE N == Cardinality(S)
             earlier(s) == {t \in S : Before(t, s)}
             place == [s \in S |-> Cardinality(earlier(s))]
             T == 0 .. N - 1
  <1>1. IsFiniteSet(S) /\ N \in Nat
    BY BeforeIsTotal, FS_Subset, FS_CardinalityType
  <1>2. ASSUME NEW s \in S PROVE IsFiniteSet(earlier(s)) /\ place[s] \in T
    <2>1. earlier(s) \in SUBSET S /\ s \notin earlier(s)
      BY BeforeIsTotal
    <2> DEFINE A == earlier(s)
    <2>2. A \in SUBSET S /\ A # S
      BY <2>1
    <2> HIDE DEF A
    <2>3. IsFiniteSet(A) /\ Cardinality(A) <= N /\ Cardinality(A) # N
      BY <1>1, <2>2, FS_Subset
    <2>4. Cardinality(A) \in Nat
      BY <2>3, FS_CardinalityType
    <2> QED BY <1>1, <2>3, <2>4 DEF A
  <1>3. ASSUME NEW s \in S, NEW t \in S, Before(s, t) PROVE place[s] < place[t]
    <2> DEFINE A == earlier(s)
               B == earlier(t)
    <2>1. A \in SUBSET B /\ s \in B /\ s \notin A
      BY <1>3, BeforeIsTotal
    <2>2. IsFiniteSet(A) /\ IsFiniteSet(B) /\ Cardinality(A) \in Nat /\ Cardinality(B) \in Nat
      BY <1>2, FS_CardinalityType
    <2>3. place[s] = Cardinality(A) /\ place[t] = Cardinality(B)
      OBVIOUS
    <2> HIDE DEF A, B
    <2>4. Cardinality(A) <= Cardinality(B) /\ (Cardinality(B) = Cardinality(A) => A = B)
      BY <2>1, <2>2, FS_Subset
    <2> HIDE DEF place
    <2> QED BY <2>1, <2>2, <2>3, <2>4
  <1>4. place \in [S -> T]
    BY <1>2
  <1>5. place \in Injection(S, T)
    <2>1. ASSUME NEW s \in S, NEW t \in S, place[s] = place[t] PROVE s = t
      <3>1. place[s] \in Int /\ place[t] \in Int
        BY <1>4, <1>1
      <3> HIDE DEF place
      <3> QED BY <1>3, <2>1, <3>1, BeforeIsTotal
    <2> HIDE DEF place
    <2> QED BY <1>4, <2>1 DEF Injection, IsInjective
  <1>6. IsFiniteSet(T) /\ Cardinality(T) = N
    <2>1. IsFiniteSet(0 .. N - 1) /\ Cardinality(0 .. N - 1) = IF 0 > N - 1 THEN 0 ELSE N - 1 - 0 + 1
      <3> HIDE DEF N
      <3> QED BY <1>1, FS_Interval
    <2> HIDE DEF N
    <2> QED BY <1>1, <2>1
  <1>7. place \in Surjection(S, T)
    <2> HIDE DEF place, T
    <2> QED BY <1>5, <1>6, FS_Injection
  <1>8. ASSUME NEW n \in 1 .. N PROVE \E s \in S : Cardinality({t \in S : Before(t, s)}) = n - 1
    <2>1. n - 1 \in T
      BY <1>1
    <2>2. PICK s \in S : place[s] = n - 1
      <3> HIDE DEF place, T
      <3> QED BY <1>7, <2>1 DEF Surjection
    <2> QED BY <2>2
  <1> HIDE DEF place, T, N
  <1> DEFINE M == Min({limit, N})
             Q(n) == CHOOSE s \in S : Cardinality({t \in S : Before(t, s)}) = n - 1
  <1>9. M \in Nat /\ M <= N /\ (N > 0 /\ limit > 0 => M > 0)
    <2>1. {limit, N} \in SUBSET Nat /\ {limit, N} # {}
      BY <1>1
    <2>2. Min({limit, N}) \in {limit, N} /\ \A x \in {limit, N} : Min({limit, N}) <= x
      BY <2>1, MinIsLeast
    <2> QED BY <1>1, <2>2
  <1>10. InOrder(S, limit) = [n \in 1 .. M |-> Q(n)]
    BY DEF InOrder, N
  <1>11. ASSUME NEW n \in 1 .. M PROVE Q(n) \in S
    <2>1. n \in 1 .. N
      BY <1>1, <1>9
    <2> QED BY <1>8, <2>1
  <1> HIDE DEF M, Q
  <1>12. [n \in 1 .. M |-> Q(n)] \in Seq(S)
    BY <1>9, <1>11
  <1>13. S # {} => N > 0
    BY <1>1, FS_EmptySet DEF N
  <1> QED BY <1>9, <1>10, <1>11, <1>12, <1>13

----------------------------------------------------------------------------
(* The invariant a plan keeps.                                             *)

\* The rules a goal's record keeps from its creation on.
Goals ==
  [made : Nat, repetitions : Nat \ {0}, baseline : Nat, scenarios : Seq(Scenario),
   status : {"ready", "in_progress", "validated"}, metrics : SUBSET Metrics]

GoalOK ==
  /\ goal = <<>> \/ \E g \in Goals : goal = <<g>>
  /\ goal = <<>> => followed = 0
  /\ followed \in Int /\ followed >= -1
  /\ goal # <<>> => TheGoal.made <= Len(results) /\ TheGoal.baseline <= TheGoal.made

HasBaseline == goal # <<>> /\ TheGoal.baseline # 0
Reran == Len(TheGoal.scenarios)
ItsScenario == results[TheGoal.baseline].scenario

\* The results of a scenario that the store had before the goal and after its baseline.
Between(s) == {j \in TheGoal.baseline + 1 .. TheGoal.made : results[j].scenario = s}

\* The scenario of the baseline is the last one the plan reruns, and only once, the baseline is
\* among the newest results of it, and it and its rerun are long enough for every metric stated.
BaselineOK ==
  HasBaseline =>
    /\ ItsScenario \in Scenario /\ Reran > 0 /\ TheGoal.scenarios[Reran] = ItsScenario
    /\ \A k \in 1 .. Reran - 1 : TheGoal.scenarios[k] # ItsScenario
    /\ Cardinality(Between(ItsScenario)) < ResultsRead
    /\ \A m \in TheGoal.metrics :
         Contributing(TheGoal.baseline) >= Required(m) /\ TheGoal.repetitions >= Required(m)

\* How many scenarios have been rerun when so many commands were followed.
Rerun == IF followed <= 1 THEN 0 ELSE IF followed - 1 < Reran THEN followed - 1 ELSE Reran

Whole(i) ==
  [of |-> i, scenario |-> results[i].scenario, faults |-> results[i].faults, runs |-> results[i].runs]

\* What the commands followed have left: a result for each scenario, and then their comparison.
FollowedOK ==
  HasBaseline /\ followed # -1 =>
    /\ followed <= Reran + 3 /\ Len(results) = TheGoal.made + Rerun
    /\ \A k \in 1 .. Rerun :
         /\ results[TheGoal.made + k].scenario = TheGoal.scenarios[k]
         /\ results[TheGoal.made + k].faults = Declared[TheGoal.scenarios[k]]
         /\ Len(results[TheGoal.made + k].runs) = TheGoal.repetitions
    /\ followed >= Reran + 2 =>
         compared = <<[baseline |-> Whole(TheGoal.baseline), candidate |-> Whole(Len(results))]>>

PlanInv == StoreOK /\ GoalOK /\ BaselineOK /\ FollowedOK

----------------------------------------------------------------------------
(* Choosing a baseline, and recording results.                             *)

\* Lemma: a baseline is a result that has samples, and one of the newest of its scenario, which
\* is one of those that exercised the components.
LEMMA BaselineIsAmongTheNewest ==
  ASSUME StoreOK, Baseline # 0
  PROVE  /\ Baseline \in 1 .. Len(results)
         /\ results[Baseline].scenario \in Exercised
         /\ Baseline \in Newest(results[Baseline].scenario, ResultsRead)
  <1> DEFINE C(s) == {i \in Newest(s, ResultsRead) : Contributing(i) > 0}
             all == {ComparableResult(s) : s \in Exercised} \ {0}
             comparable == Preferred(all)
             S == {results[i].scenario : i \in comparable}
  <1>1. ASSUME NEW s
        PROVE  /\ ComparableResult(s) # 0 => ComparableResult(s) \in Newest(s, ResultsRead)
               /\ Newest(s, ResultsRead) \in SUBSET (1 .. Len(results))
               /\ \A i \in Newest(s, ResultsRead) : results[i].scenario = s
    <2>1. /\ Newest(s, ResultsRead) \in SUBSET (1 .. Len(results))
          /\ \A i \in Newest(s, ResultsRead) : results[i].scenario = s
      BY StoredResults DEF Newest, ResultsOf
    <2> DEFINE V == Preferred(C(s))
    <2>2. V \in SUBSET Newest(s, ResultsRead)
      BY DEF Preferred
    <2>3. Len(results) \in Nat
      BY StoredResults
    <2>4. ComparableResult(s) = Max({0} \cup V)
      BY DEF ComparableResult
    <2> HIDE DEF V
    <2>5. IsFiniteSet(V) /\ V \in SUBSET Nat
      <3>1. IsFiniteSet(1 .. Len(results))
        BY <2>3, FS_Interval
      <3>2. V \in SUBSET (1 .. Len(results))
        BY <2>1, <2>2
      <3>3. IsFiniteSet(V)
        BY <3>1, <3>2, FS_Subset
      <3> QED BY <3>2, <3>3
    <2>6. Max({0} \cup V) \in {0} \cup V
      BY <2>5, LargestOrZero
    <2> QED BY <2>1, <2>2, <2>4, <2>6
  <1>2. comparable \in SUBSET all
    <2> HIDE DEF all
    <2> QED BY DEF Preferred
  <1>3. ASSUME NEW i \in comparable
        PROVE  \E s \in Exercised : i = ComparableResult(s) /\ i # 0 /\ results[i].scenario = s
    <2>1. PICK s \in Exercised : i = ComparableResult(s) /\ i # 0
      BY <1>2
    <2> QED BY <1>1, <2>1
  <1> HIDE DEF C
  <1>4. Baseline = IF comparable = {} THEN 0 ELSE ComparableResult(InOrder(S, 1)[1])
    BY DEF Baseline
  <1> HIDE DEF all, comparable
  <1>5. S \in SUBSET Exercised /\ S # {}
    BY <1>3, <1>4
  <1>6. InOrder(S, 1)[1] \in S
    <2> HIDE DEF S
    <2>1. \A limit \in Nat : limit > 0 => InOrder(S, limit)[1] \in S
      BY <1>5, InOrderIsAListing
    <2> QED BY <2>1
  <1>7. PICK i \in comparable : results[i].scenario = InOrder(S, 1)[1]
    BY <1>6
  <1>8. PICK s \in Exercised : i = ComparableResult(s) /\ i # 0 /\ results[i].scenario = s
    BY <1>3
  <1>9. Baseline = i
    BY <1>4, <1>5, <1>7, <1>8
  <1> QED BY <1>1, <1>8, <1>9

\* Lemma: the plan reruns scenarios of the repository, that of the baseline once and last.
LEMMA TheComparedOneLast ==
  ASSUME StoreOK
  PROVE  LET order == ScenariosFor(Baseline)
         IN  /\ order \in Seq(Scenario)
             /\ Baseline # 0 =>
                  /\ Len(order) > 0 /\ order[Len(order)] = results[Baseline].scenario
                  /\ \A k \in 1 .. Len(order) - 1 : order[k] # results[Baseline].scenario
  <1> DEFINE s == results[Baseline].scenario
             others == InOrder(Exercised \ {s}, MaxScenarios - 1)
  <1>1. Exercised \in SUBSET Scenario
    BY DEF Exercised
  <1>2. CASE Baseline = 0
    <2>1. MaxScenarios \in Nat
      BY PlanAssumption
    <2>2. InOrder(Exercised, MaxScenarios) \in Seq(Exercised)
      BY <2>1, InOrderIsAListing
    <2>3. ScenariosFor(Baseline) = InOrder(Exercised, MaxScenarios)
      BY <1>2 DEF ScenariosFor
    <2> HIDE DEF s, others
    <2> QED BY <1>1, <1>2, <2>2, <2>3
  <1>3. CASE Baseline # 0
    <2>1. s \in Exercised
      BY <1>3, BaselineIsAmongTheNewest
    <2>2. MaxScenarios - 1 \in Nat
      BY PlanAssumption
    <2>3. others \in Seq(Exercised \ {s})
      <3> HIDE DEF s
      <3> QED BY <2>2, InOrderIsAListing
    <2>4. ScenariosFor(Baseline) = Append(others, s)
      BY <1>3 DEF ScenariosFor
    <2> HIDE DEF s, others
    <2>5. others \in Seq(Scenario) /\ \A k \in 1 .. Len(others) : others[k] # s
      BY <1>1, <2>3
    <2>6. s \in Scenario
      BY <1>1, <2>1
    <2>7. /\ Append(others, s) \in Seq(Scenario) /\ Len(Append(others, s)) = Len(others) + 1
          /\ \A k \in 1 .. Len(others) : Append(others, s)[k] = others[k]
          /\ Append(others, s)[Len(others) + 1] = s
      BY <2>5, <2>6, AppendProperties
    <2>8. Len(others) \in Nat
      BY <2>5
    <2> QED BY <2>4, <2>5, <2>7, <2>8 DEF s
  <1> QED BY <1>2, <1>3

\* Lemma: recording adds results after those there are.
LEMMA RecordAdds ==
  ASSUME StoreOK, NEW new \in Seq(Recorded), Record(new)
  PROVE  /\ StoreOK' /\ Len(results') = Len(results) + Len(new)
         /\ \A i \in 1 .. Len(results) : results'[i] = results[i]
         /\ \A k \in 1 .. Len(new) : results'[Len(results) + k] = new[k]
  <1>1. results \in Seq(Recorded) /\ results' = results \o new /\ attributed' = attributed
    BY DEF Record, StoreOK
  <1>2. /\ results' \in Seq(Recorded) /\ Len(results') = Len(results) + Len(new)
        /\ \A i \in 1 .. Len(results) + Len(new) :
             results'[i] = IF i <= Len(results) THEN results[i] ELSE new[i - Len(results)]
    BY <1>1, ConcatProperties
  <1>3. Len(results) \in Nat /\ Len(new) \in Nat
    BY <1>1
  <1>4. \A k \in 1 .. Len(new) : Len(results) + k \in 1 .. Len(results) + Len(new)
                                 /\ ~(Len(results) + k <= Len(results)) /\ Len(results) + k - Len(results) = k
    BY <1>3
  <1>5. StoreOK'
    BY <1>1, <1>2, <1>3 DEF StoreOK
  <1>6. \A i \in 1 .. Len(results) : i \in 1 .. Len(results) + Len(new) /\ i <= Len(results)
    BY <1>3
  <1>7. \A k \in 1 .. Len(new) : results'[Len(results) + k] = new[Len(results) + k - Len(results)]
    BY <1>2, <1>4
  <1> QED BY <1>2, <1>4, <1>5, <1>6, <1>7

----------------------------------------------------------------------------
(* Following the plan.                                                     *)

\* Lemma: the commands of a plan by their places: an audit, a test for each scenario, the
\* comparison, and the validation.
LEMMA PlanCommands ==
  ASSUME NEW g \in Goals
  PROVE  LET n == Len(g.scenarios)
         IN  /\ n \in Nat /\ Len(Plan(g)) = n + 3
             /\ \A k \in 1 .. n + 3 :
                  \/ k = 1 /\ Plan(g)[k] = <<"audit">>
                  \/ k \in 2 .. n + 1 /\ Plan(g)[k] = <<"test", g.scenarios[k - 1]>>
                  \/ k = n + 2 /\ Plan(g)[k] = <<"compare">>
                  \/ k = n + 3 /\ Plan(g)[k] = <<"validate">>
  <1> DEFINE n == Len(g.scenarios)
             first == <<<<"audit">>>>
             tests == [k \in DOMAIN g.scenarios |-> <<"test", g.scenarios[k]>>]
             last == <<<<"compare">>, <<"validate">>>>
             Commands == {<<"audit">>, <<"compare">>, <<"validate">>} \cup {<<"test", s>> : s \in Scenario}
  <1>1. n \in Nat /\ DOMAIN g.scenarios = 1 .. n /\ \A k \in 1 .. n : g.scenarios[k] \in Scenario
    BY DEF Goals
  <1>2. first \in Seq(Commands) /\ Len(first) = 1 /\ first[1] = <<"audit">>
    OBVIOUS
  <1>3. tests \in Seq(Commands) /\ Len(tests) = n /\ \A k \in 1 .. n : tests[k] = <<"test", g.scenarios[k]>>
    <2> HIDE DEF n
    <2> QED BY <1>1
  <1>4. last \in Seq(Commands) /\ Len(last) = 2 /\ last[1] = <<"compare">> /\ last[2] = <<"validate">>
    OBVIOUS
  <1>5. Plan(g) = first \o tests \o last
    BY DEF Plan
  <1> HIDE DEF first, tests, last, Commands, n
  <1>6. /\ first \o tests \in Seq(Commands) /\ Len(first \o tests) = 1 + n
        /\ \A k \in 1 .. 1 + n : (first \o tests)[k] = IF k <= 1 THEN first[k] ELSE tests[k - 1]
    <2>1. /\ first \o tests \in Seq(Commands) /\ Len(first \o tests) = Len(first) + Len(tests)
          /\ \A k \in 1 .. Len(first) + Len(tests) :
               (first \o tests)[k] = IF k <= Len(first) THEN first[k] ELSE tests[k - Len(first)]
      BY <1>2, <1>3, ConcatProperties
    <2> QED BY <1>2, <1>3, <2>1
  <1> DEFINE start == first \o tests
  <1>7. /\ Plan(g) = start \o last /\ start \in Seq(Commands) /\ Len(start) = n + 1
        /\ start[1] = <<"audit">> /\ \A k \in 2 .. n + 1 : start[k] = <<"test", g.scenarios[k - 1]>>
    <2>1. Plan(g) = start \o last /\ start \in Seq(Commands) /\ Len(start) = n + 1
      BY <1>1, <1>5, <1>6
    <2>2. 1 \in 1 .. 1 + n /\ start[1] = first[1]
      BY <1>1, <1>6
    <2>3. ASSUME NEW k \in 2 .. n + 1 PROVE start[k] = <<"test", g.scenarios[k - 1]>>
      <3>1. k \in 1 .. 1 + n /\ ~(k <= 1) /\ k - 1 \in 1 .. n
        BY <1>1
      <3>2. start[k] = tests[k - 1]
        BY <1>6, <3>1
      <3> QED BY <1>3, <3>1, <3>2
    <2> QED BY <1>2, <2>1, <2>2, <2>3
  <1> HIDE DEF start
  <1>8. /\ Len(start \o last) = n + 3
        /\ \A k \in 1 .. n + 3 : (start \o last)[k] = IF k <= n + 1 THEN start[k] ELSE last[k - (n + 1)]
    <2>1. /\ Len(start \o last) = (n + 1) + 2
          /\ \A k \in 1 .. (n + 1) + 2 : (start \o last)[k] = IF k <= n + 1 THEN start[k] ELSE last[k - (n + 1)]
      <3>1. /\ Len(start \o last) = Len(start) + Len(last)
            /\ \A k \in 1 .. Len(start) + Len(last) :
                 (start \o last)[k] = IF k <= Len(start) THEN start[k] ELSE last[k - Len(start)]
        BY <1>4, <1>7, ConcatProperties
      <3> QED BY <1>4, <1>7, <3>1
    <2>2. (n + 1) + 2 = n + 3
      BY <1>1
    <2> QED BY <2>1, <2>2
  <1>9. ASSUME NEW k \in 1 .. n + 3
        PROVE  \/ k = 1 /\ Plan(g)[k] = <<"audit">>
               \/ k \in 2 .. n + 1 /\ Plan(g)[k] = <<"test", g.scenarios[k - 1]>>
               \/ k = n + 2 /\ Plan(g)[k] = <<"compare">>
               \/ k = n + 3 /\ Plan(g)[k] = <<"validate">>
    <2>1. CASE k <= n + 1
      <3>1. Plan(g)[k] = start[k]
        BY <1>7, <1>8, <2>1
      <3>2. k = 1 \/ k \in 2 .. n + 1
        BY <1>1, <2>1
      <3> QED BY <1>7, <3>1, <3>2
    <2>2. CASE k > n + 1
      <3>1. Plan(g)[k] = last[k - (n + 1)]
        BY <1>1, <1>7, <1>8, <2>2
      <3>2. (k = n + 2 /\ k - (n + 1) = 1) \/ (k = n + 3 /\ k - (n + 1) = 2)
        BY <1>1, <2>2
      <3> QED BY <1>4, <3>1, <3>2
    <2> QED BY <1>1, <2>1, <2>2
  <1> QED BY <1>1, <1>7, <1>8, <1>9 DEF n

\* Lemma: a command that follows the plan is the next one of it.
LEMMA CommandFollowed ==
  ASSUME GoalOK, goal # <<>>, NEW command, Follow(command), followed' # -1
  PROVE  /\ TheGoal \in Goals /\ followed \in 0 .. Reran + 2 /\ followed' = followed + 1
         /\ \/ followed = 0 /\ command = <<"audit">>
            \/ followed \in 1 .. Reran /\ command = <<"test", TheGoal.scenarios[followed]>>
            \/ followed = Reran + 1 /\ command = <<"compare">>
            \/ followed = Reran + 2 /\ command = <<"validate">>
  <1>1. TheGoal \in Goals
    BY DEF GoalOK, TheGoal
  <1> DEFINE n == Len(TheGoal.scenarios)
             p == Plan(TheGoal)
  <1>2. /\ n \in Nat /\ Len(p) = n + 3
        /\ \A k \in 1 .. n + 3 :
             \/ k = 1 /\ p[k] = <<"audit">>
             \/ k \in 2 .. n + 1 /\ p[k] = <<"test", TheGoal.scenarios[k - 1]>>
             \/ k = n + 2 /\ p[k] = <<"compare">>
             \/ k = n + 3 /\ p[k] = <<"validate">>
    <2> HIDE DEF TheGoal
    <2> QED BY <1>1, PlanCommands
  <1>3. followed \in 0 .. Len(p) - 1 /\ p[followed + 1] = command /\ followed' = followed + 1
    BY DEF Follow
  <1> HIDE DEF p
  <1>4. followed \in 0 .. n + 2 /\ followed + 1 \in 1 .. n + 3
    BY <1>2, <1>3
  <1>5. \/ followed = 0 /\ command = <<"audit">>
        \/ followed \in 1 .. n /\ command = <<"test", TheGoal.scenarios[followed]>>
        \/ followed = n + 1 /\ command = <<"compare">>
        \/ followed = n + 2 /\ command = <<"validate">>
    <2>1. PICK j \in 1 .. n + 3 : j = followed + 1
      BY <1>4
    <2> HIDE DEF n
    <2>2. /\ j - 1 = followed /\ n \in Nat /\ followed \in Int
          /\ (j = 1 => followed = 0) /\ (j \in 2 .. n + 1 => followed \in 1 .. n)
          /\ (j = n + 2 => followed = n + 1) /\ (j = n + 3 => followed = n + 2)
      BY <1>2, <1>4, <2>1
    <2>3. \/ j = 1 /\ p[j] = <<"audit">>
          \/ j \in 2 .. n + 1 /\ p[j] = <<"test", TheGoal.scenarios[j - 1]>>
          \/ j = n + 2 /\ p[j] = <<"compare">>
          \/ j = n + 3 /\ p[j] = <<"validate">>
      BY <1>2, <2>1
    <2>4. p[j] = command
      BY <1>3, <2>1
    <2>5. CASE j = 1 /\ p[j] = <<"audit">>
      BY <2>2, <2>4, <2>5
    <2>6. CASE j \in 2 .. n + 1 /\ p[j] = <<"test", TheGoal.scenarios[j - 1]>>
      BY <2>2, <2>4, <2>6
    <2>7. CASE j = n + 2 /\ p[j] = <<"compare">>
      BY <2>2, <2>4, <2>7
    <2>8. CASE j = n + 3 /\ p[j] = <<"validate">>
      BY <2>2, <2>4, <2>8
    <2> QED BY <2>3, <2>5, <2>6, <2>7, <2>8
  <1> QED BY <1>1, <1>3, <1>4, <1>5 DEF Reran

\* Lemma: any other command leaves the plan, and before there is a goal there is none to leave.
LEMMA FollowTyped ==
  ASSUME GoalOK, NEW command, Follow(command)
  PROVE  followed' \in Int /\ followed' >= -1 /\ (goal = <<>> => followed' = 0)
  BY DEF GoalOK, Follow

SameGoal ==
  /\ TheGoal.made' = TheGoal.made /\ TheGoal.repetitions' = TheGoal.repetitions
  /\ TheGoal.baseline' = TheGoal.baseline /\ TheGoal.scenarios' = TheGoal.scenarios
  /\ TheGoal.metrics' = TheGoal.metrics

\* Lemma: what a goal says of its baseline stays true whatever is recorded after it.
LEMMA BaselineKept ==
  ASSUME StoreOK, GoalOK, BaselineOK, goal # <<>>, SameGoal,
         \A i \in 1 .. Len(results) : results'[i] = results[i]
  PROVE  BaselineOK'
  <1> DEFINE g == TheGoal
             b == g.baseline
             s == results[b].scenario
  <1>1. SUFFICES ASSUME HasBaseline' PROVE
          /\ ItsScenario' \in Scenario /\ Reran' > 0 /\ (TheGoal.scenarios[Reran])' = ItsScenario'
          /\ \A k \in 1 .. Reran' - 1 : (TheGoal.scenarios)'[k] # ItsScenario'
          /\ Cardinality(Between(ItsScenario)') < ResultsRead
          /\ \A m \in TheGoal.metrics' :
               Contributing(TheGoal.baseline)' >= Required(m) /\ TheGoal.repetitions' >= Required(m)
    BY DEF BaselineOK
  <1>2. HasBaseline
    BY <1>1 DEF HasBaseline, SameGoal
  <1>3. g \in Goals /\ g.made <= Len(results) /\ b <= g.made /\ b # 0
    BY <1>2 DEF GoalOK, HasBaseline, TheGoal
  <1>4. b \in 1 .. Len(results) /\ g.made \in Nat /\ Len(results) \in Nat
    BY <1>3, StoredResults DEF Goals
  <1>5. results'[b] = results[b] /\ ItsScenario' = s
    BY <1>4 DEF ItsScenario, SameGoal
  <1>6. Between(ItsScenario)' = Between(s)
    <2>1. \A j \in b + 1 .. g.made : results'[j] = results[j]
      BY <1>3, <1>4
    <2>2. Between(ItsScenario)' = {j \in b + 1 .. g.made : results'[j].scenario = s}
      BY <1>5 DEF Between, SameGoal
    <2>3. Between(s) = {j \in b + 1 .. g.made : results[j].scenario = s}
      BY DEF Between
    <2> HIDE DEF b, g, s
    <2> QED BY <2>1, <2>2, <2>3
  <1>7. Contributing(TheGoal.baseline)' = Contributing(b)
    BY <1>5 DEF Contributing, Kinds, SameGoal
  <1>8. /\ s \in Scenario /\ Reran > 0 /\ g.scenarios[Reran] = s
        /\ \A k \in 1 .. Reran - 1 : g.scenarios[k] # s
        /\ Cardinality(Between(s)) < ResultsRead
        /\ \A m \in g.metrics : Contributing(b) >= Required(m) /\ g.repetitions >= Required(m)
    BY <1>2 DEF BaselineOK, ItsScenario
  <1>9. Reran' = Reran /\ (TheGoal.scenarios)' = g.scenarios
    BY DEF Reran, SameGoal
  <1>10. TheGoal.metrics' = g.metrics /\ TheGoal.repetitions' = g.repetitions
    BY DEF SameGoal
  <1> HIDE DEF g, b, s
  <1> QED BY <1>5, <1>6, <1>7, <1>8, <1>9, <1>10

\* Lemma: a result recorded is the plan's next rerun, or something the plan does not name.
LEMMA RecordKeepsThePlan ==
  ASSUME PlanInv, NEW new \in Seq(Recorded), Record(new), NEW command, Follow(command),
         goal # <<>> /\ followed' # -1 =>
           \E s \in Scenario : /\ command = <<"test", s>> /\ Len(new) = 1
                               /\ new[1].scenario = s /\ new[1].faults = Declared[s]
                               /\ Len(new[1].runs) = TheGoal.repetitions
  PROVE  PlanInv'
  <1>1. StoreOK /\ GoalOK /\ BaselineOK /\ FollowedOK
    BY DEF PlanInv
  <1>2. /\ StoreOK' /\ Len(results') = Len(results) + Len(new)
        /\ \A i \in 1 .. Len(results) : results'[i] = results[i]
        /\ \A k \in 1 .. Len(new) : results'[Len(results) + k] = new[k]
    BY <1>1, RecordAdds
  <1>3. goal' = goal /\ compared' = compared /\ TheGoal' = TheGoal /\ SameGoal
    BY DEF Record, TheGoal, SameGoal
  <1>4. Len(results) \in Nat /\ Len(new) \in Nat
    BY <1>1, StoredResults
  <1>5. GoalOK'
    <2>1. followed' \in Int /\ followed' >= -1 /\ (goal = <<>> => followed' = 0)
      BY <1>1, FollowTyped
    <2>2. goal # <<>> => TheGoal.made \in Nat
      BY <1>1 DEF GoalOK, TheGoal, Goals
    <2>3. goal # <<>> => TheGoal.made' <= Len(results') /\ TheGoal.baseline' <= TheGoal.made'
      BY <1>1, <1>2, <1>3, <1>4, <2>2 DEF GoalOK
    <2> QED BY <1>1, <1>3, <2>1, <2>3 DEF GoalOK
  <1>6. BaselineOK'
    <2>1. CASE goal = <<>>
      BY <1>3, <2>1 DEF BaselineOK, HasBaseline
    <2>2. CASE goal # <<>>
      BY <1>1, <1>2, <1>3, <2>2, BaselineKept
    <2> QED BY <2>1, <2>2
  <1>7. FollowedOK'
    <2>1. SUFFICES ASSUME HasBaseline', followed' # -1
                   PROVE  /\ followed' <= Reran' + 3 /\ Len(results') = TheGoal'.made + Rerun'
                          /\ \A k \in 1 .. Rerun' :
                               /\ results'[TheGoal'.made + k].scenario = TheGoal'.scenarios[k]
                               /\ results'[TheGoal'.made + k].faults = Declared[TheGoal'.scenarios[k]]
                               /\ Len(results'[TheGoal'.made + k].runs) = TheGoal'.repetitions
                          /\ ~(followed' >= Reran' + 2)
      BY DEF FollowedOK
    <2>2. HasBaseline /\ goal # <<>>
      BY <1>3, <2>1 DEF HasBaseline
    <2>3. PICK s \in Scenario : /\ command = <<"test", s>> /\ Len(new) = 1
                                /\ new[1].scenario = s /\ new[1].faults = Declared[s]
                                /\ Len(new[1].runs) = TheGoal.repetitions
      BY <2>1, <2>2
    <2>4. /\ TheGoal \in Goals /\ followed' = followed + 1
          /\ followed \in 1 .. Reran /\ <<"test", s>> = <<"test", TheGoal.scenarios[followed]>>
      <3>1. /\ TheGoal \in Goals /\ followed' = followed + 1
            /\ \/ followed = 0 /\ command = <<"audit">>
               \/ followed \in 1 .. Reran /\ command = <<"test", TheGoal.scenarios[followed]>>
               \/ followed = Reran + 1 /\ command = <<"compare">>
               \/ followed = Reran + 2 /\ command = <<"validate">>
        BY <1>1, <2>1, <2>2, CommandFollowed
      <3> QED BY <2>3, <3>1
    <2>5. s = TheGoal.scenarios[followed]
      BY <2>4
    <2>6. Reran \in Nat /\ followed \in Nat /\ TheGoal.made \in Nat
      BY <2>4 DEF Goals, Reran
    <2>7. Rerun = followed - 1
      BY <2>4, <2>6 DEF Rerun
    <2>8. Rerun' = followed /\ Reran' = Reran
      BY <1>3, <2>4, <2>6 DEF Rerun, Reran
    <2>9. /\ Len(results) = TheGoal.made + (followed - 1)
          /\ \A k \in 1 .. followed - 1 :
               /\ results[TheGoal.made + k].scenario = TheGoal.scenarios[k]
               /\ results[TheGoal.made + k].faults = Declared[TheGoal.scenarios[k]]
               /\ Len(results[TheGoal.made + k].runs) = TheGoal.repetitions
      BY <1>1, <2>2, <2>6, <2>7 DEF FollowedOK
    <2> DEFINE g == TheGoal
    <2>10. g.made \in Nat
      BY <2>6
    <2>11. TheGoal' = g
      BY <1>3
    <2> HIDE DEF g
    <2>12. Len(results') = g.made + followed
      BY <1>2, <2>3, <2>6, <2>9, <2>10 DEF g
    <2>13. ASSUME NEW k \in 1 .. followed
           PROVE  /\ results'[g.made + k].scenario = g.scenarios[k]
                  /\ results'[g.made + k].faults = Declared[g.scenarios[k]]
                  /\ Len(results'[g.made + k].runs) = g.repetitions
      <3>1. CASE k = followed
        <4>1. g.made + k = Len(results) + 1 /\ 1 \in 1 .. Len(new)
          BY <2>3, <2>6, <2>9, <2>10, <3>1 DEF g
        <4>2. results'[g.made + k] = new[1]
          BY <1>2, <4>1
        <4> QED BY <2>3, <2>5, <3>1, <4>2 DEF g
      <3>2. CASE k # followed
        <4>1. k \in 1 .. followed - 1 /\ g.made + k \in 1 .. Len(results)
          BY <2>6, <2>9, <2>10, <3>2 DEF g
        <4>2. results'[g.made + k] = results[g.made + k]
          BY <1>2, <4>1
        <4> QED BY <2>9, <4>1, <4>2 DEF g
      <3> QED BY <3>1, <3>2
    <2>14. followed' <= Reran' + 3 /\ ~(followed' >= Reran' + 2)
      BY <2>4, <2>6, <2>8
    <2> QED BY <2>8, <2>11, <2>12, <2>13, <2>14
  <1> QED BY <1>2, <1>5, <1>6, <1>7 DEF PlanInv

----------------------------------------------------------------------------
(* The commands, one by one.                                               *)

\* Lemma: a comparison where the plan has it reads both results whole: the rerun is the only
\* result of its scenario since the goal, so the baseline is still among those it lists.
LEMMA BothSidesAreWhole ==
  ASSUME PlanInv, HasBaseline, followed = Reran + 1
  PROVE  /\ \A run : Side(TheGoal.baseline, run) = Whole(TheGoal.baseline)
         /\ \A run : Side(Len(results), run) = Whole(Len(results))
  <1> DEFINE g == TheGoal
             b == g.baseline
             s == results[b].scenario
             n == Reran
             l == Len(results)
             later == {j \in ResultsOf(s) : j > b}
  <1>1. StoreOK /\ GoalOK /\ BaselineOK /\ FollowedOK
    BY DEF PlanInv
  <1>2. g \in Goals /\ g.made <= l /\ b <= g.made /\ b # 0
    BY <1>1 DEF GoalOK, HasBaseline, TheGoal
  <1>3. /\ s \in Scenario /\ n > 0 /\ g.scenarios[n] = s
        /\ \A k \in 1 .. n - 1 : g.scenarios[k] # s
        /\ Cardinality(Between(s)) < ResultsRead
    BY <1>1 DEF BaselineOK, ItsScenario
  <1>4. n \in Nat /\ g.made \in Nat /\ b \in 1 .. l /\ l \in Nat /\ DOMAIN results = 1 .. l
    BY <1>1, <1>2, StoredResults DEF Goals, Reran
  <1>5. Rerun = n
    BY <1>3, <1>4 DEF Rerun
  <1>6. l = g.made + n /\ \A k \in 1 .. n : results[g.made + k].scenario = g.scenarios[k]
    BY <1>1, <1>4, <1>5 DEF FollowedOK
  <1> HIDE DEF g, n
  <1>7. results[l].scenario = s /\ l \in 1 .. l
    <2>1. n \in 1 .. n
      BY <1>3, <1>4
    <2> HIDE DEF s
    <2> QED BY <1>3, <1>4, <1>6, <2>1
  <1>8. later = Between(s) \cup {l}
    <2>1. ASSUME NEW j \in later PROVE j \in Between(s) \cup {l}
      <3>1. j \in 1 .. l /\ j > b /\ results[j].scenario = s
        BY <1>4 DEF ResultsOf
      <3>2. CASE j <= g.made
        <4>1. j \in b + 1 .. g.made
          BY <1>4, <3>1, <3>2
        <4>2. Between(s) = {k \in b + 1 .. g.made : results[k].scenario = s}
          BY DEF Between, g
        <4> HIDE DEF s, b
        <4> QED BY <3>1, <4>1, <4>2
      <3>3. CASE j > g.made
        <4>1. j - g.made \in 1 .. n /\ g.made + (j - g.made) = j
          BY <1>4, <1>6, <3>1, <3>3
        <4>2. g.scenarios[j - g.made] = s
          BY <1>6, <3>1, <4>1
        <4>3. j - g.made = n
          BY <1>3, <1>4, <4>1, <4>2
        <4> QED BY <1>4, <1>6, <4>1, <4>3
      <3>4. j <= g.made \/ j > g.made
        BY <1>4, <3>1
      <3> QED BY <3>2, <3>3, <3>4
    <2>2. ASSUME NEW j \in Between(s) PROVE j \in later
      <3>1. j \in b + 1 .. g.made /\ results[j].scenario = s
        BY DEF Between, g
      <3>2. j \in 1 .. l /\ j > b
        BY <1>2, <1>4, <3>1
      <3> QED BY <1>4, <3>1, <3>2 DEF ResultsOf
    <2>3. l \in later
      <3>1. l > b
        BY <1>2, <1>3, <1>4, <1>6
      <3> QED BY <1>4, <1>7, <3>1 DEF ResultsOf
    <2> QED BY <2>1, <2>2, <2>3
  <1>9. IsFiniteSet(Between(s)) /\ Cardinality(Between(s)) \in Nat
    <2> DEFINE B == Between(s)
    <2>1. B \in SUBSET (b + 1 .. g.made)
      BY DEF Between, g
    <2>2. IsFiniteSet(b + 1 .. g.made)
      <3>1. b + 1 \in Int /\ g.made \in Int
        BY <1>4
      <3> QED BY <3>1, FS_Interval
    <2> HIDE DEF B
    <2>3. IsFiniteSet(B)
      BY <2>1, <2>2, FS_Subset
    <2>4. Cardinality(B) \in Nat
      BY <2>3, FS_CardinalityType
    <2> QED BY <2>3, <2>4 DEF B
  <1>10. Cardinality(later) < ResultsListed
    <2>1. Cardinality(Between(s) \cup {l}) =
            IF l \in Between(s) THEN Cardinality(Between(s)) ELSE Cardinality(Between(s)) + 1
      BY <1>9, FS_AddElement
    <2>2. Cardinality(later) <= Cardinality(Between(s)) + 1
      <3> HIDE DEF later
      <3> QED BY <1>8, <1>9, <2>1
    <2> HIDE DEF later
    <2> QED BY <1>3, <1>8, <1>9, <2>1, <2>2, PlanAssumption
  <1>11. b \in Newest(s, ResultsListed)
    BY <1>4, <1>10 DEF Newest, ResultsOf
  <1>12. l \in Newest(s, ResultsListed)
    <2>1. {j \in ResultsOf(s) : j > l} = {}
      BY <1>4 DEF ResultsOf
    <2>2. Cardinality({}) = 0 /\ ResultsListed > 0
      BY FS_EmptySet, PlanAssumption
    <2>3. l \in ResultsOf(s)
      BY <1>4, <1>7 DEF ResultsOf
    <2> QED BY <2>1, <2>2, <2>3 DEF Newest
  <1>13. s # Unscripted
    BY <1>3, PlanAssumption
  <1>14. ASSUME NEW run PROVE Side(b, run) = Whole(b)
    BY <1>11, <1>13 DEF Side, Whole
  <1>15. ASSUME NEW run PROVE Side(l, run) = Whole(l)
    <2>1. results[l].scenario # Unscripted /\ l \in Newest(results[l].scenario, ResultsListed)
      BY <1>7, <1>12, <1>13
    <2> QED BY <2>1 DEF Side, Whole
  <1> QED BY <1>14, <1>15 DEF g

\* Lemma: a command that records nothing leaves the reruns as they are.
LEMMA NothingRecorded ==
  ASSUME PlanInv, results' = results, goal # <<>>, goal' # <<>>, SameGoal,
         followed' # -1 =>
           /\ followed # -1 /\ Rerun' = Rerun /\ followed' <= Reran + 3
           /\ HasBaseline /\ followed' >= Reran + 2 =>
                compared' = <<[baseline |-> Whole(TheGoal.baseline), candidate |-> Whole(Len(results))]>>
  PROVE  BaselineOK' /\ FollowedOK'
  <1>1. StoreOK /\ GoalOK /\ BaselineOK /\ FollowedOK
    BY DEF PlanInv
  <1>2. BaselineOK'
    BY <1>1, BaselineKept
  <1>3. FollowedOK'
    <2>1. SUFFICES ASSUME HasBaseline', followed' # -1
                   PROVE  /\ followed' <= Reran' + 3 /\ Len(results') = TheGoal.made' + Rerun'
                          /\ \A k \in 1 .. Rerun' :
                               /\ results'[TheGoal.made' + k].scenario = (TheGoal.scenarios)'[k]
                               /\ results'[TheGoal.made' + k].faults = Declared[(TheGoal.scenarios)'[k]]
                               /\ Len(results'[TheGoal.made' + k].runs) = TheGoal.repetitions'
                          /\ followed' >= Reran' + 2 =>
                               compared' = <<[baseline |-> Whole(TheGoal.baseline)', candidate |-> Whole(Len(results))']>>
      BY DEF FollowedOK
    <2>2. HasBaseline
      BY <2>1 DEF HasBaseline, SameGoal
    <2>3. Reran' = Reran
      BY DEF Reran, SameGoal
    <2>4. Whole(TheGoal.baseline)' = Whole(TheGoal.baseline) /\ Whole(Len(results))' = Whole(Len(results))
      BY DEF Whole, SameGoal
    <2>5. /\ Len(results) = TheGoal.made + Rerun
          /\ \A k \in 1 .. Rerun :
               /\ results[TheGoal.made + k].scenario = TheGoal.scenarios[k]
               /\ results[TheGoal.made + k].faults = Declared[TheGoal.scenarios[k]]
               /\ Len(results[TheGoal.made + k].runs) = TheGoal.repetitions
      BY <1>1, <2>1, <2>2 DEF FollowedOK
    <2>6. /\ TheGoal.made' = TheGoal.made /\ TheGoal.repetitions' = TheGoal.repetitions
          /\ (TheGoal.scenarios)' = TheGoal.scenarios
      BY DEF SameGoal
    <2> QED BY <2>1, <2>2, <2>3, <2>4, <2>5, <2>6
  <1> QED BY <1>2, <1>3

\* Lemma: rerunning a scenario keeps the invariant (runScenarios).
LEMMA TestKeeps ==
  ASSUME PlanInv, NEW s \in Scenario, Test(s)
  PROVE  PlanInv'
  <1>1. PICK runs \in Batches : /\ goal # <<>> => Len(runs) = TheGoal.repetitions
                                /\ Record(<<Result(s, Declared[s], runs)>>)
    BY DEF Test
  <1> DEFINE new == <<Result(s, Declared[s], runs)>>
  <1>2. Result(s, Declared[s], runs) \in Recorded
    BY PlanAssumption DEF Result, Recorded, Faults
  <1>3. new \in Seq(Recorded)
    BY <1>2
  <1>4. /\ Len(new) = 1 /\ new[1].scenario = s /\ new[1].faults = Declared[s] /\ new[1].runs = runs
    BY DEF Result
  <1>5. Record(new)
    BY <1>1
  <1>6. Follow(<<"test", s>>)
    BY DEF Test
  <1> HIDE DEF new
  <1> DEFINE command == <<"test", s>>
  <1>7. goal # <<>> /\ followed' # -1 =>
          \E t \in Scenario : /\ command = <<"test", t>> /\ Len(new) = 1
                              /\ new[1].scenario = t /\ new[1].faults = Declared[t]
                              /\ Len(new[1].runs) = TheGoal.repetitions
    BY <1>1, <1>4
  <1>8. Follow(command)
    BY <1>6
  <1> HIDE DEF command
  <1> QED BY <1>3, <1>5, <1>7, <1>8, RecordKeepsThePlan

\* Lemma: no plan names chaos, so it leaves the plan (runChaos).
LEMMA ChaosKeeps ==
  ASSUME PlanInv, NEW s \in Scenario, Chaos(s)
  PROVE  PlanInv'
  <1>1. PICK whole \in Batches, single \in Batches :
          Record(<<Result(s, Declared[s], whole), Result(s, SingleFault[s], single)>>)
    BY DEF Chaos
  <1> DEFINE new == <<Result(s, Declared[s], whole), Result(s, SingleFault[s], single)>>
             command == <<"chaos">>
  <1>2. Result(s, Declared[s], whole) \in Recorded /\ Result(s, SingleFault[s], single) \in Recorded
    BY PlanAssumption DEF Result, Recorded, Faults
  <1>3. new \in Seq(Recorded) /\ Record(new)
    BY <1>1, <1>2
  <1>4. Follow(command) /\ GoalOK
    BY DEF Chaos, PlanInv
  <1>5. ~(goal # <<>> /\ followed' # -1)
    <2>1. SUFFICES ASSUME goal # <<>>, followed' # -1 PROVE FALSE
      OBVIOUS
    <2>2. command[1] = "chaos"
      OBVIOUS
    <2> HIDE DEF command
    <2>3. \/ command = <<"audit">> \/ command = <<"test", TheGoal.scenarios[followed]>>
          \/ command = <<"compare">> \/ command = <<"validate">>
      BY <1>4, <2>1, CommandFollowed
    <2> QED BY <2>2, <2>3
  <1> HIDE DEF new, command
  <1> QED BY <1>3, <1>4, <1>5, RecordKeepsThePlan

\* Lemma: no plan names trace, so it leaves the plan (trace).
LEMMA TraceKeeps ==
  ASSUME PlanInv, Trace
  PROVE  PlanInv'
  <1>1. PICK k \in DOMAIN RunKinds : Record(<<Result(Unscripted, "none", <<k>>)>>)
    BY DEF Trace
  <1> DEFINE new == <<Result(Unscripted, "none", <<k>>)>>
             command == <<"trace">>
  <1>2. Result(Unscripted, "none", <<k>>) \in Recorded
    BY DEF Result, Recorded, Faults
  <1>3. new \in Seq(Recorded) /\ Record(new)
    BY <1>1, <1>2
  <1>4. Follow(command) /\ GoalOK
    BY DEF Trace, PlanInv
  <1>5. ~(goal # <<>> /\ followed' # -1)
    <2>1. SUFFICES ASSUME goal # <<>>, followed' # -1 PROVE FALSE
      OBVIOUS
    <2>2. command[1] = "trace"
      OBVIOUS
    <2> HIDE DEF command
    <2>3. \/ command = <<"audit">> \/ command = <<"test", TheGoal.scenarios[followed]>>
          \/ command = <<"compare">> \/ command = <<"validate">>
      BY <1>4, <2>1, CommandFollowed
    <2> QED BY <2>2, <2>3
  <1> HIDE DEF new, command
  <1> QED BY <1>3, <1>4, <1>5, RecordKeepsThePlan

\* Lemma: an audit attributes what is recorded, and records nothing (audit).
LEMMA AuditKeeps ==
  ASSUME PlanInv, Audit
  PROVE  PlanInv'
  <1>1. StoreOK /\ GoalOK
    BY DEF PlanInv
  <1>2. /\ results' = results /\ goal' = goal /\ compared' = compared /\ attributed' = Len(results)
        /\ TheGoal' = TheGoal /\ SameGoal /\ Follow(<<"audit">>)
    BY DEF Audit, TheGoal, SameGoal
  <1>3. StoreOK'
    BY <1>1, <1>2, StoredResults DEF StoreOK
  <1>4. GoalOK'
    BY <1>1, <1>2, FollowTyped DEF GoalOK
  <1>5. CASE goal = <<>>
    BY <1>2, <1>3, <1>4, <1>5 DEF PlanInv, BaselineOK, FollowedOK, HasBaseline
  <1>6. CASE goal # <<>>
    <2>1. ASSUME followed' # -1 PROVE followed = 0 /\ followed' = 1 /\ Reran \in Nat
      <3> DEFINE command == <<"audit">>
      <3>1. command[1] = "audit" /\ Follow(command)
        BY <1>2
      <3> HIDE DEF command
      <3>2. /\ followed' = followed + 1 /\ TheGoal \in Goals
            /\ \/ followed = 0 /\ command = <<"audit">>
               \/ followed \in 1 .. Reran /\ command = <<"test", TheGoal.scenarios[followed]>>
               \/ followed = Reran + 1 /\ command = <<"compare">>
               \/ followed = Reran + 2 /\ command = <<"validate">>
        BY <1>1, <1>6, <2>1, <3>1, CommandFollowed
      <3> QED BY <3>1, <3>2 DEF Goals, Reran
    <2>2. followed' # -1 => followed # -1 /\ Rerun' = Rerun /\ followed' <= Reran + 3 /\ ~(followed' >= Reran + 2)
      BY <2>1 DEF Rerun
    <2>3. BaselineOK' /\ FollowedOK'
      BY <1>2, <1>6, <2>2, NothingRecorded
    <2> QED BY <1>3, <1>4, <2>3 DEF PlanInv
  <1> QED BY <1>5, <1>6

\* Lemma: comparing gives both sides whole, where the plan has it (compareRuns).
LEMMA CompareKeeps ==
  ASSUME PlanInv, Compare
  PROVE  PlanInv'
  <1>1. StoreOK /\ GoalOK
    BY DEF PlanInv
  <1>2. /\ results' = results /\ goal' = goal /\ attributed' = attributed
        /\ TheGoal' = TheGoal /\ SameGoal /\ Follow(<<"compare">>) /\ HasBaseline /\ goal # <<>>
    BY DEF Compare, TheGoal, SameGoal, HasBaseline
  <1>3. StoreOK'
    BY <1>1, <1>2 DEF StoreOK
  <1>4. GoalOK'
    BY <1>1, <1>2, FollowTyped DEF GoalOK
  <1>5. ASSUME followed' # -1 PROVE followed = Reran + 1 /\ followed' = Reran + 2 /\ Reran \in Nat
    <2> DEFINE command == <<"compare">>
    <2>1. command[1] = "compare" /\ Follow(command)
      BY <1>2
    <2> HIDE DEF command
    <2>2. /\ followed' = followed + 1 /\ TheGoal \in Goals
          /\ \/ followed = 0 /\ command = <<"audit">>
             \/ followed \in 1 .. Reran /\ command = <<"test", TheGoal.scenarios[followed]>>
             \/ followed = Reran + 1 /\ command = <<"compare">>
             \/ followed = Reran + 2 /\ command = <<"validate">>
      BY <1>1, <1>2, <1>5, <2>1, CommandFollowed
    <2>3. followed = Reran + 1 /\ Reran \in Nat
      BY <2>1, <2>2 DEF Goals, Reran
    <2> QED BY <2>2, <2>3
  <1>6. SameGoal => Reran' = Reran
    BY DEF Reran, SameGoal
  <1>7. ASSUME followed' # -1
        PROVE  /\ followed # -1 /\ Rerun' = Rerun /\ followed' <= Reran + 3
               /\ compared' = <<[baseline |-> Whole(TheGoal.baseline), candidate |-> Whole(Len(results))]>>
    <2>1. followed = Reran + 1 /\ followed' = Reran + 2 /\ Reran \in Nat
      BY <1>5, <1>7
    <2>2. followed # -1 /\ Rerun' = Rerun /\ followed' <= Reran + 3
      BY <1>2, <1>6, <2>1 DEF Rerun
    <2>3. /\ \A run : Side(TheGoal.baseline, run) = Whole(TheGoal.baseline)
          /\ \A run : Side(Len(results), run) = Whole(Len(results))
      BY <1>2, <2>1, BothSidesAreWhole
    <2>4. compared' = <<[baseline |-> Whole(TheGoal.baseline), candidate |-> Whole(Len(results))]>>
      BY <2>3 DEF Compare
    <2> QED BY <2>2, <2>4
  <1>8. goal' # <<>>
    BY <1>2
  <1>9. BaselineOK' /\ FollowedOK'
    BY <1>2, <1>7, <1>8, NothingRecorded
  <1> QED BY <1>3, <1>4, <1>9 DEF PlanInv

\* Lemma: validating changes the goal's status only (validateGoalOutcome).
LEMMA ValidateKeeps ==
  ASSUME PlanInv, Validate
  PROVE  PlanInv'
  <1>1. StoreOK /\ GoalOK /\ FollowedOK
    BY DEF PlanInv
  <1>2. /\ results' = results /\ compared' = compared /\ attributed' = attributed
        /\ Follow(<<"validate">>) /\ goal # <<>>
    BY DEF Validate
  <1>3. PICK g \in Goals : goal = <<g>>
    BY <1>1, <1>2 DEF GoalOK
  <1>4. PICK status \in {"validated", "in_progress"} : goal' = [goal EXCEPT ![1].status = status]
    BY DEF Validate
  <1> DEFINE h == [g EXCEPT !.status = status]
  <1>5. goal' = <<h>>
    BY <1>3, <1>4
  <1>6. /\ h \in Goals /\ h.made = g.made /\ h.repetitions = g.repetitions /\ h.baseline = g.baseline
        /\ h.scenarios = g.scenarios /\ h.metrics = g.metrics
    BY DEF Goals
  <1> HIDE DEF h
  <1>7. TheGoal = g /\ TheGoal' = h /\ goal' # <<>>
    BY <1>3, <1>5 DEF TheGoal
  <1>8. SameGoal
    BY <1>6, <1>7 DEF SameGoal
  <1>9. StoreOK'
    BY <1>1, <1>2 DEF StoreOK
  <1>10. GoalOK'
    <2>1. followed' \in Int /\ followed' >= -1
      BY <1>1, <1>2, FollowTyped
    <2>2. TheGoal.made' <= Len(results') /\ TheGoal.baseline' <= TheGoal.made'
      BY <1>1, <1>2, <1>8 DEF GoalOK, SameGoal
    <2> QED BY <1>5, <1>6, <1>7, <2>1, <2>2 DEF GoalOK
  <1>11. ASSUME followed' # -1 PROVE followed = Reran + 2 /\ followed' = Reran + 3 /\ Reran \in Nat
    <2> DEFINE command == <<"validate">>
    <2>1. command[1] = "validate" /\ Follow(command)
      BY <1>2
    <2> HIDE DEF command
    <2>2. /\ followed' = followed + 1 /\ TheGoal \in Goals
          /\ \/ followed = 0 /\ command = <<"audit">>
             \/ followed \in 1 .. Reran /\ command = <<"test", TheGoal.scenarios[followed]>>
             \/ followed = Reran + 1 /\ command = <<"compare">>
             \/ followed = Reran + 2 /\ command = <<"validate">>
      BY <1>1, <1>2, <1>11, <2>1, CommandFollowed
    <2>3. followed = Reran + 2 /\ Reran \in Nat
      BY <2>1, <2>2 DEF Goals, Reran
    <2> QED BY <2>2, <2>3
  <1>12. Reran' = Reran
    BY <1>8 DEF Reran, SameGoal
  <1>13. ASSUME followed' # -1
         PROVE  /\ followed # -1 /\ Rerun' = Rerun /\ followed' <= Reran + 3
                /\ HasBaseline =>
                     compared' = <<[baseline |-> Whole(TheGoal.baseline), candidate |-> Whole(Len(results))]>>
    <2>1. followed = Reran + 2 /\ followed' = Reran + 3 /\ Reran \in Nat
      BY <1>11, <1>13
    <2>2. followed # -1 /\ Rerun' = Rerun /\ followed' <= Reran + 3
      BY <1>12, <2>1 DEF Rerun
    <2>3. HasBaseline =>
            compared = <<[baseline |-> Whole(TheGoal.baseline), candidate |-> Whole(Len(results))]>>
      BY <1>1, <2>1 DEF FollowedOK
    <2> QED BY <1>2, <2>2, <2>3
  <1>14. BaselineOK' /\ FollowedOK'
    BY <1>2, <1>7, <1>8, <1>13, NothingRecorded
  <1> QED BY <1>9, <1>10, <1>14 DEF PlanInv

\* Lemma: a new goal has the newest comparable result as its baseline (createGoalFromFinding).
LEMMA CreateGoalKeeps ==
  ASSUME PlanInv, NEW n \in 1 .. MaxRepetitions, NEW improves \in BOOLEAN, CreateGoal(n, improves)
  PROVE  PlanInv'
  <1> DEFINE b == Baseline
             order == ScenariosFor(Baseline)
             metrics == MetricsStated(Baseline, n, improves)
             g == [made |-> Len(results), repetitions |-> n, baseline |-> b,
                   scenarios |-> order, status |-> "ready", metrics |-> metrics]
             s == results[b].scenario
  <1>1. StoreOK /\ GoalOK /\ Len(results) \in Nat
    BY StoredResults DEF PlanInv
  <1>2. /\ results' = results /\ attributed' = attributed /\ compared' = compared
        /\ followed' = followed /\ goal = <<>> /\ goal' = <<g>>
    BY DEF CreateGoal
  <1>3. followed' = 0
    BY <1>1, <1>2 DEF GoalOK
  <1>4. b \in 0 .. Len(results)
    BY <1>1, BaselineIsAmongTheNewest
  <1>5. /\ order \in Seq(Scenario)
        /\ b # 0 => /\ Len(order) > 0 /\ order[Len(order)] = s
                    /\ \A k \in 1 .. Len(order) - 1 : order[k] # s
    BY <1>1, TheComparedOneLast
  <1>6. metrics \in SUBSET Metrics
    BY DEF MetricsStated, Metrics
  <1>7. b # 0 => \A m \in metrics : Contributing(b) >= Required(m) /\ n >= Required(m)
    BY DEF MetricsStated, MetricIsDecidable
  <1>8. b # 0 => s \in Scenario /\ Cardinality({j \in ResultsOf(s) : j > b}) < ResultsRead
    BY <1>1, BaselineIsAmongTheNewest DEF Newest, Exercised
  <1> HIDE DEF b, order, metrics
  <1>9. g \in Goals
    <2>1. n \in Nat \ {0}
      BY PlanAssumption
    <2> QED BY <1>1, <1>4, <1>5, <1>6, <2>1 DEF Goals
  <1>10. /\ TheGoal' = g /\ goal' # <<>>
         /\ g.made = Len(results) /\ g.repetitions = n /\ g.baseline = b /\ g.scenarios = order /\ g.metrics = metrics
    BY <1>2 DEF TheGoal
  <1> HIDE DEF g
  <1>11. StoreOK'
    BY <1>1, <1>2 DEF StoreOK
  <1>12. GoalOK'
    <2>1. TheGoal.made' <= Len(results') /\ TheGoal.baseline' <= TheGoal.made'
      BY <1>1, <1>2, <1>4, <1>10
    <2> QED BY <1>2, <1>3, <1>9, <1>10, <2>1 DEF GoalOK
  <1>13. BaselineOK'
    <2>1. SUFFICES ASSUME HasBaseline' PROVE
            /\ ItsScenario' \in Scenario /\ Reran' > 0 /\ (TheGoal.scenarios[Reran])' = ItsScenario'
            /\ \A k \in 1 .. Reran' - 1 : (TheGoal.scenarios)'[k] # ItsScenario'
            /\ Cardinality(Between(ItsScenario)') < ResultsRead
            /\ \A m \in TheGoal.metrics' :
                 Contributing(TheGoal.baseline)' >= Required(m) /\ TheGoal.repetitions' >= Required(m)
      BY DEF BaselineOK
    <2>2. b # 0
      BY <1>10, <2>1 DEF HasBaseline
    <2>3. /\ ItsScenario' = s /\ Reran' = Len(order) /\ (TheGoal.scenarios)' = order
          /\ (TheGoal.metrics)' = metrics /\ TheGoal.repetitions' = n
          /\ (TheGoal.scenarios[Reran])' = order[Len(order)]
      BY <1>2, <1>10 DEF ItsScenario, Reran
    <2>4. Contributing(TheGoal.baseline)' = Contributing(b)
      BY <1>2, <1>10 DEF Contributing, Kinds
    <2>5. Between(ItsScenario)' = {j \in ResultsOf(s) : j > b}
      <3>1. Between(ItsScenario)' = {j \in b + 1 .. Len(results) : results[j].scenario = s}
        BY <1>2, <1>10, <2>3 DEF Between
      <3>2. ResultsOf(s) = {j \in 1 .. Len(results) : results[j].scenario = s}
        BY <1>1, StoredResults DEF ResultsOf
      <3>3. \A j : j \in b + 1 .. Len(results) <=> j \in 1 .. Len(results) /\ j > b
        BY <1>1, <1>4
      <3> HIDE DEF s
      <3> QED BY <3>1, <3>2, <3>3
    <2> HIDE DEF s
    <2> QED BY <1>5, <1>7, <1>8, <2>2, <2>3, <2>4, <2>5
  <1>14. FollowedOK'
    <2>1. Rerun' = 0 /\ TheGoal.made' = Len(results') /\ Reran' \in Nat /\ Len(results') \in Nat
      BY <1>1, <1>2, <1>3, <1>9, <1>10 DEF Rerun, Reran, Goals
    <2>2. followed' <= Reran' + 3 /\ ~(followed' >= Reran' + 2)
      <3>1. \A r \in Nat : 0 <= r + 3 /\ ~(0 >= r + 2)
        OBVIOUS
      <3>2. 0 <= Reran' + 3 /\ ~(0 >= Reran' + 2)
        BY <2>1, <3>1
      <3> QED BY <1>3, <3>2
    <2>3. Len(results') = TheGoal.made' + Rerun'
      <3>1. TheGoal.made' \in Nat /\ TheGoal.made' + 0 = TheGoal.made'
        BY <2>1
      <3> QED BY <2>1, <3>1
    <2>4. \A k \in 1 .. Rerun' : FALSE
      <3>1. \A k \in 1 .. 0 : FALSE
        OBVIOUS
      <3> QED BY <2>1, <3>1
    <2> QED BY <2>2, <2>3, <2>4 DEF FollowedOK
  <1> QED BY <1>11, <1>12, <1>13, <1>14 DEF PlanInv

----------------------------------------------------------------------------
(* The theorem about plans.                                                *)

\* The store, the goal and what was followed of its plan are always as PlanInv says.
THEOREM PlanKept == Spec => []PlanInv
  <1>1. Init => PlanInv
    <2> SUFFICES ASSUME Init PROVE PlanInv
      OBVIOUS
    <2>1. results = <<>> /\ attributed = 0 /\ goal = <<>> /\ followed = 0
      BY DEF Init
    <2>2. <<>> \in Seq(Recorded) /\ Len(<<>>) = 0
      OBVIOUS
    <2>3. StoreOK
      BY <2>1, <2>2 DEF StoreOK
    <2> QED BY <2>1, <2>3 DEF PlanInv, GoalOK, BaselineOK, FollowedOK, HasBaseline
  <1>2. PlanInv /\ [Next]_vars => PlanInv'
    <2> SUFFICES ASSUME PlanInv, [Next]_vars PROVE PlanInv'
      OBVIOUS
    <2>1. CASE \E s \in Scenario : Test(s) \/ Chaos(s)
      BY <2>1, TestKeeps, ChaosKeeps
    <2>2. CASE Trace
      BY <2>2, TraceKeeps
    <2>3. CASE Audit
      BY <2>3, AuditKeeps
    <2>4. CASE Compare
      BY <2>4, CompareKeeps
    <2>5. CASE Validate
      BY <2>5, ValidateKeeps
    <2>6. CASE \E n \in 1 .. MaxRepetitions, improves \in BOOLEAN : CreateGoal(n, improves)
      BY <2>6, CreateGoalKeeps
    <2>7. CASE UNCHANGED vars
      <3>1. StoreOK' /\ GoalOK'
        BY <2>7 DEF PlanInv, StoreOK, GoalOK, TheGoal, vars
      <3>2. CASE goal = <<>>
        BY <2>7, <3>1, <3>2 DEF PlanInv, BaselineOK, FollowedOK, HasBaseline, vars
      <3>3. CASE goal # <<>>
        <4>1. /\ results' = results /\ goal' # <<>> /\ SameGoal /\ Rerun' = Rerun
              /\ followed' = followed /\ compared' = compared
          BY <2>7, <3>3 DEF vars, SameGoal, TheGoal, Rerun, Reran
        <4>2. CASE HasBaseline
          <5>1. followed' # -1 =>
                  /\ followed # -1 /\ Rerun' = Rerun /\ followed' <= Reran + 3
                  /\ HasBaseline /\ followed' >= Reran + 2 =>
                       compared' = <<[baseline |-> Whole(TheGoal.baseline), candidate |-> Whole(Len(results))]>>
            BY <4>1, <4>2 DEF PlanInv, FollowedOK
          <5>2. BaselineOK' /\ FollowedOK'
            BY <3>3, <4>1, <5>1, NothingRecorded
          <5> QED BY <3>1, <5>2 DEF PlanInv
        <4>3. CASE ~HasBaseline
          <5>1. ~HasBaseline'
            BY <3>3, <4>1, <4>3 DEF HasBaseline, SameGoal
          <5>2. BaselineOK' /\ FollowedOK'
            BY <5>1 DEF BaselineOK, FollowedOK
          <5> QED BY <3>1, <5>2 DEF PlanInv
        <4> QED BY <4>2, <4>3
      <3> QED BY <3>2, <3>3
    <2> QED BY <2>1, <2>2, <2>3, <2>4, <2>5, <2>6, <2>7 DEF Next
  <1> QED BY <1>1, <1>2, PTL DEF Spec

\* Lemma: the repetitions of a result that contribute are some of its runs.
LEMMA ContributingIsNatural ==
  ASSUME StoreOK, NEW i \in 1 .. Len(results)
  PROVE  Contributing(i) \in Nat /\ Contributing(i) <= Len(results[i].runs)
  <1> DEFINE n == Len(results[i].runs)
             T == {j \in DOMAIN Kinds(i) : Kinds(i)[j].completed /\ ~MeasuredNothing(Kinds(i)[j])}
  <1>1. n \in Nat /\ DOMAIN Kinds(i) = 1 .. n
    BY StoredResults
  <1>2. T \in SUBSET (1 .. n) /\ Contributing(i) = Cardinality(T)
    BY <1>1 DEF Contributing
  <1> HIDE DEF T, n
  <1>3. IsFiniteSet(1 .. n) /\ Cardinality(1 .. n) = IF 1 > n THEN 0 ELSE n - 1 + 1
    BY <1>1, FS_Interval
  <1>4. IsFiniteSet(T) /\ Cardinality(T) <= Cardinality(1 .. n)
    BY <1>2, <1>3, FS_Subset
  <1>5. Cardinality(T) \in Nat
    BY <1>4, FS_CardinalityType
  <1> QED BY <1>1, <1>2, <1>3, <1>4, <1>5 DEF n

\* Lemma: where every repetition reported, every run of a result gives a sample of a metric.
LEMMA EveryRunIsASample ==
  ASSUME StoreOK, NEW i \in 1 .. Len(results), Reported(i), NEW m \in Metrics
  PROVE  Count(Samples(Whole(i), m)) = Len(results[i].runs)
  <1> DEFINE runs == results[i].runs
             side == Whole(i)
  <1>1. /\ Len(runs) \in Nat /\ DOMAIN runs = 1 .. Len(runs) /\ DOMAIN Kinds(i) = 1 .. Len(runs)
        /\ \A j \in 1 .. Len(runs) : Kinds(i)[j] = RunKinds[runs[j]]
    BY StoredResults
  <1>2. side.runs = runs
    BY DEF Whole
  <1>3. IsFiniteSet(1 .. Len(runs)) /\ Cardinality(1 .. Len(runs)) = Len(runs)
    <2> DEFINE n == Len(runs)
    <2> HIDE DEF runs
    <2>1. n \in Nat
      BY <1>1
    <2> HIDE DEF n
    <2>2. IsFiniteSet(1 .. n) /\ Cardinality(1 .. n) = IF 1 > n THEN 0 ELSE n - 1 + 1
      BY <2>1, FS_Interval
    <2>3. IsFiniteSet(1 .. n) /\ Cardinality(1 .. n) = n
      BY <2>1, <2>2
    <2> QED BY <2>3 DEF n
  <1>4. ASSUME NEW j \in 1 .. Len(runs) PROVE Sampled(RunKinds[runs[j]], m)
    <2>1. Kinds(i)[j] \in Range(Kinds(i))
      BY <1>1 DEF Range
    <2>2. RunKinds[runs[j]].spans /\ RunKinds[runs[j]].success # "unreported"
      BY <1>1, <2>1 DEF Reported
    <2> QED BY <2>2 DEF Sampled, MeasuredNothing
  <1>5. DOMAIN Samples(side, m) = 1 .. Len(runs)
    <2>1. DOMAIN Samples(side, m) = {j \in DOMAIN runs : Sampled(RunKinds[runs[j]], m)}
      BY <1>2 DEF Samples
    <2> HIDE DEF runs, side
    <2> QED BY <1>1, <1>4, <2>1
  <1> QED BY <1>3, <1>5 DEF Count

\* A plan can decide what its goal states, for any scenarios, faults, repetitions and results
\* and any limits with more results listed than read: who follows the plan that createGoal
\* stated gets a comparison of the baseline with its rerun that has the samples every criterion
\* needs (validationPlanFor, samplesRequiredFor and sideFromRun).
THEOREM PlansDecide == Spec => []PlanDecides
  <1>1. ASSUME PlanInv PROVE PlanDecides
    <2> DEFINE g == TheGoal
               b == g.baseline
               l == Len(results)
               n == Reran
    <2>1. SUFFICES ASSUME goal # <<>>, b # 0, followed = Len(Plan(g)), Reported(b),
                          \A i \in g.made + 1 .. l : Reported(i),
                          results[b].faults = Declared[results[b].scenario]
                   PROVE  LET x == compared[1].baseline y == compared[1].candidate
                          IN  /\ x.of = b /\ y.of > g.made /\ ~ConditionsDisagree(x, y)
                              /\ \A m \in g.metrics, side \in {x, y} : Count(Samples(side, m)) >= Required(m)
      BY DEF PlanDecides
    <2>2. StoreOK /\ GoalOK /\ BaselineOK /\ FollowedOK /\ HasBaseline
      BY <1>1, <2>1 DEF PlanInv, HasBaseline
    <2>3. g \in Goals /\ g.made <= l /\ b <= g.made
      BY <2>1, <2>2 DEF GoalOK, TheGoal
    <2>4. n \in Nat /\ g.made \in Nat /\ l \in Nat /\ b \in 1 .. l /\ g.metrics \in SUBSET Metrics /\ g.repetitions \in Nat
      BY <2>1, <2>2, <2>3, StoredResults DEF Goals, Reran
    <2>5. followed = n + 3
      BY <2>1, <2>3, PlanCommands DEF Reran
    <2>6. /\ results[b].scenario \in Scenario /\ n > 0 /\ g.scenarios[n] = results[b].scenario
          /\ \A m \in g.metrics : Contributing(b) >= Required(m) /\ g.repetitions >= Required(m)
      BY <2>2 DEF BaselineOK, ItsScenario
    <2>7. Rerun = n
      BY <2>4, <2>5 DEF Rerun
    <2>8. /\ l = g.made + n /\ compared = <<[baseline |-> Whole(b), candidate |-> Whole(l)]>>
          /\ \A k \in 1 .. n :
               /\ results[g.made + k].scenario = g.scenarios[k]
               /\ results[g.made + k].faults = Declared[g.scenarios[k]]
               /\ Len(results[g.made + k].runs) = g.repetitions
      BY <2>2, <2>4, <2>5, <2>7 DEF FollowedOK
    <2> HIDE DEF g, n, l, b
    <2>9. n \in 1 .. n /\ l \in 1 .. l /\ l \in g.made + 1 .. l /\ l > g.made
      BY <2>4, <2>6, <2>8
    <2>10. /\ results[l].scenario = results[b].scenario /\ results[l].faults = results[b].faults
           /\ Len(results[l].runs) = g.repetitions
      <3>1. results[g.made + n] = results[l]
        BY <2>8
      <3> QED BY <2>1, <2>6, <2>8, <2>9, <3>1
    <2>11. ASSUME NEW m \in g.metrics
           PROVE  Count(Samples(Whole(b), m)) >= Required(m) /\ Count(Samples(Whole(l), m)) >= Required(m)
      <3>1. m \in Metrics /\ Reported(l) /\ Reported(b)
        BY <2>1, <2>4, <2>9
      <3>2. Count(Samples(Whole(b), m)) = Len(results[b].runs)
        BY <2>2, <2>4, <3>1, EveryRunIsASample DEF l
      <3>3. Count(Samples(Whole(l), m)) = g.repetitions
        BY <2>2, <2>9, <2>10, <3>1, EveryRunIsASample DEF l
      <3>4. Contributing(b) >= Required(m) /\ g.repetitions >= Required(m)
        BY <2>6
      <3>5. Required(m) \in Nat
        BY SamplesAssumption DEF Required
      <3>6. /\ Len(results[b].runs) \in Nat /\ Contributing(b) \in Nat
            /\ Contributing(b) <= Len(results[b].runs)
        BY <2>2, <2>4, ContributingIsNatural, StoredResults DEF l
      <3> QED BY <2>4, <3>2, <3>3, <3>4, <3>5, <3>6
    <2> DEFINE x == compared[1].baseline
               y == compared[1].candidate
    <2>12. x = Whole(b) /\ y = Whole(l)
      BY <2>8
    <2>13. x.of = b /\ y.of = l /\ x.scenario = y.scenario /\ x.faults = y.faults
      BY <2>10, <2>12 DEF Whole
    <2>14. ~ConditionsDisagree(x, y)
      BY <2>13 DEF ConditionsDisagree
    <2>15. \A m \in g.metrics, side \in {x, y} : Count(Samples(side, m)) >= Required(m)
      BY <2>11, <2>12
    <2> QED BY <2>9, <2>13, <2>14, <2>15
  <1>2. PlanInv => PlanDecides
    BY <1>1
  <1> QED BY <1>2, PlanKept, PTL

==============================================================================
