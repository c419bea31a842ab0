--------------------------- MODULE ComparisonSides ---------------------------
(***************************************************************************)
(* The two sides of a comparison (packages/usecases/src/compare.ts), their *)
(* findings and their runs, and what a verdict promises of them.           *)
(***************************************************************************)
EXTENDS Comparison

CONSTANTS
  Scans,           \* what a side may know of findings: no list, or one
  ScansWithRuns,   \* the ones of them a side that has runs may have
  MaxRuns          \* bound: runs of one side

\* A scan is of one build, and reports one finding for a claim.
OfOneScan(fs) ==
  /\ fs \in Seq(Finding)
  /\ \A i, j \in DOMAIN fs :
       fs[i].semantic = fs[j].semantic /\ (i # j => ~SameClaim(fs[i], fs[j]))

ASSUME ScanAssumption ==
  \A scan \in Scans : scan # <<>> => scan = <<scan[1]>> /\ OfOneScan(scan[1])

\* The two sides, each with its runs and its findings.
VARIABLE sides

Sides == {"baseline", "candidate"}

------------------------------------------------------------------------------
(* The inputs: two scans, and runs added to either side.                   *)

SidesInit ==
  \E f \in [Sides -> Scans] : sides = [s \in Sides |-> [runs |-> <<>>, scan |-> f[s]]]

\* Runs are taken in order of their numbers: a verdict does not depend on the order.
AddRun(s) ==
  /\ \A t \in Sides : sides[t].scan \in ScansWithRuns
  /\ Len(sides[s].runs) < MaxRuns
  /\ \E k \in DOMAIN RunKinds :
       /\ \A i \in DOMAIN sides[s].runs : sides[s].runs[i] <= k
       /\ sides' = [sides EXCEPT ![s].runs = Append(@, k)]

SidesNext == \E s \in Sides : AddRun(s)

SidesSpec == SidesInit /\ [][SidesNext]_sides

------------------------------------------------------------------------------
(* What a verdict promises.                                                *)

\* A strength may grow in scale and lose in severity, which counts as better both ways.
TradesOff(f, g) ==
  /\ f.strength
  /\ \/ f.scale > g.scale /\ f.severity < g.severity
     \/ f.scale < g.scale /\ f.severity > g.severity

\* The findings of both sides, when both have been scanned.
Compares(P(_, _)) ==
  sides["baseline"].scan # <<>> /\ sides["candidate"].scan # <<>> =>
    \A f \in Range(sides["baseline"].scan[1]), g \in Range(sides["candidate"].scan[1]) : P(f, g)

\* A verdict has a sense: nothing is better or worse than itself, and what is an improvement
\* one way is a regression the other, whatever the sample sizes of the two sides, whichever
\* metrics could be called, and whether metrics or findings decided.  Against findings of a
\* build without keys, it is at least no improvement.
VerdictIsOriented ==
  LET b == sides["baseline"] c == sides["candidate"]
  IN  /\ \A s \in {b, c} : Verdict(s, s) \in {"unchanged", "insufficient_evidence"}
      /\ \A there \in {Verdict(b, c)}, back \in {Verdict(c, b)} :
           there = "improved" /\ Compares(LAMBDA f, g : ~TradesOff(f, g)) =>
             /\ back # "improved"
             /\ Compares(LAMBDA f, g : f.semantic /\ g.semantic) => back = "regressed"

==============================================================================
