--------------------------- MODULE MCValidationPlan ---------------------------
(***************************************************************************)
(* Instances of ValidationPlan: a scenario without faults and one with,    *)
(* and runs that covered more or less of what the finding names, ended     *)
(* early, reported no outcome, or measured nothing.                        *)
(***************************************************************************)
EXTENDS ValidationPlan

CONSTANTS plain, faulty, unscripted

MCDeclared == [s \in {plain, faulty} |-> IF s = faulty THEN "all" ELSE "none"]
MCSingleFault == [s \in {plain, faulty} |-> "one"]

Kind(completed, spans, success, duration, duplicates, covers) ==
  [completed |-> completed, spans |-> spans, success |-> success, duration |-> duration,
   duplicates |-> duplicates, covers |-> covers]

MCRunKinds == <<
  Kind(TRUE, TRUE, "yes", 2, 1, 2),
  Kind(TRUE, TRUE, "yes", 1, 0, 1),
  Kind(FALSE, TRUE, "unreported", 2, 0, 1),
  Kind(TRUE, FALSE, "unreported", 0, 0, 0)>>

MCBatches == {<<1>>, <<1, 1>>, <<2, 2>>, <<2, 3>>, <<4, 4>>}
MCBatchesDisordered == {<<1, 1>>, <<2, 2>>}

\* Once a command out of the plan was given, no later state has followed the plan.
OnPlan == followed # -1

===============================================================================
