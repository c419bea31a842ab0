------------------------------- MODULE WorkPool -------------------------------
(***************************************************************************)
(* What a bounded parallel section promises its caller, whoever does the   *)
(* work: the parallel sections of packages/domain/src/parallel.ts as the   *)
(* use cases see them.  Items are started in order, each once, never more  *)
(* than Limit at a time and never after a cancellation; the caller is      *)
(* answered once, with every result, or refused for a reason.              *)
(***************************************************************************)
EXTENDS Naturals, FiniteSets

CONSTANTS
  Item,      \* the items, numbered in order
  Limit      \* how many may be in progress

VARIABLES
  settling,  \* whether a failure of an item is a result
  stage,     \* waiting, started, a result, or dropped
  cancelled, \* whether the section has been called off
  answer     \* what the caller has

pool == <<settling, stage, cancelled, answer>>

Started == {i \in Item : stage[i] = "started"}
Refused == IF answer = "pending" THEN "rejected" ELSE answer

----------------------------------------------------------------------------

Init ==
  /\ settling \in BOOLEAN
  /\ stage = [i \in Item |-> "waiting"]
  /\ cancelled \in BOOLEAN
  /\ answer = "pending"

Cancel ==
  /\ cancelled' = TRUE
  /\ UNCHANGED <<settling, stage, answer>>

Start(i) ==
  /\ ~cancelled /\ stage[i] = "waiting"
  /\ \A j \in Item : j < i => stage[j] # "waiting"
  /\ stage' = [stage EXCEPT ![i] = "started"]
  /\ Cardinality(Started') <= Limit
  /\ UNCHANGED <<settling, cancelled, answer>>

Complete(i) ==
  /\ stage[i] = "started"
  /\ stage' = [stage EXCEPT ![i] = "value"]
  /\ UNCHANGED <<settling, cancelled, answer>>

\* A failure is a result, or it refuses the whole.
Break(i) ==
  /\ stage[i] = "started"
  /\ stage' = [stage EXCEPT ![i] = IF settling THEN "error" ELSE "dropped"]
  /\ answer' = IF settling THEN answer ELSE Refused
  /\ UNCHANGED <<settling, cancelled>>

\* An item whose turn comes after the cancellation.
Drop(i) ==
  /\ cancelled /\ stage[i] = "waiting"
  /\ stage' = [stage EXCEPT ![i] = "dropped"]
  /\ answer' = Refused
  /\ UNCHANGED <<settling, cancelled>>

Answer ==
  /\ answer = "pending" /\ \A i \in Item : stage[i] \in {"value", "error"}
  /\ answer' = "resolved"
  /\ UNCHANGED <<settling, stage, cancelled>>

Next ==
  \/ Cancel \/ Answer
  \/ \E i \in Item : Start(i) \/ Complete(i) \/ Break(i) \/ Drop(i)

Spec == Init /\ [][Next]_pool

============================================================================
