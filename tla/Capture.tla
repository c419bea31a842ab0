------------------------------ MODULE Capture ------------------------------
(***************************************************************************)
(* What collecting a trace promises, without exporters, requests or        *)
(* bundles: spans end in the target, some of them come to be held by the   *)
(* receiver, and at one moment the run takes what is held.  Nothing is     *)
(* taken that did not end, nothing held is left out, and what arrives      *)
(* later changes nothing.                                                  *)
(***************************************************************************)
CONSTANT Span

VARIABLES
  ended,   \* the spans the target has ended
  held,    \* the spans the receiver holds
  taken,   \* whether the run has been collected
  kept     \* the spans of the run

captureVars == <<ended, held, taken, kept>>

Init ==
  /\ ended = {} /\ held = {}
  /\ taken = FALSE /\ kept = {}

EndSpan ==
  /\ \E s \in Span \ ended : ended' = ended \cup {s}
  /\ UNCHANGED <<held, taken, kept>>

Receive ==
  /\ \E some \in SUBSET ended : held' = held \cup some
  /\ UNCHANGED <<ended, taken, kept>>

Take ==
  /\ ~taken
  /\ taken' = TRUE /\ kept' = held
  /\ UNCHANGED <<ended, held>>

Next == EndSpan \/ Receive \/ Take

Spec == Init /\ [][Next]_captureVars

============================================================================
