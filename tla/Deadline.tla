------------------------------ MODULE Deadline ------------------------------
(***************************************************************************)
(* A deadline (packages/domain/src/deadline.ts): a clock, a timer and the  *)
(* signal of a caller, joined in one signal by createDeadline.             *)
(*                                                                         *)
(* A timer fires at its time or later, in any order with other callbacks   *)
(* that are due.  Nothing in the repository calls withDeadline, and it is  *)
(* left out.                                                               *)
(***************************************************************************)
EXTENDS Naturals

CONSTANTS
  TimeoutMs,   \* the time the deadline is given
  MaxTime      \* bound: the clock stops here

ASSUME TimeAssumption == TimeoutMs \in Nat /\ MaxTime \in Nat

VARIABLES
  now,        \* the monotonic clock, zero when the deadline is made
  parent,     \* the caller's signal
  listening,  \* whether onParentAbort is registered with it
  timer,      \* the timer of the deadline
  signal,     \* the deadline's own signal: live, or what aborted it
  disposed    \* whether dispose was called

vars == <<now, parent, listening, timer, signal, disposed>>

----------------------------------------------------------------------------
(* Questions a caller may ask.                                             *)

Expired == now >= TimeoutMs

\* check: the error it raises, or none.
Check ==
  IF signal # "live" THEN "CANCELLED"
  ELSE IF Expired THEN "TIMEOUT" ELSE "none"

----------------------------------------------------------------------------

\* Invariant: the deadline and its timer; a timer that fired aborted the signal.
TypeOK ==
  /\ now \in 0 .. MaxTime
  /\ parent \in {"live", "aborted"}
  /\ listening \in BOOLEAN /\ disposed \in BOOLEAN
  /\ timer \in {"armed", "fired", "cleared"}
  /\ signal \in {"live", "timeout", "parent"}
  /\ timer = "fired" => signal # "live"

\* createDeadline, with a signal that may be aborted already.
Init ==
  /\ now = 0 /\ timer = "armed" /\ disposed = FALSE
  /\ parent \in {"live", "aborted"}
  /\ listening = (parent = "live")
  /\ signal = IF parent = "live" THEN "live" ELSE "parent"

----------------------------------------------------------------------------

\* Time passes.
Tick ==
  /\ now < MaxTime
  /\ now' = now + 1
  /\ UNCHANGED <<parent, listening, timer, signal, disposed>>

\* The caller gives up; a listener that is registered passes it on, once.
ParentAborts ==
  /\ parent = "live"
  /\ parent' = "aborted" /\ listening' = FALSE
  /\ signal' = IF listening /\ signal = "live" THEN "parent" ELSE signal
  /\ UNCHANGED <<now, timer, disposed>>

\* controller.abort does nothing when the signal was aborted before.
TimerFires ==
  /\ timer = "armed" /\ Expired
  /\ timer' = "fired"
  /\ signal' = IF signal = "live" THEN "timeout" ELSE signal
  /\ UNCHANGED <<now, parent, listening, disposed>>

Dispose ==
  /\ ~disposed
  /\ disposed' = TRUE /\ listening' = FALSE
  /\ timer' = IF timer = "armed" THEN "cleared" ELSE timer
  /\ UNCHANGED <<now, parent, signal>>

----------------------------------------------------------------------------

Next == Tick \/ ParentAborts \/ TimerFires \/ Dispose

Spec == Init /\ [][Next]_vars

============================================================================
