------------------------- MODULE SupervisedProcess -------------------------
(***************************************************************************)
(* One call of runProcess (packages/runtime/src/process.ts): a target is   *)
(* spawned without a shell, its output is captured up to a ceiling, and it *)
(* is stopped by a signal and then by SIGKILL when its time is up or when  *)
(* the caller's deadline is cancelled.                                     *)
(*                                                                         *)
(* The actors are runProcess, the event loop with its timers, the kernel,  *)
(* the target, the caller, and a process the target may start, which then  *)
(* holds the pipes of the target's output.  The two output streams are     *)
(* treated alike, so one stands for both.                                  *)
(***************************************************************************)
EXTENDS Naturals

CONSTANTS
  MaxOutputBytes,  \* the ceiling on what is kept of a stream
  ChunkSizes,      \* lengths of the chunks a stream delivers
  MaxProduced      \* bound: length of everything the stream delivers

ASSUME OutputAssumption ==
  /\ MaxOutputBytes \in Nat /\ MaxProduced \in Nat
  /\ ChunkSizes \subseteq Nat \ {0}

VARIABLES
  call,        \* where runProcess is
  target,      \* the process: dead is ended, reaped is seen to have ended by Node
  stubborn,    \* whether the target ignores the stop signal
  helper,      \* the process that the target started
  signals,     \* signals sent to the target that have not taken effect
  parent,      \* the deadline's signal: live or aborted
  listening,   \* whether onParentAbort is registered on it
  aborted,     \* whether controller has been aborted
  timeout,     \* the timer of timeoutMs
  killTimer,   \* the timer of killAfterMs
  timedOut, cancelled, spawnError,
  produced, kept, truncated

flags == <<timedOut, cancelled, spawnError>>
output == <<produced, kept, truncated>>
world == <<target, stubborn, helper>>
vars == <<call, world, signals, parent, listening, aborted, timeout, killTimer, flags, output>>

Timer == {"off", "armed", "fired"}

\* Invariant: the state runProcess and the process are in.
TypeOK ==
  /\ call \in {"calling", "refused", "awaiting", "settled", "failed"}
  /\ target \in {"none", "running", "dead", "reaped"}
  /\ helper \in {"none", "running", "gone"}
  /\ signals \subseteq {"stop", "kill"}
  /\ parent \in {"live", "aborted"}
  /\ timeout \in Timer /\ killTimer \in Timer
  /\ stubborn \in BOOLEAN /\ listening \in BOOLEAN /\ aborted \in BOOLEAN
  /\ timedOut \in BOOLEAN /\ cancelled \in BOOLEAN /\ spawnError \in BOOLEAN
  /\ truncated \in BOOLEAN
  /\ produced \in 0 .. MaxProduced /\ kept \in 0 .. MaxOutputBytes

Init ==
  /\ call = "calling" /\ target = "none" /\ helper = "none" /\ signals = {}
  /\ stubborn \in BOOLEAN
  /\ parent = "live" /\ listening = FALSE /\ aborted = FALSE
  /\ timeout = "off" /\ killTimer = "off"
  /\ timedOut = FALSE /\ cancelled = FALSE /\ spawnError = FALSE
  /\ produced = 0 /\ kept = 0 /\ truncated = FALSE

----------------------------------------------------------------------------
(* Starting.                                                               *)

\* The allow list, or deadline.check on an aborted signal, refuses the call.
Refuse ==
  /\ call = "calling"
  /\ call' = "refused"
  /\ UNCHANGED <<world, signals, parent, listening, aborted, timeout, killTimer, flags, output>>

\* spawn, the listeners and the timeout, all before the first await.
Start ==
  /\ call = "calling" /\ parent = "live"
  /\ call' = "awaiting"
  /\ listening' = TRUE /\ timeout' = "armed"
  /\ \/ target' = "running" /\ spawnError' = FALSE
     \/ target' = "reaped" /\ spawnError' = TRUE
  /\ UNCHANGED <<stubborn, helper, signals, parent, aborted, killTimer, timedOut, cancelled, output>>

----------------------------------------------------------------------------
(* The target and what it starts.                                          *)

TargetStartsHelper ==
  /\ target = "running" /\ helper = "none"
  /\ helper' = "running"
  /\ UNCHANGED <<call, target, stubborn, signals, parent, listening, aborted, timeout, killTimer,
                 flags, output>>

HelperExits ==
  /\ helper = "running"
  /\ helper' = "gone"
  /\ UNCHANGED <<call, target, stubborn, signals, parent, listening, aborted, timeout, killTimer,
                 flags, output>>

TargetEnds ==
  /\ target = "running"
  /\ target' = "dead"
  /\ UNCHANGED <<call, stubborn, helper, signals, parent, listening, aborted, timeout, killTimer,
                 flags, output>>

\* It may end by itself at any time, and need not.
TargetExits == TargetEnds

\* A stop signal ends a target that does not ignore it; SIGKILL ends any.
SignalEndsTarget ==
  /\ "kill" \in signals \/ ("stop" \in signals /\ ~stubborn)
  /\ TargetEnds

\* Node sees the exit: exitCode or signalCode is set and event exit is emitted.
Reap ==
  /\ target = "dead"
  /\ target' = "reaped" /\ signals' = {}
  /\ UNCHANGED <<call, stubborn, helper, parent, listening, aborted, timeout, killTimer, flags, output>>

----------------------------------------------------------------------------
(* Output.                                                                 *)

\* A definition without a comment is what the next one would be with a mistake.
TruncatedAtTheCeiling(n) == truncated \/ kept >= MaxOutputBytes

\* append: a chunk is cut to the room left, and what is dropped is remembered.
TruncatedAfter(n) == truncated \/ kept >= MaxOutputBytes \/ n > MaxOutputBytes - kept

KeptAfter(n) == IF n > MaxOutputBytes - kept THEN MaxOutputBytes ELSE kept + n

\* A chunk that somebody wrote to the pipe, perhaps before it died, is delivered.
OutputArrives(n) ==
  /\ call = "awaiting" /\ ~spawnError
  /\ produced + n <= MaxProduced
  /\ produced' = produced + n
  /\ kept' = KeptAfter(n) /\ truncated' = TruncatedAfter(n)
  /\ UNCHANGED <<call, world, signals, parent, listening, aborted, timeout, killTimer, flags>>

----------------------------------------------------------------------------
(* Stopping.                                                               *)

NoKillTimer == "off"

KillTimerOnAbort == "armed"

\* controller.abort: Node sends the stop signal unless it has seen the exit, and the
\* listener of runProcess starts the grace period.  A second abort does nothing.
Abort ==
  /\ aborted' = TRUE
  /\ signals' = IF aborted \/ target = "reaped" THEN signals ELSE signals \cup {"stop"}
  /\ killTimer' = IF aborted THEN killTimer ELSE KillTimerOnAbort

TimeoutFires ==
  /\ timeout = "armed"
  /\ timeout' = "fired" /\ timedOut' = TRUE
  /\ Abort
  /\ UNCHANGED <<call, world, parent, listening, cancelled, spawnError, output>>

\* The caller cancels, or the deadline's own timer aborts its signal.
ParentAborts ==
  /\ parent = "live"
  /\ parent' = "aborted"
  /\ \/ /\ listening
        /\ listening' = FALSE /\ cancelled' = TRUE
        /\ Abort
     \/ /\ ~listening
        /\ UNCHANGED <<listening, cancelled, aborted, signals, killTimer>>
  /\ UNCHANGED <<call, world, timeout, timedOut, spawnError, output>>

AlwaysKill == TRUE

\* child.exitCode === null && child.signalCode === null
StillRunning == target # "reaped"

KillTimerFires ==
  /\ killTimer = "armed"
  /\ killTimer' = "fired"
  /\ signals' = IF StillRunning THEN signals \cup {"kill"} ELSE signals
  /\ UNCHANGED <<call, world, parent, listening, aborted, timeout, flags, output>>

Cleared(timer) == IF timer = "armed" THEN "off" ELSE timer

KillTimerLeft == killTimer

KillTimerCleared == Cleared(killTimer)

\* Event close: the target has exited and nobody holds its pipes.  The timers and the
\* listener are removed before the outcome is returned or the spawn error is thrown.
Close ==
  /\ call = "awaiting" /\ target = "reaped" /\ helper # "running"
  /\ call' = IF spawnError THEN "failed" ELSE "settled"
  /\ timeout' = Cleared(timeout) /\ killTimer' = KillTimerCleared
  /\ listening' = FALSE
  /\ UNCHANGED <<world, signals, parent, aborted, flags, output>>

----------------------------------------------------------------------------
(* The specification.                                                      *)

Next ==
  \/ Refuse \/ Start
  \/ TargetStartsHelper \/ HelperExits \/ TargetExits \/ SignalEndsTarget \/ Reap
  \/ \E n \in ChunkSizes : OutputArrives(n)
  \/ TimeoutFires \/ ParentAborts \/ KillTimerFires \/ Close

\* Timers fire, the kernel delivers signals and reports exits, and the event loop
\* runs.  Nothing makes a target or what it started exit by itself.
Fairness ==
  /\ WF_vars(TimeoutFires) /\ WF_vars(KillTimerFires)
  /\ WF_vars(SignalEndsTarget) /\ WF_vars(Reap) /\ WF_vars(Close)

Spec == Init /\ [][Next]_vars /\ Fairness

----------------------------------------------------------------------------
(* What supervision promises.                                              *)

\* "output is captured with a byte ceiling ... degrades to truncated output": however the
\* chunks fall, outputTruncated is reported exactly when something was dropped, and only
\* what is over the ceiling is dropped.
TruncationIsReported ==
  /\ truncated <=> kept < produced
  /\ truncated => kept = MaxOutputBytes

\* A call that is over leaves nothing behind that could fire later, whichever of exit,
\* timeout and cancellation came first.
NothingLeftBehind ==
  call \in {"settled", "failed"} =>
    timeout # "armed" /\ killTimer # "armed" /\ ~listening

\* SIGKILL is never sent once Node has seen the exit, when the process number may
\* already be another's, even though the grace period outlives the target.
NoKillAfterExit == [][target = "reaped" => "kill" \notin signals' \ signals]_vars

\* Every call ends, whatever the target does with signals and output, unless something
\* the target started is left holding the pipes.
RunEndsUnlessHeld == call = "awaiting" ~> call # "awaiting" \/ helper = "running"

\* "a target that ignores SIGTERM cannot hold a run open forever" (process.ts:15-16).
TargetCannotHoldRunOpen == call = "awaiting" ~> call # "awaiting"

============================================================================
