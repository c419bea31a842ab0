---------------------- MODULE SupervisedProcessProofs ----------------------
(***************************************************************************)
(* The safety properties of SupervisedProcess for every ceiling and every  *)
(* size of chunk.  That runs end is liveness and stays with TLC.           *)
(***************************************************************************)
EXTENDS SupervisedProcess, TLAPS

\* NothingLeftBehind and TruncationIsReported are inductive together with the types:
\* only the armed timeout and the registered listener can abort, and what is kept never
\* exceeds what arrived.
IInv == TypeOK /\ kept <= produced /\ TruncationIsReported /\ NothingLeftBehind

\* Lemma: abort leaves the signals, the timer and the flag of the controller typed.
LEMMA AbortTyped ==
  ASSUME TypeOK, Abort
  PROVE  /\ aborted' \in BOOLEAN /\ killTimer' \in Timer
         /\ signals' \subseteq {"stop", "kill"}
  BY DEF TypeOK, Abort, KillTimerOnAbort, Timer

\* Lemma: a chunk keeps the account of what was dropped.
LEMMA ChunkKeepsAccount ==
  ASSUME IInv, NEW n \in ChunkSizes, OutputArrives(n)
  PROVE  IInv'
  <1>1. n \in Nat /\ n > 0
    BY OutputAssumption
  <1>2. /\ kept \in 0 .. MaxOutputBytes /\ produced \in Nat /\ MaxOutputBytes \in Nat
        /\ kept <= produced /\ truncated \in BOOLEAN
    BY OutputAssumption DEF IInv, TypeOK
  <1>3. CASE n > MaxOutputBytes - kept
    <2>1. kept' = MaxOutputBytes /\ truncated' = TRUE /\ produced' = produced + n
      BY <1>3 DEF OutputArrives, KeptAfter, TruncatedAfter
    <2>2. MaxOutputBytes < produced + n
      BY <1>1, <1>2, <1>3
    <2> QED
      BY <1>1, <1>2, <2>1, <2>2, OutputAssumption
         DEF IInv, TypeOK, OutputArrives, TruncationIsReported, NothingLeftBehind,
             world, flags, output
  <1>4. CASE ~(n > MaxOutputBytes - kept)
    <2>1. kept' = kept + n /\ truncated' = truncated /\ produced' = produced + n
      BY <1>1, <1>2, <1>4 DEF OutputArrives, KeptAfter, TruncatedAfter
    <2>2. ~truncated
      BY <1>1, <1>2, <1>4 DEF IInv, TruncationIsReported
    <2>3. kept + n \in 0 .. MaxOutputBytes /\ kept + n <= produced + n
          /\ (kept < produced <=> kept + n < produced + n)
      BY <1>1, <1>2, <1>4
    <2> QED
      BY <1>1, <1>2, <2>1, <2>2, <2>3, OutputAssumption
         DEF IInv, TypeOK, OutputArrives, TruncationIsReported, NothingLeftBehind,
             world, flags, output
  <1> QED
    BY <1>3, <1>4

\* Theorem: the strengthened invariant, and with it the types.
THEOREM Invariance == Spec => []IInv
  <1>1. Init => IInv
    <2> SUFFICES ASSUME Init PROVE IInv
      OBVIOUS
    <2>1. TypeOK
      <3>1. produced \in 0 .. MaxProduced /\ kept \in 0 .. MaxOutputBytes
        BY OutputAssumption DEF Init
      <3>2. /\ listening \in BOOLEAN /\ aborted \in BOOLEAN /\ timedOut \in BOOLEAN
            /\ cancelled \in BOOLEAN /\ spawnError \in BOOLEAN /\ truncated \in BOOLEAN
        BY Zenon DEF Init
      <3> QED
        BY <3>1, <3>2 DEF Init, TypeOK, Timer
    <2>2. kept <= produced /\ TruncationIsReported /\ NothingLeftBehind
      BY DEF Init, TruncationIsReported, NothingLeftBehind
    <2> QED
      BY <2>1, <2>2 DEF IInv
  <1>2. IInv /\ [Next]_vars => IInv'
    <2> SUFFICES ASSUME IInv, [Next]_vars PROVE IInv'
      OBVIOUS
    <2> USE DEF IInv, TypeOK, Timer, TruncationIsReported, NothingLeftBehind, world, flags, output
    <2>1. CASE Refuse
      BY <2>1 DEF Refuse
    <2>2. CASE Start
      BY <2>2, ZenonT(40) DEF Start
    <2>3. CASE TargetStartsHelper
      BY <2>3 DEF TargetStartsHelper
    <2>4. CASE HelperExits
      BY <2>4 DEF HelperExits
    <2>5. CASE TargetEnds
      BY <2>5 DEF TargetEnds
    <2>6. CASE Reap
      BY <2>6 DEF Reap
    <2>7. CASE \E n \in ChunkSizes : OutputArrives(n)
      BY <2>7, ChunkKeepsAccount
    <2>8. CASE TimeoutFires
      BY <2>8, AbortTyped DEF TimeoutFires
    <2>9. CASE ParentAborts
      <3>1. CASE listening /\ listening' = FALSE /\ cancelled' = TRUE /\ Abort
        <4>1. listening' \in BOOLEAN /\ cancelled' \in BOOLEAN
          BY <3>1, Zenon
        <4>2. call \notin {"settled", "failed"}
          BY <3>1, Zenon
        <4>3. TypeOK'
          BY <2>9, <3>1, <4>1, AbortTyped DEF ParentAborts
        <4> QED
          BY <2>9, <4>2, <4>3 DEF ParentAborts
      <3>2. CASE ~listening /\ UNCHANGED <<listening, cancelled, aborted, signals, killTimer>>
        BY <2>9, <3>2 DEF ParentAborts
      <3> QED
        BY <2>9, <3>1, <3>2 DEF ParentAborts
    <2>10. CASE KillTimerFires
      BY <2>10 DEF KillTimerFires
    <2>11. CASE Close
      <3>1. listening' \in BOOLEAN /\ ~listening'
        BY <2>11, Zenon DEF Close
      <3>2. timeout' \in {"off", "fired"} /\ killTimer' \in {"off", "fired"}
        BY <2>11 DEF Close, Cleared, KillTimerCleared
      <3>3. call' \in {"failed", "settled"}
        BY <2>11 DEF Close
      <3>4. TypeOK'
        BY <2>11, <3>1, <3>2, <3>3 DEF Close
      <3> QED
        BY <2>11, <3>1, <3>2, <3>4 DEF Close
    <2>12. CASE UNCHANGED vars
      BY <2>12 DEF vars
    <2> QED
      BY <2>1, <2>2, <2>3, <2>4, <2>5, <2>6, <2>7, <2>8, <2>9, <2>10, <2>11, <2>12
         DEF Next, TargetExits, SignalEndsTarget
  <1> QED
    BY <1>1, <1>2, PTL DEF Spec

\* Theorem: a call that is over leaves no timer and no listener behind, whichever of exit,
\* timeout and cancellation came first.
THEOREM Supervised == Spec => []NothingLeftBehind
  <1>1. IInv => NothingLeftBehind
    BY DEF IInv
  <1> QED
    BY <1>1, Invariance, PTL

\* Theorem: for every ceiling and every size of chunk, what was dropped from the output is
\* exactly what is reported, and only what is over the ceiling is dropped.
THEOREM TruncationHonest == Spec => []TruncationIsReported
  <1>1. IInv => TruncationIsReported
    BY DEF IInv
  <1> QED
    BY <1>1, Invariance, PTL

\* Theorem: SIGKILL is never sent to a process whose exit Node has seen.
THEOREM NeverKillsReaped == Spec => NoKillAfterExit
  <1>1. [Next]_vars => [target = "reaped" => "kill" \notin signals' \ signals]_vars
    BY DEF Next, vars, Refuse, Start, TargetStartsHelper, HelperExits, TargetExits, TargetEnds,
           SignalEndsTarget, Reap, OutputArrives, TimeoutFires, ParentAborts, Abort,
           KillTimerFires, StillRunning, Close, world, flags, output
  <1> QED
    BY <1>1, PTL DEF Spec, NoKillAfterExit
============================================================================
