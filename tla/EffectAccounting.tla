-------------------------- MODULE EffectAccounting --------------------------
(***************************************************************************)
(* How often a target changed the world, as Orchescope counts it from two  *)
(* incomplete accounts (packages/scenarios/src/effects.ts): the side       *)
(* effects in the spans of a run, and those the target lists in its result *)
(* file.  Here the target makes attempts one after another, each of which  *)
(* happens, fails, or ends without the target knowing, and each of which   *)
(* it records in either account, in both, or in none.                      *)
(***************************************************************************)
EXTENDS Naturals, Sequences, FiniteSets

CONSTANTS
  AttemptedEffects, \* kinds, targets and idempotency keys of attempts
  MaxAttempts       \* bound: how many attempts a target makes

\* An effect is its kind, its target and its key, and nothing else.
ASSUME EffectAssumption ==
  \A f \in AttemptedEffects : f = [kind |-> f.kind, target |-> f.target, key |-> f.key]

Outcomes == {"succeeded", "failed", "unknown"}

\* The attempts, with what became of each and where it was recorded.
VARIABLE attempts

NoKey == "none"

----------------------------------------------------------------------------
(* The two accounts: which attempts are recorded in each.                  *)

SpanEffects == {i \in DOMAIN attempts : attempts[i].inSpans}
ReportedEffects == {i \in DOMAIN attempts : attempts[i].inResult}

\* An attempt that failed changed nothing; one whose outcome is unknown may have.
Happened(a) == a.outcome # "failed"

\* effectKey: without an idempotency key, kind and target alone.
EffectKey(f) ==
  IF f.key = NoKey THEN [kind |-> f.kind, target |-> f.target]
  ELSE [kind |-> f.kind, target |-> f.target, key |-> f.key]

Keys == {EffectKey(f) : f \in AttemptedEffects}

\* countByKey, for one key.
CountOf(account, k) ==
  Cardinality({i \in account : Happened(attempts[i]) /\ EffectKey(attempts[i].effect) = k})

Smaller(m, n) == IF m < n THEN m ELSE n

Larger(m, n) == IF m < n THEN n ELSE m

Added(k) == CountOf(SpanEffects, k) + CountOf(ReportedEffects, k)

\* tallyEffects: of each key the larger of the two counts.
Occurrences(k) == Larger(CountOf(SpanEffects, k), CountOf(ReportedEffects, k))

\* What is counted: of each key a first, a second, ... up to its count.
Counted == UNION {{k} \X (1 .. Occurrences(k)) : k \in Keys}

TotalOccurrences == Cardinality(Counted)

DuplicateKeys == {k \in Keys : Occurrences(k) > 1}

\* Of each duplicate key all but one.
ExtraOccurrences == Cardinality(UNION {{k} \X (2 .. Occurrences(k)) : k \in DuplicateKeys})

----------------------------------------------------------------------------
(* The target.                                                             *)

AccountInit == attempts = <<>>

Attempt ==
  /\ Len(attempts) < MaxAttempts
  /\ \E f \in AttemptedEffects, o \in Outcomes, s, r \in BOOLEAN :
       attempts' = Append(attempts, [effect |-> f, outcome |-> o, inSpans |-> s, inResult |-> r])

AccountNext == Attempt

AccountSpec == AccountInit /\ [][AccountNext]_attempts

----------------------------------------------------------------------------
(* What the counts promise.                                                *)

Happenings == {i \in DOMAIN attempts : Happened(attempts[i])}
Truly(k) == CountOf(DOMAIN attempts, k)
Complete(account) == \A k \in Keys : CountOf(account, k) = Truly(k)

\* An effect that is recorded in both places is not two: whatever is recorded where, no key
\* is counted more often than it happened, so what is called a duplicate did happen twice,
\* and attempts that carry different idempotency keys are different effects.
NeverOvercounts ==
  /\ \A k \in Keys : Occurrences(k) <= Truly(k)
  /\ \A k \in DuplicateKeys : \E i, j \in DOMAIN attempts :
       /\ i # j /\ attempts[i].effect = attempts[j].effect
       /\ EffectKey(attempts[i].effect) = k

\* One complete account is enough, however little the other has.
CompleteAccountIsExact ==
  Complete(SpanEffects) \/ Complete(ReportedEffects) =>
    /\ TotalOccurrences = Cardinality(Happenings)
    /\ DuplicateKeys = {k \in Keys : Truly(k) > 1}
    /\ TotalOccurrences = ExtraOccurrences + Cardinality({EffectKey(attempts[i].effect) : i \in Happenings})

============================================================================
