------------------------------ MODULE GoalLoop ------------------------------
(***************************************************************************)
(* The improvement loop of Orchescope over one project store:              *)
(*                                                                         *)
(*    audit --> goal create --> (the change) --> audit --> compare         *)
(*          --> goal review --> goal validate                              *)
(*                                                                         *)
(* The actors are calls of the use cases (packages/usecases/src/goal.ts,   *)
(* audit.ts and compare.ts) against one SQLite store.  A call runs on a    *)
(* host, an operating system process: one command of the command line, or  *)
(* the MCP server, which serves several calls.  Use cases are synchronous  *)
(* between awaits, so calls of one host interleave only while an audit     *)
(* waits inside discover.  Calls on different hosts interleave at every    *)
(* SQL statement or transaction, which is one action here.                 *)
(*                                                                         *)
(* The project is one without a recorded scenario, which                   *)
(* docs/architecture/goal-lifecycle.md calls the normal case: a goal's     *)
(* criteria are finding_resolved and, where the finding asks for it,       *)
(* manual_review, and its comparison is of one scan with another.          *)
(***************************************************************************)
EXTENDS Naturals, Sequences, FiniteSets

CONSTANTS
  Call,          \* calls of the use cases that can be in progress at a time
  Host,          \* processes that have the store open
  host,          \* host[c] is the process that call c runs in
  Finding,       \* semantic identities of the risks the rules can report
  NeedsReview,   \* findings whose goalReadiness.requiresHumanReview is set
  MaxGoals,      \* bound: goals that can be stored
  MaxPadded,     \* the largest number goalId pads to four digits: 9999
  MaxTime,       \* bound: ticks of the clock
  MaxScans,      \* bound: audits that finish discovery
  MaxEdits,      \* bound: changes made to the repository
  MaxCompares,   \* bound: comparisons stored when a caller asks for one more
  MaxReviews,    \* bound: reviews recorded on one goal
  MaxCrashes,    \* bound: crashes of a host
  NamesComparison \* whether a caller of validate passes --comparison

ASSUME HostAssumption == host \in [Call -> Host]

ASSUME FindingAssumption == NeedsReview \subseteq Finding

ASSUME BoundAssumption ==
  /\ MaxPadded \in Nat /\ MaxGoals \in Nat
  /\ MaxTime \in Nat /\ MaxScans \in Nat /\ MaxEdits \in Nat
  /\ MaxCompares \in Nat /\ MaxReviews \in Nat /\ MaxCrashes \in Nat
  /\ NamesComparison \in BOOLEAN

VARIABLES
  now,           \* the wall clock, in the milliseconds a timestamp can tell apart
  tree,          \* the findings that the repository as it stands would report
  edits,         \* how often the repository has changed
  scans,         \* scan rows in rowid order, each with its rows of table finding
  goals,         \* table goal: goals[n] is OSC-GOAL-n, or NoGoal
  comparisons,   \* table comparison
  op,            \* op[c] is what call c is doing and holds
  crashes        \* how often a host has died

vars == <<now, tree, edits, scans, goals, comparisons, op, crashes>>

----------------------------------------------------------------------------
(* Data.                                                                   *)

\* The number in an identifier OSC-GOAL-n.
GoalId == 1 .. MaxGoals

NoGoal == [status |-> "none"]

NoComparison == [verdict |-> "none"]

Verdict == {"improved", "regressed", "mixed", "unchanged"}

\* comparisonId hashes the two references and the time of creation.
ComparisonId == [baseline : Nat, candidate : Nat, at : Nat]

\* One entry of a goal's validationResults.
Result == [id : ComparisonId, verdict : Verdict]

Goal ==
  [finding : Finding, baseline : Nat, createdAt : Nat,
   status : {"ready", "in_progress", "validated"},
   reviews : Nat, results : SUBSET Result]

\* A comparison row: the goal_id column and the document, which names a goal too.
ComparisonRow ==
  [id : ComparisonId, goal : GoalId, names : GoalId, verdict : Verdict]

\* A scan row.  fired is what the rules concluded from that scan, held by the
\* audit; findings is what table finding holds for the scan.
ScanRow == [at : Nat, fired : SUBSET Finding, findings : SUBSET Finding]

\* The point a call has reached: the statement it executes next.
Pc == {"idle", "parsing", "saveScan", "saveFindings", "listGoals", "judge",
       "compare", "compareRead", "compareSave",
       "createFind", "createLook", "createNumber", "createSave", "reviewSave", "validateScan",
       "validateFindings", "validateLook", "validateJudge", "validateSave", "validateKeep"}

OpState ==
  [pc : Pc, at : Nat, scan : Nat, found : SUBSET Finding,
   goal : Nat, doc : Goal \cup {NoGoal}, another : BOOLEAN,
   pending : SUBSET [id : GoalId, doc : Goal],
   cand : Nat, then : Pc, made : Result \cup {NoComparison},
   evidence : Result \cup {NoComparison}]

Idle ==
  [pc |-> "idle", at |-> 0, scan |-> 0, found |-> {},
   goal |-> 0, doc |-> NoGoal, another |-> FALSE, pending |-> {},
   cand |-> 0, then |-> "idle", made |-> NoComparison,
   evidence |-> NoComparison]

\* Invariant: every table, and everything a call holds, has the shape the schemas
\* of packages/schema give it.
TypeOK ==
  /\ now \in Nat /\ edits \in Nat /\ crashes \in Nat
  /\ tree \in SUBSET Finding
  /\ scans \in Seq(ScanRow)
  /\ goals \in [GoalId -> Goal \cup {NoGoal}]
  /\ comparisons \in SUBSET ComparisonRow
  /\ op \in [Call -> OpState]

----------------------------------------------------------------------------
(* Reading the store.                                                      *)

\* latestScan: ORDER BY created_at DESC, rowid DESC LIMIT 1.
IsLatestScan(s) ==
  /\ s \in DOMAIN scans
  /\ \A t \in DOMAIN scans :
        \/ scans[t].at < scans[s].at
        \/ scans[t].at = scans[s].at /\ t <= s

\* Here and below, a definition without a comment is what the one after it would be
\* with a plausible mistake in the code.
AnyScanHolds(s, f) == \E t \in DOMAIN scans : f \in scans[t].findings

\* findingById(scanId, findingId).
ScanHolds(s, f) == f \in scans[s].findings

Stored(g) == goals[g] # NoGoal

\* parseGoalSequence reads back only the identifiers with four digits.
Parseable(g) == g <= MaxPadded

IsNextByLatestGoal(n) ==
  \/ n = 1 /\ \A g \in GoalId : ~Stored(g)
  \/ /\ n \in GoalId /\ Stored(n)
     /\ \A g \in GoalId : Stored(g) => g <= n

\* nextGoalSequence: one more than the highest identifier it can parse.
IsNextGoalSequence(n) ==
  /\ \A g \in GoalId : Stored(g) /\ Parseable(g) => g < n
  /\ n = 1 \/ \E g \in GoalId : Stored(g) /\ Parseable(g) /\ n = g + 1

OpenStatus == {"ready", "in_progress"}

HasUnstartedGoal(f) ==
  \E g \in GoalId : Stored(g) /\ goals[g].finding = f /\ goals[g].status = "ready"

\* openGoalForFinding over listGoals.
HasOpenGoal(f) ==
  \E g \in GoalId : Stored(g) /\ goals[g].finding = f /\ goals[g].status \in OpenStatus

\* latestComparisonForGoal(goal.id, goal.createdAt): newest first, LIMIT 1.
IsRecordedComparison(r, g, notBefore) ==
  /\ r \in comparisons /\ r.goal = g /\ r.id.at >= notBefore
  /\ \A q \in comparisons :
        q.goal = g /\ q.id.at >= notBefore => q.id.at <= r.id.at

HasRecordedComparison(g, notBefore) ==
  \E r \in comparisons : r.goal = g /\ r.id.at >= notBefore

\* comparisonForGoal makes the comparison when none is recorded, unless the latest
\* scan is still the one the goal was cut from.
MakesComparison(g, doc) ==
  ~HasRecordedComparison(g, doc.createdAt) /\ ~IsLatestScan(doc.baseline)

----------------------------------------------------------------------------
(* Decisions.                                                              *)

\* decideVerdict for two scans: verdictFromFindings over the set differences.
FindingVerdict(before, after) ==
  LET resolved == before \ after
      introduced == after \ before
  IN  CASE resolved = {} /\ introduced = {} -> "unchanged"
        [] resolved # {} /\ introduced # {} -> "mixed"
        [] resolved = {} /\ introduced # {} -> "regressed"
        [] resolved # {} /\ introduced = {} -> "improved"

\* The goal document createGoal builds.
NewGoal(f, s) ==
  [finding |-> f, baseline |-> s, createdAt |-> 0, status |-> "ready",
   reviews |-> 0, results |-> {}]

AttestationIgnored(doc) == TRUE

\* manualReviewOutcome: satisfied once a review is recorded.
ReviewSatisfied(doc) == doc.finding \in NeedsReview => doc.reviews > 0

\* findingResolvedOutcome: decided against the findings of the latest scan.
FindingResolved(doc, found) == doc.finding \notin found

AnyCriterionSatisfied(doc, found) ==
  FindingResolved(doc, found) \/ doc.reviews > 0

\* validateGoal: every criterion is satisfied.
Validated(doc, found) == FindingResolved(doc, found) /\ ReviewSatisfied(doc)

RejectedOrValidated(doc, found) ==
  IF Validated(doc, found) THEN "validated" ELSE "rejected"

StatusAfter(doc, found) ==
  IF Validated(doc, found) THEN "validated" ELSE "in_progress"

OnlyThisResult(doc, evidence) == {evidence} \ {NoComparison}

\* A comparison that already judged the goal is not listed twice.
ResultsAfter(doc, evidence) ==
  IF evidence = NoComparison \/ \E r \in doc.results : r.id = evidence.id
  THEN doc.results
  ELSE doc.results \cup {evidence}

----------------------------------------------------------------------------
(* Scheduling.                                                             *)

\* A call runs until it awaits; only discover awaits.
Yielded == {"idle", "parsing"}

MayRun(c) ==
  \A d \in Call : d # c /\ host[d] = host[c] => op[d].pc \in Yielded

At(c, pc) == op[c].pc = pc /\ MayRun(c)

\* The store tables, for steps that only read them.
tables == <<scans, goals, comparisons>>

world == <<now, tree, edits, crashes>>

----------------------------------------------------------------------------
(* The surroundings: time, the repository, and processes that die.         *)

Tick ==
  /\ now < MaxTime
  /\ now' = now + 1
  /\ UNCHANGED <<tree, edits, scans, goals, comparisons, op, crashes>>

\* Somebody changes the repository: a finding is fixed, or comes back.
EditTree(f) ==
  /\ edits < MaxEdits
  /\ edits' = edits + 1
  /\ tree' = IF f \in tree THEN tree \ {f} ELSE tree \cup {f}
  /\ UNCHANGED <<now, scans, goals, comparisons, op, crashes>>

\* A host is killed.  What it committed stays, what its calls held is gone.
Crash(h) ==
  /\ crashes < MaxCrashes
  /\ \E c \in Call : host[c] = h /\ op[c].pc # "idle"
  /\ crashes' = crashes + 1
  /\ op' = [c \in Call |-> IF host[c] = h THEN Idle ELSE op[c]]
  /\ UNCHANGED <<now, tree, edits, scans, goals, comparisons>>

----------------------------------------------------------------------------
(* runAudit.                                                               *)

\* discover stamps the scan when it starts and then awaits the parsing.
StartAudit(c) ==
  /\ At(c, "idle")
  /\ op' = [op EXCEPT ![c] = [Idle EXCEPT !.pc = "parsing", !.at = now]]
  /\ UNCHANGED <<world, tables>>

\* Discovery, reconciliation and the rules: what fires is what the tree held.
FinishDiscovery(c) ==
  /\ At(c, "parsing")
  /\ Len(scans) < MaxScans
  /\ op' = [op EXCEPT ![c] = [@ EXCEPT !.pc = "saveScan", !.found = tree]]
  /\ UNCHANGED <<world, tables>>

\* scanId hashes the start and the content read, so two audits that started in one
\* millisecond and read the same repository write one row.
SameScan(s, c) == scans[s].at = op[c].at /\ scans[s].fired = op[c].found

\* saveScan, one transaction.
SaveScan(c) ==
  /\ At(c, "saveScan")
  /\ \/ \E s \in DOMAIN scans :
          /\ SameScan(s, c)
          /\ op' = [op EXCEPT ![c] = [@ EXCEPT !.pc = "saveFindings", !.scan = s]]
          /\ scans' = scans
     \/ /\ \A s \in DOMAIN scans : ~SameScan(s, c)
        /\ op' = [op EXCEPT ![c] = [@ EXCEPT !.pc = "saveFindings", !.scan = Len(scans) + 1]]
        /\ scans' = Append(scans, [at |-> op[c].at, fired |-> op[c].found, findings |-> {}])
  /\ UNCHANGED <<world, goals, comparisons>>

\* saveFindings, a transaction of its own.
SaveFindings(c) ==
  /\ At(c, "saveFindings")
  /\ scans' = [scans EXCEPT ![op[c].scan].findings = op[c].found]
  /\ op' = [op EXCEPT ![c] = [@ EXCEPT !.pc = "listGoals"]]
  /\ UNCHANGED <<world, goals, comparisons>>

\* assembleReport reads every goal once.
ListGoals(c) ==
  /\ At(c, "listGoals")
  /\ LET pending == {[id |-> g, doc |-> goals[g]] : g \in {i \in GoalId : Stored(i)}}
     IN  op' = [op EXCEPT ![c] = [@ EXCEPT !.pc = "judge", !.pending = pending]]
  /\ UNCHANGED <<world, tables>>

\* judgementsForGoals, one goal: comparisonForGoal makes the comparison with the
\* latest scan itself unless one is recorded or no other scan exists.
JudgeNext(c) ==
  /\ At(c, "judge")
  /\ \E p \in op[c].pending :
       /\ \A q \in op[c].pending : p.id <= q.id
       /\ op' = [op EXCEPT ![c] =
            IF MakesComparison(p.id, p.doc)
            THEN [@ EXCEPT !.pending = op[c].pending \ {p}, !.pc = "compare", !.then = "judge",
                           !.goal = p.id, !.doc = p.doc]
            ELSE [@ EXCEPT !.pending = op[c].pending \ {p}]]
  /\ UNCHANGED <<world, tables>>

\* The report is saved, in a table that nothing in this loop reads.
SaveReport(c) ==
  /\ At(c, "judge")
  /\ op[c].pending = {}
  /\ op' = [op EXCEPT ![c] = Idle]
  /\ UNCHANGED <<world, tables>>

----------------------------------------------------------------------------
(* compareUseCase.                                                         *)

\* INSERT ... ON CONFLICT(id) DO UPDATE SET digest, verdict: goal_id is kept.
Upsert(rows, row) ==
  IF \E r \in rows : r.id = row.id
  THEN {IF r.id = row.id THEN [row EXCEPT !.goal = r.goal] ELSE r : r \in rows}
  ELSE rows \cup {row}

\* compare <baseline> latest-scan --goal <id>, the command a plan prints.
CompareForGoal(c, g) ==
  /\ At(c, "idle")
  /\ Stored(g)
  /\ Cardinality(comparisons) < MaxCompares
  /\ op' = [op EXCEPT ![c] = [Idle EXCEPT !.pc = "compare", !.goal = g, !.doc = goals[g]]]
  /\ UNCHANGED <<world, tables>>

\* resolveSide of the candidate, which is always the reference latest-scan.
ResolveCandidate(c) ==
  /\ At(c, "compare")
  /\ \E s \in DOMAIN scans :
       /\ IsLatestScan(s)
       /\ op' = [op EXCEPT ![c] = [@ EXCEPT !.pc = "compareRead", !.cand = s]]
  /\ UNCHANGED <<world, tables>>

\* The findings of both scans are read, and compare decides and stamps the time.
ReadSides(c) ==
  /\ At(c, "compareRead")
  /\ LET base == op[c].doc.baseline
         cand == op[c].cand
         verdict == FindingVerdict(scans[base].findings, scans[cand].findings)
         id == [baseline |-> base, candidate |-> cand, at |-> now]
     IN  op' = [op EXCEPT ![c] = [@ EXCEPT !.pc = "compareSave",
                                           !.made = [id |-> id, verdict |-> verdict]]]
  /\ UNCHANGED <<world, tables>>

\* saveComparison; what was made is the evidence of a validation that waits for it.
SaveComparison(c) ==
  /\ At(c, "compareSave")
  /\ LET made == op[c].made
         then == op[c].then
     IN  /\ comparisons' = Upsert(comparisons,
              [id |-> made.id, goal |-> op[c].goal, names |-> op[c].goal, verdict |-> made.verdict])
         /\ op' = [op EXCEPT ![c] =
              IF then = "idle" THEN Idle
              ELSE [@ EXCEPT !.pc = then, !.then = "idle", !.cand = 0, !.made = NoComparison,
                             !.evidence = IF then = "validateSave" THEN made ELSE NoComparison]]
  /\ UNCHANGED <<world, scans, goals>>

----------------------------------------------------------------------------
(* createGoalFromFinding.                                                  *)

\* latestScan: the scan the goal will be cut from.
CreateGoal(c, f, another) ==
  /\ At(c, "idle")
  /\ \E s \in DOMAIN scans :
       /\ IsLatestScan(s)
       /\ op' = [op EXCEPT ![c] = [Idle EXCEPT !.pc = "createFind", !.another = another,
                                               !.doc = NewGoal(f, s)]]
  /\ UNCHANGED <<world, tables>>

\* findingById: a finding that the scan does not hold is refused.
FindFinding(c) ==
  /\ At(c, "createFind")
  /\ op' = [op EXCEPT ![c] =
       IF ~ScanHolds(@.doc.baseline, @.doc.finding) THEN Idle
       ELSE [@ EXCEPT !.pc = IF op[c].another THEN "createNumber" ELSE "createLook"]]
  /\ UNCHANGED <<world, tables>>

\* An open goal for the finding is returned instead of a copy.
LookForOpenGoal(c) ==
  /\ At(c, "createLook")
  /\ op' = [op EXCEPT ![c] = IF HasOpenGoal(op[c].doc.finding) THEN Idle
                             ELSE [@ EXCEPT !.pc = "createNumber"]]
  /\ UNCHANGED <<world, tables>>

\* nextGoalSequence and the creation time.
NumberGoal(c) ==
  /\ At(c, "createNumber")
  /\ \E n \in GoalId :
       /\ IsNextGoalSequence(n)
       /\ op' = [op EXCEPT ![c] = [@ EXCEPT !.pc = "createSave", !.goal = n, !.doc.createdAt = now]]
  /\ UNCHANGED <<world, tables>>

\* saveGoal is an upsert on the identifier that replaces the document.
SaveNewGoal(c) ==
  /\ At(c, "createSave")
  /\ goals' = [goals EXCEPT ![op[c].goal] = op[c].doc]
  /\ op' = [op EXCEPT ![c] = Idle]
  /\ UNCHANGED <<world, scans, comparisons>>

----------------------------------------------------------------------------
(* recordGoalReview.                                                       *)

\* goalById; a goal that asks for no review refuses one.
ReviewGoal(c, g) ==
  /\ At(c, "idle")
  /\ Stored(g)
  /\ goals[g].finding \in NeedsReview
  /\ goals[g].reviews < MaxReviews
  /\ op' = [op EXCEPT ![c] = [Idle EXCEPT !.pc = "reviewSave", !.goal = g, !.doc = goals[g]]]
  /\ UNCHANGED <<world, tables>>

\* The document that was read, with one more review, replaces the stored one.
SaveReview(c) ==
  /\ At(c, "reviewSave")
  /\ goals' = [goals EXCEPT ![op[c].goal] = [op[c].doc EXCEPT !.reviews = @ + 1]]
  /\ op' = [op EXCEPT ![c] = Idle]
  /\ UNCHANGED <<world, scans, comparisons>>

----------------------------------------------------------------------------
(* validateGoalOutcome.                                                    *)

\* comparisonById when the caller names one, then goalById.
ValidateGoal(c, g, evidence) ==
  /\ At(c, "idle")
  /\ Stored(g)
  /\ op' = [op EXCEPT ![c] = [Idle EXCEPT !.pc = "validateScan", !.goal = g,
                                          !.doc = goals[g], !.evidence = evidence]]
  /\ UNCHANGED <<world, tables>>

ReadLatestScan(c) ==
  /\ At(c, "validateScan")
  /\ \E s \in DOMAIN scans :
       /\ IsLatestScan(s)
       /\ op' = [op EXCEPT ![c] = [@ EXCEPT !.pc = "validateFindings", !.scan = s]]
  /\ UNCHANGED <<world, tables>>

ReadFindings(c) ==
  /\ At(c, "validateFindings")
  /\ LET next == IF op[c].evidence = NoComparison THEN "validateLook" ELSE "validateSave"
     IN  op' = [op EXCEPT ![c] = [@ EXCEPT !.pc = next, !.found = scans[op[c].scan].findings]]
  /\ UNCHANGED <<world, tables>>

\* comparisonForGoal: the recorded comparison, or one made now, or none.
LookForComparison(c) ==
  /\ At(c, "validateLook")
  /\ LET g == op[c].goal
         doc == op[c].doc
     IN  \/ \E r \in comparisons :
              /\ IsRecordedComparison(r, g, doc.createdAt)
              /\ op' = [op EXCEPT ![c] = [@ EXCEPT !.pc = "validateSave",
                                                   !.evidence = [id |-> r.id, verdict |-> r.verdict]]]
         \/ /\ MakesComparison(g, doc)
            /\ op' = [op EXCEPT ![c] = [@ EXCEPT !.pc = "compare", !.then = "validateSave"]]
         \/ /\ ~HasRecordedComparison(g, doc.createdAt)
            /\ IsLatestScan(doc.baseline)
            /\ op' = [op EXCEPT ![c] = [@ EXCEPT !.pc = "validateJudge"]]
  /\ UNCHANGED <<world, tables>>

\* judgeGoal asks comparisonForGoal again when validate found none: another host may
\* have saved a scan.  What it makes now is stored, and not listed as evidence.
JudgeWithoutEvidence(c) ==
  /\ At(c, "validateJudge")
  /\ op' = [op EXCEPT ![c] =
       IF MakesComparison(@.goal, @.doc)
       THEN [@ EXCEPT !.pc = "compare", !.then = "validateKeep"]
       ELSE [@ EXCEPT !.pc = "validateKeep"]]
  /\ UNCHANGED <<world, tables>>

\* The judged document replaces the stored one.
SaveValidation(c) ==
  /\ At(c, "validateSave") \/ At(c, "validateKeep")
  /\ LET doc == op[c].doc
     IN  goals' = [goals EXCEPT ![op[c].goal] =
                    [doc EXCEPT !.status = StatusAfter(doc, op[c].found),
                                !.results = ResultsAfter(doc, op[c].evidence)]]
  /\ op' = [op EXCEPT ![c] = Idle]
  /\ UNCHANGED <<world, scans, comparisons>>

----------------------------------------------------------------------------
(* The specification.                                                      *)

\* The comparison a caller of validate passes, or none.
NameableEvidence ==
  {NoComparison} \cup
  IF NamesComparison THEN {[id |-> r.id, verdict |-> r.verdict] : r \in comparisons} ELSE {}

Init ==
  /\ now = 0 /\ edits = 0 /\ crashes = 0
  /\ tree \in SUBSET Finding
  /\ scans = <<>>
  /\ goals = [g \in GoalId |-> NoGoal]
  /\ comparisons = {}
  /\ op = [c \in Call |-> Idle]

AuditStep(c) ==
  \/ StartAudit(c) \/ FinishDiscovery(c) \/ SaveScan(c) \/ SaveFindings(c)
  \/ ListGoals(c) \/ JudgeNext(c) \/ SaveReport(c)

CreateStep(c) ==
  \/ \E f \in Finding, another \in BOOLEAN : CreateGoal(c, f, another)
  \/ FindFinding(c) \/ LookForOpenGoal(c) \/ NumberGoal(c) \/ SaveNewGoal(c)

JudgeStep(c) ==
  \/ \E g \in GoalId : CompareForGoal(c, g) \/ ReviewGoal(c, g)
  \/ \E g \in GoalId, evidence \in NameableEvidence : ValidateGoal(c, g, evidence)
  \/ ResolveCandidate(c) \/ ReadSides(c) \/ SaveComparison(c) \/ SaveReview(c)
  \/ ReadLatestScan(c) \/ ReadFindings(c)
  \/ LookForComparison(c) \/ JudgeWithoutEvidence(c) \/ SaveValidation(c)

Next ==
  \/ Tick
  \/ \E f \in Finding : EditTree(f)
  \/ \E h \in Host : Crash(h)
  \/ \E c \in Call : AuditStep(c) \/ CreateStep(c) \/ JudgeStep(c)

Spec == Init /\ [][Next]_vars

----------------------------------------------------------------------------
(* What the loop promises.                                                 *)

\* Creation is idempotent per finding (goal.ts: "a finding that already has an
\* open goal gets that goal back rather than a copy of it"): no call that was not
\* asked for another goal is about to save one while the finding has one open.
CreationIsIdempotent ==
  \A c \in Call :
    op[c].pc = "createSave" /\ ~op[c].another =>
      ~ \E g \in GoalId :
          Stored(g) /\ goals[g].finding = op[c].doc.finding /\ goals[g].status # "validated"

\* A goal is the record of a change and of how it was judged: no step replaces the
\* finding or baseline under an identifier, forgets a review, or forgets a
\* comparison that judged the goal (saveGoal writes the whole document).
GoalHistoryKept ==
  [][\A g \in GoalId :
       Stored(g) =>
         /\ goals'[g] # NoGoal
         /\ goals'[g].finding = goals[g].finding
         /\ goals'[g].baseline = goals[g].baseline
         /\ goals'[g].createdAt = goals[g].createdAt
         /\ goals'[g].reviews >= goals[g].reviews
         /\ goals[g].results \subseteq goals'[g].results]_goals

\* "finding_resolved: the finding no longer fires after a rescan"
\* (goal-lifecycle.md): a validated goal has a scan, no older than its baseline,
\* whose rules did not conclude the goal's finding.
ValidatedHasRescan ==
  \A g \in GoalId :
    Stored(g) /\ goals[g].status = "validated" =>
      \E s \in DOMAIN scans :
        /\ s # goals[g].baseline
        /\ scans[s].at >= scans[goals[g].baseline].at
        /\ goals[g].finding \notin scans[s].fired

\* Whatever the interleaving and whoever dies: the scan a goal is cut from is
\* stored, and table finding holds the goal's finding for it.
BaselineReportsFinding ==
  \A g \in GoalId :
    Stored(g) =>
      /\ goals[g].baseline \in DOMAIN scans
      /\ goals[g].finding \in scans[goals[g].baseline].findings

\* Whatever the interleaving and whoever dies: a goal that asks for a review is
\* validated only with one recorded, although both are written by
\* read-modify-write of the same document.
AttestedWhenRequired ==
  \A g \in GoalId :
    Stored(g) /\ goals[g].status = "validated" /\ goals[g].finding \in NeedsReview
      => goals[g].reviews > 0


============================================================================
