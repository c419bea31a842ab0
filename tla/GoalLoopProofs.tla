--------------------------- MODULE GoalLoopProofs ---------------------------
(***************************************************************************)
(* What holds of GoalLoop for every number of calls, hosts, findings,      *)
(* goals and crashes, and for every value of the bounds.                   *)
(*                                                                         *)
(* The first part is the inductive invariant: every goal document, whether *)
(* stored or held by a call that will write it back, was cut from a scan   *)
(* that holds its finding, and is attested if it is validated.  It is      *)
(* stated of the calls as well as of table goal because every write of a   *)
(* goal is a read-modify-write across separate statements.                 *)
(*                                                                         *)
(* The second part is about one process, which is what the MCP server is:  *)
(* only discover gives way, so what a call read is still so when it        *)
(* writes, and what it decided from it holds.                              *)
(***************************************************************************)
EXTENDS GoalLoop, TLAPS

CutFromScan(doc) ==
  /\ doc.baseline \in DOMAIN scans
  /\ doc.finding \in scans[doc.baseline].findings

Attested(doc) ==
  doc.status = "validated" /\ doc.finding \in NeedsReview => doc.reviews > 0

GoodDoc(doc) == doc \in Goal /\ CutFromScan(doc) /\ Attested(doc)

\* The statements at which a call holds a goal document, and the number of one.
HoldsDoc ==
  {"compare", "compareRead", "compareSave", "createLook", "createNumber", "createSave",
   "reviewSave", "validateScan", "validateFindings", "validateLook", "validateJudge",
   "validateSave", "validateKeep"}

HoldsGoal == HoldsDoc \ {"createLook", "createNumber"}

GoodOp(o) ==
  /\ o \in OpState
  /\ o.pc \in HoldsDoc => GoodDoc(o.doc)
  /\ o.pc \in HoldsGoal => o.goal \in GoalId
  /\ o.pc = "createFind" =>
       o.doc \in Goal /\ o.doc.baseline \in DOMAIN scans /\ o.doc.status = "ready"
  /\ o.pc = "compareSave" => o.made \in Result
  /\ o.then \in {"idle", "judge", "validateSave", "validateKeep"}
  /\ o.pc = "saveFindings" => o.scan \in DOMAIN scans /\ scans[o.scan].fired = o.found
  /\ o.pc = "validateFindings" => o.scan \in DOMAIN scans
  /\ \A p \in o.pending : GoodDoc(p.doc)

ScansOK == \A s \in DOMAIN scans : scans[s].findings \subseteq scans[s].fired

GoalsOK == \A g \in GoalId : Stored(g) => GoodDoc(goals[g])

OpsOK == \A c \in Call : GoodOp(op[c])

IInv == TypeOK /\ ScansOK /\ GoalsOK /\ OpsOK

----------------------------------------------------------------------------
(* Lemmas.                                                                 *)

\* Lemma: the state of a call that does nothing is good.
LEMMA IdleIsGood == GoodOp(Idle)
  BY DEF GoodOp, Idle, OpState, Pc, HoldsDoc, HoldsGoal

\* Lemma: the findings of two scans always decide a verdict.
LEMMA VerdictIsDecided == \A before, after : FindingVerdict(before, after) \in Verdict
  BY DEF FindingVerdict, Verdict

\* Lemma: what a document needs of the scans is kept by a step that only adds rows
\* to table scan and to table finding.
ScansGrow ==
  \A s \in DOMAIN scans :
    /\ s \in DOMAIN scans'
    /\ scans[s].findings \subseteq scans'[s].findings
    /\ scans[s].fired = scans'[s].fired

LEMMA GoodDocKept == ASSUME NEW d, GoodDoc(d), ScansGrow PROVE GoodDoc(d)'
  BY DEF GoodDoc, CutFromScan, Attested, ScansGrow

LEMMA GoodOpKept == ASSUME NEW o, GoodOp(o), ScansGrow PROVE GoodOp(o)'
  <1>1. \A d : GoodDoc(d) => GoodDoc(d)'
    BY GoodDocKept
  <1>2. o.pc = "createFind" => o.doc.baseline \in DOMAIN scans'
    BY DEF GoodOp, ScansGrow
  <1>3. o.pc = "saveFindings" => o.scan \in DOMAIN scans' /\ scans'[o.scan].fired = o.found
    BY DEF GoodOp, ScansGrow
  <1>4. o.pc = "validateFindings" => o.scan \in DOMAIN scans'
    BY DEF GoodOp, ScansGrow
  <1> QED
    BY <1>1, <1>2, <1>3, <1>4 DEF GoodOp

\* Lemma: nothing a document or a call needs changes while table scan does not.
LEMMA SameScansGrow == ASSUME TypeOK, scans' = scans PROVE ScansGrow
  BY DEF ScansGrow, TypeOK, ScanRow

\* Lemma: a step of call c that only adds to the scans, and leaves c holding what is
\* good, keeps the invariant when the goals it writes are good.
LEMMA CallStep ==
  ASSUME IInv, NEW c \in Call, NEW o,
         op' = [op EXCEPT ![c] = o], GoodOp(o)',
         scans' \in Seq(ScanRow), ScansOK', ScansGrow,
         goals' \in [GoalId -> Goal \cup {NoGoal}],
         \A g \in GoalId : goals'[g] = goals[g] \/ GoodDoc(goals[g])',
         comparisons' \in SUBSET ComparisonRow,
         UNCHANGED world
  PROVE  IInv'
  <1>1. \A x : GoodOp(x) => GoodOp(x)'
    BY GoodOpKept
  <1>2. \A d : GoodDoc(d) => GoodDoc(d)'
    BY GoodDocKept
  <1>3. op' \in [Call -> OpState]
    BY DEF IInv, TypeOK, GoodOp
  <1>4. TypeOK'
    BY <1>3 DEF IInv, TypeOK, world
  <1>5. OpsOK'
    BY <1>1 DEF IInv, OpsOK, TypeOK
  <1>6. GoalsOK'
    BY <1>2 DEF IInv, GoalsOK, Stored
  <1> QED
    BY <1>4, <1>5, <1>6 DEF IInv

\* Lemma: the same of a step that only reads scans and goals.
LEMMA ReadStep ==
  ASSUME IInv, NEW c \in Call, NEW o,
         op' = [op EXCEPT ![c] = o], GoodOp(o),
         scans' = scans, goals' = goals,
         comparisons' \in SUBSET ComparisonRow,
         UNCHANGED world
  PROVE  IInv'
  <1>1. ScansGrow /\ ScansOK' /\ scans' \in Seq(ScanRow)
    BY SameScansGrow DEF IInv, ScansOK, TypeOK
  <1>2. GoodOp(o)'
    BY <1>1, GoodOpKept
  <1>3. goals' \in [GoalId -> Goal \cup {NoGoal}]
    BY DEF IInv, TypeOK
  <1> QED
    BY <1>1, <1>2, <1>3, CallStep

\* Lemma: the same of a step that writes a goal document and ends the call.
LEMMA WriteGoal ==
  ASSUME IInv, NEW c \in Call, NEW g \in GoalId, NEW d,
         op' = [op EXCEPT ![c] = Idle], GoodDoc(d),
         goals' = [goals EXCEPT ![g] = d],
         scans' = scans, comparisons' = comparisons,
         UNCHANGED world
  PROVE  IInv'
  <1>1. ScansGrow /\ ScansOK' /\ scans' \in Seq(ScanRow)
    BY SameScansGrow DEF IInv, ScansOK, TypeOK
  <1>2. GoodOp(Idle)' /\ GoodDoc(d)'
    BY <1>1, GoodOpKept, GoodDocKept, IdleIsGood
  <1>3. goals' \in [GoalId -> Goal \cup {NoGoal}]
    BY DEF IInv, TypeOK, GoodDoc
  <1>4. \A i \in GoalId : goals'[i] = goals[i] \/ GoodDoc(goals[i])'
    BY <1>2 DEF IInv, TypeOK
  <1>5. comparisons' \in SUBSET ComparisonRow
    BY DEF IInv, TypeOK
  <1> QED
    BY <1>1, <1>2, <1>3, <1>4, <1>5, CallStep

----------------------------------------------------------------------------
(* The calls.                                                              *)

\* Lemma: every statement of runAudit keeps the invariant.
LEMMA AuditKeepsIInv ==
  ASSUME IInv, NEW c \in Call, AuditStep(c)
  PROVE  IInv'
  <1> USE DEF world, tables
  <1>0. GoodOp(op[c])
    BY DEF IInv, OpsOK
  <1>1. CASE StartAudit(c)
    <2> DEFINE o == [Idle EXCEPT !.pc = "parsing", !.at = now]
    <2>1. GoodOp(o)
      BY IdleIsGood, ZenonT(40) DEF IInv, TypeOK, GoodOp, Idle, OpState, Pc, HoldsDoc, HoldsGoal
    <2> QED
      BY <1>1, <2>1, ReadStep DEF StartAudit, IInv, TypeOK
  <1>2. CASE FinishDiscovery(c)
    <2> DEFINE o == [op[c] EXCEPT !.pc = "saveScan", !.found = tree]
    <2>1. o \in OpState
      BY <1>0 DEF IInv, TypeOK, GoodOp, OpState, Pc
    <2>2. o.pc = "saveScan" /\ o.then = op[c].then /\ o.pending = op[c].pending
      BY <1>0 DEF GoodOp, OpState
    <2>3. GoodOp(o)
      <3> HIDE DEF o
      <3> QED BY <1>0, <2>1, <2>2 DEF GoodOp, HoldsDoc, HoldsGoal
    <2> QED
      BY <1>2, <2>3, ReadStep DEF FinishDiscovery, IInv, TypeOK
  <1>3. CASE SaveScan(c)
    <2>0. scans \in Seq(ScanRow) /\ op[c].found \in SUBSET Finding /\ op[c].at \in Nat
      BY <1>0 DEF IInv, TypeOK, GoodOp, OpState
    <2>1. CASE \E s \in DOMAIN scans :
                 /\ SameScan(s, c)
                 /\ op' = [op EXCEPT ![c] = [@ EXCEPT !.pc = "saveFindings", !.scan = s]]
                 /\ scans' = scans
      <3>1. PICK s \in DOMAIN scans :
              /\ scans[s].fired = op[c].found
              /\ op' = [op EXCEPT ![c] = [@ EXCEPT !.pc = "saveFindings", !.scan = s]]
              /\ scans' = scans
        BY <2>1 DEF SameScan
      <3> DEFINE o == [op[c] EXCEPT !.pc = "saveFindings", !.scan = s]
      <3>2. s \in Nat
        BY <2>0
      <3>3. o \in OpState
        BY <1>0, <3>2 DEF GoodOp, OpState, Pc
      <3>4. /\ o.pc = "saveFindings" /\ o.scan = s /\ o.found = op[c].found
            /\ o.then = op[c].then /\ o.pending = op[c].pending
        BY <1>0 DEF GoodOp, OpState
      <3>5. GoodOp(o)
        <4> HIDE DEF o
        <4> QED BY <1>0, <3>1, <3>3, <3>4 DEF GoodOp, HoldsDoc, HoldsGoal
      <3> QED
        BY <1>3, <3>1, <3>5, ReadStep DEF SaveScan, IInv, TypeOK
    <2>2. CASE /\ op' = [op EXCEPT ![c] = [@ EXCEPT !.pc = "saveFindings", !.scan = Len(scans) + 1]]
               /\ scans' = Append(scans, [at |-> op[c].at, fired |-> op[c].found, findings |-> {}])
      <3>1. PICK n, row, o :
              /\ n = Len(scans) + 1
              /\ row = [at |-> op[c].at, fired |-> op[c].found, findings |-> {}]
              /\ o = [op[c] EXCEPT !.pc = "saveFindings", !.scan = n]
        OBVIOUS
      <3>2. row \in ScanRow /\ row.fired = op[c].found /\ row.findings = {}
        BY <2>0, <3>1 DEF ScanRow
      <3>3. /\ n \in Nat /\ scans' \in Seq(ScanRow) /\ DOMAIN scans' = DOMAIN scans \cup {n}
            /\ n \notin DOMAIN scans /\ scans'[n] = row
            /\ \A s \in DOMAIN scans : scans'[s] = scans[s]
        <4>1. n \in Nat /\ scans' = Append(scans, row)
          BY <2>0, <2>2, <3>1
        <4> QED BY <2>0, <3>1, <3>2, <4>1
      <3>4. ScansGrow
        BY <3>3 DEF ScansGrow
      <3>5. ScansOK'
        BY <3>2, <3>3 DEF ScansOK, IInv
      <3>6. o \in OpState
        BY <1>0, <3>1, <3>3, ZenonT(40) DEF GoodOp, OpState, Pc
      <3>7. /\ o.pc = "saveFindings" /\ o.scan = n /\ o.found = op[c].found
            /\ o.then = op[c].then /\ o.pending = op[c].pending
        BY <1>0, <3>1 DEF GoodOp, OpState
      <3>8. GoodOp(o)'
        <4>1. \A p \in o.pending : GoodDoc(p.doc)'
          BY <1>0, <3>4, <3>7, GoodDocKept DEF GoodOp
        <4>2. o.scan \in DOMAIN scans' /\ scans'[o.scan].fired = o.found
          BY <3>2, <3>3, <3>7
        <4>3. o.then \in {"idle", "judge", "validateSave", "validateKeep"}
          BY <1>0, <3>7 DEF GoodOp
        <4> QED BY <3>6, <3>7, <4>1, <4>2, <4>3 DEF GoodOp, HoldsDoc, HoldsGoal
      <3>9. op' = [op EXCEPT ![c] = o]
        BY <2>2, <3>1
      <3> QED
        BY <1>3, <3>3, <3>4, <3>5, <3>8, <3>9, CallStep DEF SaveScan, IInv, TypeOK
    <2> QED
      BY <1>3, <2>1, <2>2 DEF SaveScan
  <1>4. CASE SaveFindings(c)
    <2>1. PICK s, row, o :
            /\ s = op[c].scan
            /\ row = [scans[s] EXCEPT !.findings = op[c].found]
            /\ o = [op[c] EXCEPT !.pc = "listGoals"]
      OBVIOUS
    <2>2. /\ scans \in Seq(ScanRow) /\ s \in DOMAIN scans /\ scans[s].fired = op[c].found
          /\ scans' = [scans EXCEPT ![s] = row] /\ op' = [op EXCEPT ![c] = o]
          /\ op[c].found \in SUBSET Finding
      BY <1>0, <1>4, <2>1 DEF IInv, TypeOK, GoodOp, OpState, SaveFindings, At
    <2>3. /\ row \in ScanRow /\ row.fired = scans[s].fired /\ row.findings = op[c].found
      <3>1. scans[s] \in ScanRow
        BY <2>2
      <3> QED BY <2>1, <2>2, <3>1 DEF ScanRow
    <2>4. /\ scans' \in Seq(ScanRow) /\ DOMAIN scans' = DOMAIN scans /\ scans'[s] = row
          /\ \A t \in DOMAIN scans : t # s => scans'[t] = scans[t]
      BY <2>2, <2>3
    <2>5. ScansGrow
      BY <2>2, <2>3, <2>4 DEF ScansGrow, ScansOK, IInv
    <2>6. ScansOK'
      BY <2>2, <2>3, <2>4 DEF ScansOK, IInv
    <2>7. GoodOp(o)
      <3>1. o \in OpState
        BY <1>0, <2>1 DEF GoodOp, OpState, Pc
      <3>2. o.pc = "listGoals" /\ o.then = op[c].then /\ o.pending = op[c].pending
        BY <1>0, <2>1 DEF GoodOp, OpState
      <3> QED BY <1>0, <3>1, <3>2 DEF GoodOp, HoldsDoc, HoldsGoal
    <2>8. GoodOp(o)'
      BY <2>5, <2>7, GoodOpKept
    <2> QED
      BY <1>4, <2>2, <2>4, <2>5, <2>6, <2>8, CallStep DEF SaveFindings, IInv, TypeOK
  <1>5. CASE ListGoals(c)
    <2> DEFINE pending == {[id |-> g, doc |-> goals[g]] : g \in {i \in GoalId : Stored(i)}}
               o == [op[c] EXCEPT !.pc = "judge", !.pending = pending]
    <2>1. \A p \in pending : p \in [id : GoalId, doc : Goal] /\ GoodDoc(p.doc)
      BY DEF IInv, GoalsOK, GoodDoc
    <2>2. o \in OpState
      <3> HIDE DEF pending
      <3> QED BY <1>0, <2>1 DEF GoodOp, OpState, Pc
    <2>3. o.pc = "judge" /\ o.then = op[c].then /\ o.pending = pending
      BY <1>0 DEF GoodOp, OpState
    <2>4. GoodOp(o)
      <3> HIDE DEF o, pending
      <3> QED BY <1>0, <2>1, <2>2, <2>3 DEF GoodOp, HoldsDoc, HoldsGoal
    <2> QED
      BY <1>5, <2>4, ReadStep DEF ListGoals, IInv, TypeOK
  <1>6. CASE JudgeNext(c)
    <2>1. PICK p \in op[c].pending :
            op' = [op EXCEPT ![c] =
              IF MakesComparison(p.id, p.doc)
              THEN [@ EXCEPT !.pending = op[c].pending \ {p}, !.pc = "compare", !.then = "judge",
                             !.goal = p.id, !.doc = p.doc]
              ELSE [@ EXCEPT !.pending = op[c].pending \ {p}]]
      BY <1>6 DEF JudgeNext
    <2> DEFINE rest == op[c].pending \ {p}
               o == [op[c] EXCEPT !.pending = rest, !.pc = "compare", !.then = "judge",
                                  !.goal = p.id, !.doc = p.doc]
               q == [op[c] EXCEPT !.pending = rest]
    <2>2. /\ p.id \in GoalId /\ p.id \in Nat /\ p.doc \in Goal /\ GoodDoc(p.doc)
          /\ rest \in SUBSET [id : GoalId, doc : Goal]
          /\ \A r \in rest : GoodDoc(r.doc)
      BY <1>0, BoundAssumption DEF GoodOp, OpState, GoalId
    <2>3. GoodOp(o)
      <3>1. o \in OpState
        <4> HIDE DEF rest
        <4> QED BY <1>0, <2>2 DEF GoodOp, OpState, Pc
      <3>2. o.pc = "compare" /\ o.then = "judge" /\ o.pending = rest /\ o.goal = p.id /\ o.doc = p.doc
        <4> HIDE DEF rest
        <4> QED BY <1>0 DEF GoodOp, OpState
      <3> HIDE DEF o, rest
      <3> QED BY <2>2, <3>1, <3>2 DEF GoodOp, HoldsDoc, HoldsGoal
    <2>4. GoodOp(q)
      BY <1>0, <1>6, <2>2 DEF GoodOp, OpState, JudgeNext, At, HoldsDoc, HoldsGoal
    <2> QED
      BY <1>6, <2>1, <2>3, <2>4, ReadStep DEF JudgeNext, IInv, TypeOK
  <1>7. CASE SaveReport(c)
    BY <1>7, IdleIsGood, ReadStep DEF SaveReport, IInv, TypeOK
  <1> QED
    BY <1>1, <1>2, <1>3, <1>4, <1>5, <1>6, <1>7 DEF AuditStep

\* Lemma: every statement of createGoalFromFinding keeps the invariant.
LEMMA CreateKeepsIInv ==
  ASSUME IInv, NEW c \in Call, CreateStep(c)
  PROVE  IInv'
  <1> USE DEF world, tables
  <1>0. GoodOp(op[c])
    BY DEF IInv, OpsOK
  <1>1. ASSUME NEW f \in Finding, NEW another \in BOOLEAN, CreateGoal(c, f, another)
        PROVE  IInv'
    <2>1. PICK s \in DOMAIN scans :
            op' = [op EXCEPT ![c] = [Idle EXCEPT !.pc = "createFind", !.another = another,
                                                 !.doc = NewGoal(f, s)]]
      BY <1>1 DEF CreateGoal
    <2>2. PICK d, o :
            /\ d = NewGoal(f, s)
            /\ o = [Idle EXCEPT !.pc = "createFind", !.another = another, !.doc = d]
      OBVIOUS
    <2>3. d \in Goal /\ d.baseline \in DOMAIN scans /\ d.status = "ready"
      <3>1. s \in Nat
        BY DEF IInv, TypeOK
      <3> QED BY <2>2, <3>1 DEF NewGoal, Goal
    <2>4. Idle \in OpState /\ Idle.then = "idle" /\ Idle.pending = {}
      BY IdleIsGood DEF GoodOp, Idle
    <2>5. o \in OpState
      BY <2>2, <2>3, <2>4, ZenonT(40) DEF OpState, Pc
    <2>6. o.pc = "createFind" /\ o.doc = d /\ o.then = "idle" /\ o.pending = {}
      BY <2>2, <2>4 DEF OpState
    <2>7. GoodOp(o)
      BY <2>3, <2>5, <2>6 DEF GoodOp, HoldsDoc, HoldsGoal
    <2> QED
      BY <1>1, <2>1, <2>2, <2>7, ReadStep DEF CreateGoal, IInv, TypeOK
  <1>2. CASE FindFinding(c)
    <2> DEFINE next == IF op[c].another THEN "createNumber" ELSE "createLook"
    <2>1. PICK o : o = [op[c] EXCEPT !.pc = next]
      OBVIOUS
    <2>2. \/ op' = [op EXCEPT ![c] = Idle]
          \/ op' = [op EXCEPT ![c] = o] /\ ScanHolds(op[c].doc.baseline, op[c].doc.finding)
      BY <1>2, <2>1 DEF FindFinding
    <2>3. CASE op' = [op EXCEPT ![c] = Idle]
      BY <1>2, <2>3, IdleIsGood, ReadStep DEF FindFinding, IInv, TypeOK
    <2>4. CASE op' = [op EXCEPT ![c] = o] /\ ScanHolds(op[c].doc.baseline, op[c].doc.finding)
      <3>1. op[c].pc = "createFind"
        BY <1>2 DEF FindFinding, At
      <3>2. GoodDoc(op[c].doc)
        BY <1>0, <2>4, <3>1 DEF GoodOp, GoodDoc, CutFromScan, Attested, ScanHolds
      <3>3. next \in {"createNumber", "createLook"}
        OBVIOUS
      <3>4. o \in OpState
        <4> HIDE DEF next
        <4> QED BY <1>0, <2>1, <3>3 DEF GoodOp, OpState, Pc
      <3>5. o.pc = next /\ o.doc = op[c].doc /\ o.then = op[c].then /\ o.pending = op[c].pending
        <4> HIDE DEF next
        <4> QED BY <1>0, <2>1 DEF GoodOp, OpState
      <3>6. GoodOp(o)
        <4> HIDE DEF next
        <4> QED BY <1>0, <3>2, <3>3, <3>4, <3>5 DEF GoodOp, HoldsDoc, HoldsGoal
      <3> QED
        BY <1>2, <2>4, <3>6, ReadStep DEF FindFinding, IInv, TypeOK
    <2> QED
      BY <2>2, <2>3, <2>4
  <1>3. CASE LookForOpenGoal(c)
    <2>1. PICK o : o = [op[c] EXCEPT !.pc = "createNumber"]
      OBVIOUS
    <2>2. op' = [op EXCEPT ![c] = Idle] \/ op' = [op EXCEPT ![c] = o]
      BY <1>3, <2>1 DEF LookForOpenGoal
    <2>3. op[c].pc = "createLook"
      BY <1>3 DEF LookForOpenGoal, At
    <2>4. GoodOp(o)
      <3>1. o \in OpState
        BY <1>0, <2>1 DEF GoodOp, OpState, Pc
      <3>2. o.pc = "createNumber" /\ o.doc = op[c].doc /\ o.then = op[c].then
            /\ o.pending = op[c].pending
        BY <1>0, <2>1 DEF GoodOp, OpState
      <3> QED BY <1>0, <2>3, <3>1, <3>2 DEF GoodOp, HoldsDoc, HoldsGoal
    <2> QED
      BY <1>3, <2>2, <2>4, IdleIsGood, ReadStep DEF LookForOpenGoal, IInv, TypeOK
  <1>4. CASE NumberGoal(c)
    <2>1. PICK n \in GoalId :
            op' = [op EXCEPT ![c] = [@ EXCEPT !.pc = "createSave", !.goal = n, !.doc.createdAt = now]]
      BY <1>4 DEF NumberGoal
    <2>2. PICK d, o :
            /\ d = [op[c].doc EXCEPT !.createdAt = now]
            /\ o = [op[c] EXCEPT !.pc = "createSave", !.goal = n, !.doc = d]
      OBVIOUS
    <2>3. GoodDoc(op[c].doc) /\ op[c].doc \in Goal /\ op[c] \in OpState
      BY <1>0, <1>4 DEF GoodOp, GoodDoc, NumberGoal, At, HoldsDoc
    <2>4. op' = [op EXCEPT ![c] = o]
      BY <2>1, <2>2, <2>3 DEF OpState
    <2>5. d \in Goal /\ d.baseline = op[c].doc.baseline /\ d.finding = op[c].doc.finding
          /\ d.status = op[c].doc.status /\ d.reviews = op[c].doc.reviews
      BY <2>2, <2>3 DEF Goal, IInv, TypeOK
    <2>6. GoodDoc(d)
      BY <2>3, <2>5 DEF GoodDoc, CutFromScan, Attested
    <2>7. GoodOp(o)
      <3>1. n \in Nat
        BY BoundAssumption DEF GoalId
      <3>2. o \in OpState
        BY <2>2, <2>3, <2>5, <3>1 DEF OpState, Pc
      <3>3. o.pc = "createSave" /\ o.goal = n /\ o.doc = d /\ o.then = op[c].then
            /\ o.pending = op[c].pending
        BY <2>2, <2>3 DEF OpState
      <3> QED BY <1>0, <2>6, <3>2, <3>3 DEF GoodOp, HoldsDoc, HoldsGoal
    <2> QED
      BY <1>4, <2>4, <2>7, ReadStep DEF NumberGoal, IInv, TypeOK
  <1>5. CASE SaveNewGoal(c)
    <2>1. op[c].goal \in GoalId /\ GoodDoc(op[c].doc)
      BY <1>0, <1>5 DEF GoodOp, SaveNewGoal, At, HoldsDoc, HoldsGoal
    <2> QED
      BY <1>5, <2>1, WriteGoal DEF SaveNewGoal
  <1> QED
    BY <1>1, <1>2, <1>3, <1>4, <1>5 DEF CreateStep

\* Lemma: a call of compare, review or validate that reads goal g first is good.
LEMMA GoalRead ==
  ASSUME IInv, NEW g \in GoalId, Stored(g),
         NEW pc \in {"compare", "reviewSave", "validateScan"},
         NEW evidence \in Result \cup {NoComparison}
  PROVE  /\ GoodOp([Idle EXCEPT !.pc = pc, !.goal = g, !.doc = goals[g]])
         /\ GoodOp([Idle EXCEPT !.pc = pc, !.goal = g, !.doc = goals[g], !.evidence = evidence])
  <1>1. GoodDoc(goals[g]) /\ goals[g] \in Goal /\ g \in Nat
    BY BoundAssumption DEF IInv, GoalsOK, GoodDoc, GoalId
  <1>2. Idle \in OpState /\ Idle.then = "idle" /\ Idle.pending = {}
    BY IdleIsGood DEF GoodOp, Idle
  <1>3. PICK o : o = [Idle EXCEPT !.pc = pc, !.goal = g, !.doc = goals[g]]
    OBVIOUS
  <1>4. /\ o \in OpState /\ o.pc = pc /\ o.goal = g /\ o.doc = goals[g]
        /\ o.then = "idle" /\ o.pending = {}
    BY <1>1, <1>2, <1>3 DEF OpState, Pc
  <1>5. PICK v : v = [o EXCEPT !.evidence = evidence]
    OBVIOUS
  <1>6. /\ v \in OpState /\ v.pc = pc /\ v.goal = g /\ v.doc = goals[g]
        /\ v.then = "idle" /\ v.pending = {}
    BY <1>4, <1>5 DEF OpState
  <1>7. GoodOp(o) /\ GoodOp(v)
    BY <1>1, <1>4, <1>6 DEF GoodOp, HoldsDoc, HoldsGoal
  <1>8. v = [Idle EXCEPT !.pc = pc, !.goal = g, !.doc = goals[g], !.evidence = evidence]
    BY <1>3, <1>5
  <1> QED
    BY <1>3, <1>7, <1>8

\* Lemma: every statement of compareUseCase, recordGoalReview and
\* validateGoalOutcome keeps the invariant.
LEMMA JudgeKeepsIInv ==
  ASSUME IInv, NEW c \in Call, JudgeStep(c)
  PROVE  IInv'
  <1> USE DEF world, tables
  <1>0. GoodOp(op[c]) /\ op[c] \in OpState
    BY DEF IInv, OpsOK, GoodOp
  <1>1. ASSUME NEW g \in GoalId, CompareForGoal(c, g)
        PROVE  IInv'
    <2>1. NoComparison \in Result \cup {NoComparison} /\ Stored(g)
      BY <1>1 DEF CompareForGoal
    <2> QED
      BY <1>1, <2>1, GoalRead, ReadStep DEF CompareForGoal, IInv, TypeOK
  <1>2. ASSUME NEW g \in GoalId, ReviewGoal(c, g)
        PROVE  IInv'
    <2>1. NoComparison \in Result \cup {NoComparison} /\ Stored(g)
      BY <1>2 DEF ReviewGoal
    <2> QED
      BY <1>2, <2>1, GoalRead, ReadStep DEF ReviewGoal, IInv, TypeOK
  <1>3. ASSUME NEW g \in GoalId, NEW evidence \in NameableEvidence, ValidateGoal(c, g, evidence)
        PROVE  IInv'
    <2>1. evidence \in Result \cup {NoComparison}
      BY DEF NameableEvidence, IInv, TypeOK, ComparisonRow, Result
    <2>2. Stored(g)
      BY <1>3 DEF ValidateGoal
    <2> QED
      BY <1>3, <2>1, <2>2, GoalRead, ReadStep DEF ValidateGoal, IInv, TypeOK
  <1>4. CASE ResolveCandidate(c)
    <2>1. PICK s \in DOMAIN scans :
            op' = [op EXCEPT ![c] = [@ EXCEPT !.pc = "compareRead", !.cand = s]]
      BY <1>4 DEF ResolveCandidate
    <2>2. PICK o : o = [op[c] EXCEPT !.pc = "compareRead", !.cand = s]
      OBVIOUS
    <2>3. s \in Nat
      BY DEF IInv, TypeOK
    <2>4. o \in OpState
      BY <1>0, <2>2, <2>3 DEF OpState, Pc
    <2>5. /\ o.pc = "compareRead" /\ o.doc = op[c].doc /\ o.goal = op[c].goal
          /\ o.then = op[c].then /\ o.pending = op[c].pending
      BY <1>0, <2>2 DEF OpState
    <2>6. GoodOp(o)
      BY <1>0, <1>4, <2>4, <2>5 DEF GoodOp, ResolveCandidate, At, HoldsGoal, HoldsDoc
    <2> QED
      BY <1>4, <2>1, <2>2, <2>6, ReadStep DEF ResolveCandidate, IInv, TypeOK
  <1>5. CASE ReadSides(c)
    <2>1. PICK verdict, id, m, o :
            /\ verdict = FindingVerdict(scans[op[c].doc.baseline].findings, scans[op[c].cand].findings)
            /\ id = [baseline |-> op[c].doc.baseline, candidate |-> op[c].cand, at |-> now]
            /\ m = [id |-> id, verdict |-> verdict]
            /\ o = [op[c] EXCEPT !.pc = "compareSave", !.made = m]
      OBVIOUS
    <2>2. op' = [op EXCEPT ![c] = o]
      BY <1>5, <2>1 DEF ReadSides
    <2>3. GoodDoc(op[c].doc)
      BY <1>0, <1>5 DEF GoodOp, ReadSides, At, HoldsDoc
    <2>4. id \in ComparisonId
      <3>1. op[c].doc.baseline \in Nat /\ op[c].cand \in Nat /\ now \in Nat
        BY <1>0, <2>3 DEF GoodDoc, Goal, OpState, IInv, TypeOK
      <3> QED BY <2>1, <3>1 DEF ComparisonId
    <2>5. m \in Result
      BY <2>1, <2>4, VerdictIsDecided DEF Result
    <2>6. o \in OpState
      BY <1>0, <2>1, <2>5, ZenonT(40) DEF OpState, Pc
    <2>7. /\ o.pc = "compareSave" /\ o.made = m /\ o.doc = op[c].doc /\ o.goal = op[c].goal
          /\ o.then = op[c].then /\ o.pending = op[c].pending
      BY <1>0, <2>1 DEF OpState
    <2>8. GoodOp(o)
      BY <1>0, <1>5, <2>5, <2>6, <2>7 DEF GoodOp, ReadSides, At, HoldsGoal, HoldsDoc
    <2> QED
      BY <1>5, <2>2, <2>8, ReadStep DEF ReadSides, IInv, TypeOK
  <1>6. CASE SaveComparison(c)
    <2>1. PICK row, e, o :
            /\ row = [id |-> op[c].made.id, goal |-> op[c].goal, names |-> op[c].goal,
                      verdict |-> op[c].made.verdict]
            /\ e = IF op[c].then = "validateSave" THEN op[c].made ELSE NoComparison
            /\ o = [op[c] EXCEPT !.pc = op[c].then, !.then = "idle", !.cand = 0,
                                 !.made = NoComparison, !.evidence = e]
      OBVIOUS
    <2>2. op' = [op EXCEPT ![c] = Idle] \/ op' = [op EXCEPT ![c] = o]
      BY <1>6, <2>1 DEF SaveComparison
    <2>3. op[c].pc = "compareSave" /\ op[c].made \in Result /\ op[c].goal \in GoalId
          /\ op[c].then \in {"idle", "judge", "validateSave", "validateKeep"}
      BY <1>0, <1>6 DEF GoodOp, SaveComparison, At, HoldsGoal, HoldsDoc
    <2>4. row \in ComparisonRow
      BY <2>1, <2>3 DEF ComparisonRow, Result
    <2>5. comparisons' \in SUBSET ComparisonRow
      <3>1. comparisons' = Upsert(comparisons, row) /\ comparisons \in SUBSET ComparisonRow
        BY <1>6, <2>1 DEF SaveComparison, IInv, TypeOK
      <3>2. \A r \in comparisons : [row EXCEPT !.goal = r.goal] \in ComparisonRow
        BY <2>4, <3>1 DEF ComparisonRow
      <3> QED BY <2>4, <3>1, <3>2 DEF Upsert
    <2>6. e \in Result \cup {NoComparison}
      BY <2>1, <2>3
    <2>7. o \in OpState
      BY <1>0, <2>1, <2>3, <2>6, ZenonT(40) DEF OpState, Pc
    <2>8. /\ o.pc = op[c].then /\ o.doc = op[c].doc /\ o.goal = op[c].goal
          /\ o.then = "idle" /\ o.pending = op[c].pending
      BY <1>0, <2>1 DEF OpState
    <2>9. GoodOp(o)
      BY <1>0, <2>3, <2>7, <2>8 DEF GoodOp, HoldsGoal, HoldsDoc
    <2> QED
      BY <1>6, <2>2, <2>5, <2>9, IdleIsGood, ReadStep DEF SaveComparison
  <1>7. CASE SaveReview(c)
    <2>1. op[c].goal \in GoalId /\ GoodDoc(op[c].doc)
      BY <1>0, <1>7 DEF GoodOp, SaveReview, At, HoldsDoc, HoldsGoal
    <2>2. PICK d : d = [op[c].doc EXCEPT !.reviews = @ + 1]
      OBVIOUS
    <2>3. d \in Goal /\ d.baseline = op[c].doc.baseline /\ d.finding = op[c].doc.finding /\ d.reviews > 0
      BY <2>1, <2>2 DEF GoodDoc, Goal
    <2>4. GoodDoc(d)
      BY <2>1, <2>3 DEF GoodDoc, CutFromScan, Attested
    <2> QED
      BY <1>7, <2>1, <2>2, <2>4, WriteGoal DEF SaveReview
  <1>8. CASE ReadLatestScan(c)
    <2>1. PICK s \in DOMAIN scans :
            op' = [op EXCEPT ![c] = [@ EXCEPT !.pc = "validateFindings", !.scan = s]]
      BY <1>8 DEF ReadLatestScan
    <2>2. PICK o : o = [op[c] EXCEPT !.pc = "validateFindings", !.scan = s]
      OBVIOUS
    <2>3. s \in Nat
      BY DEF IInv, TypeOK
    <2>4. o \in OpState
      BY <1>0, <2>2, <2>3 DEF OpState, Pc
    <2>5. /\ o.pc = "validateFindings" /\ o.scan = s /\ o.doc = op[c].doc /\ o.goal = op[c].goal
          /\ o.then = op[c].then /\ o.pending = op[c].pending
      BY <1>0, <2>2 DEF OpState
    <2>6. GoodOp(o)
      BY <1>0, <1>8, <2>4, <2>5 DEF GoodOp, ReadLatestScan, At, HoldsGoal, HoldsDoc
    <2> QED
      BY <1>8, <2>1, <2>2, <2>6, ReadStep DEF ReadLatestScan, IInv, TypeOK
  <1>9. CASE ReadFindings(c)
    <2>1. PICK next, found, o :
            /\ next = IF op[c].evidence = NoComparison THEN "validateLook" ELSE "validateSave"
            /\ found = scans[op[c].scan].findings
            /\ o = [op[c] EXCEPT !.pc = next, !.found = found]
      OBVIOUS
    <2>2. op' = [op EXCEPT ![c] = o]
      BY <1>9, <2>1 DEF ReadFindings
    <2>3. next \in {"validateLook", "validateSave"} /\ found \in SUBSET Finding
      <3>1. scans \in Seq(ScanRow) /\ op[c].scan \in DOMAIN scans
        BY <1>0, <1>9 DEF GoodOp, ReadFindings, At, IInv, TypeOK
      <3>2. scans[op[c].scan] \in ScanRow
        BY <3>1
      <3>3. scans[op[c].scan].findings \in SUBSET Finding
        BY <3>2 DEF ScanRow
      <3> QED BY <2>1, <3>3
    <2>4. o \in OpState
      BY <1>0, <2>1, <2>3, ZenonT(40) DEF OpState, Pc
    <2>5. /\ o.pc = next /\ o.doc = op[c].doc /\ o.goal = op[c].goal
          /\ o.then = op[c].then /\ o.pending = op[c].pending
      BY <1>0, <2>1 DEF OpState
    <2>6. GoodOp(o)
      BY <1>0, <1>9, <2>3, <2>4, <2>5 DEF GoodOp, ReadFindings, At, HoldsGoal, HoldsDoc
    <2> QED
      BY <1>9, <2>2, <2>6, ReadStep DEF ReadFindings, IInv, TypeOK
  <1>10. CASE LookForComparison(c)
    <2>0. op[c].pc = "validateLook"
      BY <1>10 DEF LookForComparison, At
    <2>1. CASE \E r \in comparisons :
                 op' = [op EXCEPT ![c] = [@ EXCEPT !.pc = "validateSave",
                                                   !.evidence = [id |-> r.id, verdict |-> r.verdict]]]
      <3>0. PICK r \in comparisons :
              op' = [op EXCEPT ![c] = [op[c] EXCEPT !.pc = "validateSave",
                                                    !.evidence = [id |-> r.id, verdict |-> r.verdict]]]
        BY <2>1, <1>0
      <3>1. PICK e, o :
              /\ e = [id |-> r.id, verdict |-> r.verdict]
              /\ o = [op[c] EXCEPT !.pc = "validateSave", !.evidence = e]
              /\ op' = [op EXCEPT ![c] = o]
        BY <3>0
      <3>2. e \in Result
        BY <3>1 DEF IInv, TypeOK, ComparisonRow, Result
      <3>3. o \in OpState
        BY <1>0, <3>1, <3>2, ZenonT(40) DEF OpState, Pc
      <3>4. /\ o.pc = "validateSave" /\ o.doc = op[c].doc /\ o.goal = op[c].goal
            /\ o.then = op[c].then /\ o.pending = op[c].pending
        BY <1>0, <3>1 DEF OpState
      <3>5. GoodOp(o)
        BY <1>0, <2>0, <3>3, <3>4 DEF GoodOp, HoldsGoal, HoldsDoc
      <3> QED
        BY <1>10, <3>1, <3>5, ReadStep DEF LookForComparison, IInv, TypeOK
    <2>2. CASE op' = [op EXCEPT ![c] = [@ EXCEPT !.pc = "compare", !.then = "validateSave"]]
      <3>1. PICK o : o = [op[c] EXCEPT !.pc = "compare", !.then = "validateSave"]
        OBVIOUS
      <3>2. o \in OpState
        BY <1>0, <3>1 DEF OpState, Pc
      <3>3. /\ o.pc = "compare" /\ o.doc = op[c].doc /\ o.goal = op[c].goal
            /\ o.then = "validateSave" /\ o.pending = op[c].pending
        BY <1>0, <3>1 DEF OpState
      <3>4. GoodOp(o)
        BY <1>0, <2>0, <3>2, <3>3 DEF GoodOp, HoldsGoal, HoldsDoc
      <3> QED
        BY <1>10, <2>2, <3>1, <3>4, ReadStep DEF LookForComparison, IInv, TypeOK
    <2>3. CASE op' = [op EXCEPT ![c] = [@ EXCEPT !.pc = "validateJudge"]]
      <3>1. PICK o : o = [op[c] EXCEPT !.pc = "validateJudge"]
        OBVIOUS
      <3>2. o \in OpState
        BY <1>0, <3>1 DEF OpState, Pc
      <3>3. /\ o.pc = "validateJudge" /\ o.doc = op[c].doc /\ o.goal = op[c].goal
            /\ o.then = op[c].then /\ o.pending = op[c].pending
        BY <1>0, <3>1 DEF OpState
      <3>4. GoodOp(o)
        BY <1>0, <2>0, <3>2, <3>3 DEF GoodOp, HoldsGoal, HoldsDoc
      <3> QED
        BY <1>10, <2>3, <3>1, <3>4, ReadStep DEF LookForComparison, IInv, TypeOK
    <2> QED
      BY <1>10, <2>1, <2>2, <2>3 DEF LookForComparison
  <1>11. CASE JudgeWithoutEvidence(c)
    <2>0. op[c].pc = "validateJudge"
      BY <1>11 DEF JudgeWithoutEvidence, At
    <2>1. PICK o, q : /\ o = [op[c] EXCEPT !.pc = "compare", !.then = "validateKeep"]
                      /\ q = [op[c] EXCEPT !.pc = "validateKeep"]
      OBVIOUS
    <2>2. op' = [op EXCEPT ![c] = o] \/ op' = [op EXCEPT ![c] = q]
      BY <1>11, <2>1 DEF JudgeWithoutEvidence
    <2>3. o \in OpState /\ q \in OpState
      BY <1>0, <2>1, ZenonT(40) DEF OpState, Pc
    <2>4. /\ o.pc = "compare" /\ o.doc = op[c].doc /\ o.goal = op[c].goal
          /\ o.then = "validateKeep" /\ o.pending = op[c].pending
      BY <1>0, <2>1 DEF OpState
    <2>5. /\ q.pc = "validateKeep" /\ q.doc = op[c].doc /\ q.goal = op[c].goal
          /\ q.then = op[c].then /\ q.pending = op[c].pending
      BY <1>0, <2>1 DEF OpState
    <2>6. GoodOp(o) /\ GoodOp(q)
      BY <1>0, <2>0, <2>3, <2>4, <2>5 DEF GoodOp, HoldsGoal, HoldsDoc
    <2> QED
      BY <1>11, <2>2, <2>6, ReadStep DEF JudgeWithoutEvidence, IInv, TypeOK
  <1>12. CASE SaveValidation(c)
    <2>1. op[c].goal \in GoalId /\ GoodDoc(op[c].doc)
      BY <1>0, <1>12 DEF GoodOp, SaveValidation, At, HoldsDoc, HoldsGoal
    <2>2. PICK status, results, d :
            /\ status = StatusAfter(op[c].doc, op[c].found)
            /\ results = ResultsAfter(op[c].doc, op[c].evidence)
            /\ d = [op[c].doc EXCEPT !.status = status, !.results = results]
      OBVIOUS
    <2>3. /\ status \in {"in_progress", "validated"}
          /\ status = "validated" => ReviewSatisfied(op[c].doc)
      BY <2>2 DEF StatusAfter, Validated
    <2>4. results \in SUBSET Result
      <3>1. op[c].doc.results \in SUBSET Result /\ op[c].evidence \in Result \cup {NoComparison}
        BY <1>0, <2>1 DEF GoodDoc, Goal, OpState
      <3> QED BY <2>2, <3>1 DEF ResultsAfter
    <2>5. d \in Goal /\ d.baseline = op[c].doc.baseline /\ d.finding = op[c].doc.finding
          /\ d.reviews = op[c].doc.reviews /\ d.status = status
      BY <2>1, <2>2, <2>3, <2>4 DEF GoodDoc, Goal
    <2>6. GoodDoc(d)
      BY <2>1, <2>3, <2>5 DEF GoodDoc, CutFromScan, Attested, ReviewSatisfied
    <2> QED
      BY <1>12, <2>1, <2>2, <2>6, WriteGoal DEF SaveValidation
  <1> QED
    BY <1>1, <1>2, <1>3, <1>4, <1>5, <1>6, <1>7, <1>8, <1>9, <1>10, <1>11, <1>12 DEF JudgeStep

----------------------------------------------------------------------------
(* The invariant.                                                          *)

\* Lemma: time, changes of the repository and the death of a host keep it.
LEMMA SurroundingsKeepIInv ==
  ASSUME IInv, Tick \/ (\E f \in Finding : EditTree(f)) \/ (\E h \in Host : Crash(h))
  PROVE  IInv'
  <1>1. ScansGrow /\ scans' = scans /\ goals' = goals
    BY SameScansGrow DEF IInv, Tick, EditTree, Crash
  <1>2. ScansOK' /\ GoalsOK'
    BY <1>1, GoodDocKept DEF IInv, ScansOK, GoalsOK, Stored
  <1>3. \A c \in Call : op'[c] = op[c] \/ op'[c] = Idle
    BY DEF IInv, TypeOK, Tick, EditTree, Crash
  <1>4. OpsOK'
    BY <1>1, <1>3, GoodOpKept, IdleIsGood DEF IInv, OpsOK
  <1>5. Idle \in OpState
    BY IdleIsGood DEF GoodOp
  <1>6. TypeOK'
    BY <1>5 DEF IInv, TypeOK, Tick, EditTree, Crash
  <1> QED
    BY <1>2, <1>4, <1>6 DEF IInv

\* Theorem: IInv holds of every state, whoever runs and whoever dies.
THEOREM Invariance == Spec => []IInv
  <1>1. Init => IInv
    BY IdleIsGood DEF Init, IInv, TypeOK, ScansOK, GoalsOK, OpsOK, Stored, GoodOp
  <1>2. IInv /\ [Next]_vars => IInv'
    <2> SUFFICES ASSUME IInv, [Next]_vars PROVE IInv'
      OBVIOUS
    <2>1. CASE Next
      BY <2>1, AuditKeepsIInv, CreateKeepsIInv, JudgeKeepsIInv, SurroundingsKeepIInv DEF Next
    <2>2. CASE UNCHANGED vars
      BY <2>2 DEF vars, IInv, TypeOK, ScansOK, GoalsOK, OpsOK, Stored, GoodOp, GoodDoc,
                  CutFromScan, Attested
    <2> QED
      BY <2>1, <2>2
  <1> QED
    BY <1>1, <1>2, PTL DEF Spec

\* Theorem: the tables and the calls have the shape of the schemas in every state.
THEOREM TypeCorrect == Spec => []TypeOK
  <1>1. IInv => TypeOK
    BY DEF IInv
  <1> QED
    BY <1>1, Invariance, PTL

\* Theorem: the scan a goal was cut from is stored and reports the goal's finding,
\* although scans and findings are saved by separate transactions of other hosts.
THEOREM BaselineReports == Spec => []BaselineReportsFinding
  <1>1. IInv => BaselineReportsFinding
    BY DEF IInv, GoalsOK, GoodDoc, CutFromScan, BaselineReportsFinding
  <1> QED
    BY <1>1, Invariance, PTL

\* Theorem: a goal that asks for a review is validated only with one recorded,
\* although reviews and validations overwrite one another's documents.
THEOREM AttestationRequired == Spec => []AttestedWhenRequired
  <1>1. IInv => AttestedWhenRequired
    BY DEF IInv, GoalsOK, GoodDoc, Attested, AttestedWhenRequired
  <1> QED
    BY <1>1, Invariance, PTL
----------------------------------------------------------------------------
(* One process.                                                            *)


\* Every call runs in the one process, as under the MCP server.
OneHost == \A c, d \in Call : host[c] = host[d]

\* goalId pads every number there can be, so that nextGoalSequence reads them all back.
NumbersParse == MaxGoals <= MaxPadded

NobodyDies == MaxCrashes = 0

\* A scan no older than the baseline of a document did not conclude its finding.
Rescanned(doc) ==
  \E s \in DOMAIN scans :
    /\ s # doc.baseline /\ scans[s].at >= scans[doc.baseline].at
    /\ doc.finding \notin scans[s].fired

\* The statements inside compareUseCase, and those that judge or write back a goal: in them,
\* or in a comparison they wait for.
Comparing == {"compare", "compareRead", "compareSave"}

Judging(o) ==
  \/ o.pc \in {"validateLook", "validateJudge", "validateSave", "validateKeep"}
  \/ o.pc \in Comparing /\ o.then \in {"validateSave", "validateKeep"}

WritesBack(o) == o.pc \in {"reviewSave", "validateScan", "validateFindings"} \/ Judging(o)

\* What a call read is still so.
Fresh(o) ==
  /\ o.pc \in {"createLook", "createNumber", "createSave"} => o.doc.status = "ready"
  /\ o.pc \in {"createNumber", "createSave"} /\ ~o.another => ~HasOpenGoal(o.doc.finding)
  /\ o.pc = "createSave" /\ NumbersParse => ~Stored(o.goal)
  /\ WritesBack(o) => Stored(o.goal) /\ o.doc = goals[o.goal]
  /\ o.pc = "validateFindings" => IsLatestScan(o.scan)
  /\ Judging(o) /\ NobodyDies => o.doc.finding \in o.found \/ Rescanned(o.doc)

\* Only one call is between its reads and its writes, and it is up to date.
LoneInv ==
  \A c \in Call : op[c].pc \notin Yielded =>
    /\ Fresh(op[c])
    /\ \A d \in Call : d # c => op[d].pc \in Yielded

\* A scan without all of its findings is one that an audit is about to complete.
ScansComplete ==
  \A s \in DOMAIN scans :
    \/ scans[s].findings = scans[s].fired
    \/ \E d \in Call : op[d].pc = "saveFindings" /\ op[d].scan = s

RescanInv == NobodyDies => ScansComplete /\ ValidatedHasRescan

HostInv == LoneInv /\ RescanInv

----------------------------------------------------------------------------
\* Lemma: a step of a call that may run leaves it alone with what it holds.
LEMMA LoneStep ==
  ASSUME OneHost, IInv, NEW c \in Call, MayRun(c), NEW o, op' = [op EXCEPT ![c] = o],
         o.pc \in Yielded \/ Fresh(o)'
  PROVE  LoneInv'
  <1>1. op'[c] = o /\ \A d \in Call : d # c => op'[d] = op[d] /\ op[d].pc \in Yielded
    BY DEF MayRun, OneHost, IInv, TypeOK
  <1> QED BY <1>1 DEF LoneInv

\* What a call holds at the statements that rest on nothing it read before.
Plain(o) ==
  \/ o.pc \in {"idle", "parsing", "saveScan", "saveFindings", "listGoals", "judge", "createFind"}
  \/ o.pc \in Comparing /\ o.then \notin {"validateSave", "validateKeep"}

\* Lemma: there it is up to date.
LEMMA PlainIsFresh == ASSUME NEW o, Plain(o) PROVE Fresh(o)'
  BY DEF Plain, Fresh, WritesBack, Judging, Comparing

\* Lemma: what a call goes on holding stays up to date in a step that changes no scan or goal.
LEMMA CarriedIsFresh ==
  ASSUME NEW p, NEW o, Fresh(p), UNCHANGED <<scans, goals>>,
         o.doc = p.doc, o.goal = p.goal, o.found = p.found,
         o.pc \notin {"createLook", "createNumber", "createSave", "validateFindings"},
         WritesBack(o) => WritesBack(p), Judging(o) => Judging(p)
  PROVE  Fresh(o)'
  <1>1. WritesBack(o) => Stored(o.goal)' /\ o.doc = goals'[o.goal]
    BY DEF Fresh, Stored
  <1>2. Judging(o) /\ NobodyDies => o.doc.finding \in o.found \/ Rescanned(o.doc)'
    BY DEF Fresh, Rescanned
  <1> QED BY <1>1, <1>2 DEF Fresh, WritesBack, Judging

\* Lemma: runAudit reads nothing that it would write back.
LEMMA AuditIsPlain ==
  ASSUME IInv, NEW c \in Call, AuditStep(c)
  PROVE  MayRun(c) /\ goals' = goals /\ \E o : Plain(o) /\ op' = [op EXCEPT ![c] = o]
  <1>0. op[c] \in OpState
    BY DEF IInv, TypeOK
  <1>1. CASE StartAudit(c)
    BY <1>1 DEF StartAudit, At, Plain, Idle, tables
  <1>2. CASE FinishDiscovery(c)
    <2> DEFINE o == [op[c] EXCEPT !.pc = "saveScan", !.found = tree]
    <2>1. Plain(o)
      BY <1>0 DEF Plain, OpState
    <2> QED BY <1>2, <2>1 DEF FinishDiscovery, At, tables
  <1>3. CASE SaveScan(c)
    <2>1. \A s : Plain([op[c] EXCEPT !.pc = "saveFindings", !.scan = s])
      BY <1>0 DEF Plain, OpState
    <2> QED BY <1>3, <2>1 DEF SaveScan, At
  <1>4. CASE SaveFindings(c)
    <2>1. Plain([op[c] EXCEPT !.pc = "listGoals"])
      BY <1>0 DEF Plain, OpState
    <2> QED BY <1>4, <2>1 DEF SaveFindings, At
  <1>5. CASE ListGoals(c)
    <2>1. \A rest : Plain([op[c] EXCEPT !.pc = "judge", !.pending = rest])
      BY <1>0 DEF Plain, OpState
    <2> QED BY <1>5, <2>1 DEF ListGoals, At, tables
  <1>6. CASE JudgeNext(c)
    <2>1. op[c].pc = "judge"
      BY <1>6 DEF JudgeNext, At
    <2>2. \A rest, g, d : Plain([op[c] EXCEPT !.pending = rest, !.pc = "compare", !.then = "judge",
                                              !.goal = g, !.doc = d])
      BY <1>0 DEF Plain, OpState, Comparing
    <2>3. \A rest : Plain([op[c] EXCEPT !.pending = rest])
      BY <1>0, <2>1 DEF Plain, OpState
    <2> QED BY <1>6, <2>2, <2>3 DEF JudgeNext, At, tables
  <1>7. CASE SaveReport(c)
    BY <1>7 DEF SaveReport, At, Plain, Idle, tables
  <1> QED BY <1>1, <1>2, <1>3, <1>4, <1>5, <1>6, <1>7 DEF AuditStep

\* Lemma: between the look for an open goal and the saving of a new one nothing intervenes.
LEMMA CreateIsFresh ==
  ASSUME OneHost, IInv, LoneInv, NEW c \in Call, CreateStep(c)
  PROVE  LoneInv'
  <1>0. /\ op[c] \in OpState /\ GoodOp(op[c])
        /\ op[c].pc \notin Yielded => Fresh(op[c])
    BY DEF IInv, TypeOK, OpsOK, LoneInv
  <1>1. ASSUME NEW f \in Finding, NEW another \in BOOLEAN, CreateGoal(c, f, another)
        PROVE  LoneInv'
    <2>1. \A s : Plain([Idle EXCEPT !.pc = "createFind", !.another = another, !.doc = NewGoal(f, s)])
      BY DEF Plain, Idle
    <2> QED BY <1>1, <2>1, PlainIsFresh, LoneStep DEF CreateGoal, At
  <1>2. CASE FindFinding(c)
    <2>1. PICK next, o : /\ next = IF op[c].another THEN "createNumber" ELSE "createLook"
                         /\ o = [op[c] EXCEPT !.pc = next]
      OBVIOUS
    <2>2. op' = [op EXCEPT ![c] = Idle] \/ op' = [op EXCEPT ![c] = o]
      BY <1>2, <2>1 DEF FindFinding
    <2>3. op[c].doc.status = "ready"
      BY <1>0, <1>2 DEF GoodOp, FindFinding, At
    <2>4. o.pc = next /\ o.doc = op[c].doc /\ o.another = op[c].another
      BY <1>0, <2>1 DEF OpState
    <2>5. Fresh(o)'
      BY <2>1, <2>3, <2>4 DEF Fresh, WritesBack, Judging, Comparing
    <2>6. Idle.pc \in Yielded
      BY DEF Idle, Yielded
    <2> QED BY <1>2, <2>2, <2>5, <2>6, LoneStep DEF FindFinding, At
  <1>3. CASE LookForOpenGoal(c)
    <2>1. PICK o : o = [op[c] EXCEPT !.pc = "createNumber"]
      OBVIOUS
    <2>2. /\ \/ op' = [op EXCEPT ![c] = Idle]
             \/ op' = [op EXCEPT ![c] = o] /\ ~HasOpenGoal(op[c].doc.finding)
          /\ goals' = goals /\ op[c].pc = "createLook"
      BY <1>3, <2>1 DEF LookForOpenGoal, At, tables
    <2>3. op[c].doc.status = "ready"
      BY <1>0, <2>2 DEF Fresh, Yielded
    <2>4. o.pc = "createNumber" /\ o.doc = op[c].doc
      BY <1>0, <2>1 DEF OpState
    <2>5. ~HasOpenGoal(op[c].doc.finding) => Fresh(o)'
      BY <2>2, <2>3, <2>4 DEF Fresh, WritesBack, Judging, Comparing, HasOpenGoal, Stored
    <2>6. Idle.pc \in Yielded
      BY DEF Idle, Yielded
    <2> QED BY <1>3, <2>2, <2>5, <2>6, LoneStep DEF LookForOpenGoal, At
  <1>4. CASE NumberGoal(c)
    <2>1. PICK n \in GoalId : /\ IsNextGoalSequence(n)
                              /\ op' = [op EXCEPT ![c] = [op[c] EXCEPT !.pc = "createSave", !.goal = n,
                                                                       !.doc.createdAt = now]]
      BY <1>0, <1>4 DEF NumberGoal
    <2>2. PICK d, o : /\ d = [op[c].doc EXCEPT !.createdAt = now]
                      /\ o = [op[c] EXCEPT !.pc = "createSave", !.goal = n, !.doc = d]
      OBVIOUS
    <2>3. op' = [op EXCEPT ![c] = o] /\ goals' = goals /\ op[c].pc = "createNumber"
      BY <1>0, <1>4, <2>1, <2>2 DEF NumberGoal, At, OpState, tables
    <2>4. /\ op[c].doc.status = "ready" /\ op[c].doc \in Goal
          /\ ~op[c].another => ~HasOpenGoal(op[c].doc.finding)
      BY <1>0, <2>3 DEF Fresh, Yielded, GoodOp, GoodDoc, HoldsDoc
    <2>5. d.finding = op[c].doc.finding /\ d.status = "ready"
      BY <2>2, <2>4 DEF Goal
    <2>6. o.pc = "createSave" /\ o.doc = d /\ o.goal = n /\ o.another = op[c].another
      BY <1>0, <2>2 DEF OpState
    <2>7. NumbersParse => ~Stored(n)
      <3>1. Parseable(n) /\ Stored(n) => n < n
        BY <2>1 DEF IsNextGoalSequence
      <3>2. NumbersParse => Parseable(n)
        BY BoundAssumption DEF NumbersParse, Parseable, GoalId
      <3>3. ~(n < n)
        BY DEF GoalId
      <3> QED BY <3>1, <3>2, <3>3
    <2>8. Fresh(o)'
      BY <2>3, <2>4, <2>5, <2>6, <2>7 DEF Fresh, WritesBack, Judging, Comparing, HasOpenGoal, Stored
    <2> QED BY <1>4, <2>3, <2>8, LoneStep DEF NumberGoal, At
  <1>5. CASE SaveNewGoal(c)
    <2>1. Idle.pc \in Yielded
      BY DEF Idle, Yielded
    <2> QED BY <1>5, <2>1, LoneStep DEF SaveNewGoal, At
  <1> QED BY <1>1, <1>2, <1>3, <1>4, <1>5 DEF CreateStep

\* Lemma: nor between what a comparison, a review or a validation reads and what it writes.
LEMMA JudgeIsFresh ==
  ASSUME OneHost, IInv, LoneInv, RescanInv, NEW c \in Call, JudgeStep(c)
  PROVE  LoneInv'
  <1>0. /\ op[c] \in OpState /\ GoodOp(op[c])
        /\ op[c].pc \notin Yielded => Fresh(op[c])
    BY DEF IInv, TypeOK, OpsOK, LoneInv
  <1>a. Idle.pc \in Yielded
    BY DEF Idle, Yielded
  <1>1. ASSUME NEW g \in GoalId, CompareForGoal(c, g)
        PROVE  LoneInv'
    <2>1. Plain([Idle EXCEPT !.pc = "compare", !.goal = g, !.doc = goals[g]])
      BY DEF Plain, Idle, Comparing
    <2> QED BY <1>1, <2>1, PlainIsFresh, LoneStep DEF CompareForGoal, At
  <1>2. ASSUME NEW g \in GoalId, ReviewGoal(c, g)
        PROVE  LoneInv'
    <2>1. PICK o : o = [Idle EXCEPT !.pc = "reviewSave", !.goal = g, !.doc = goals[g]]
      OBVIOUS
    <2>2. o.pc = "reviewSave" /\ o.goal = g /\ o.doc = goals[g]
      BY <2>1 DEF Idle
    <2>3. Stored(g) /\ goals' = goals /\ MayRun(c) /\ op' = [op EXCEPT ![c] = o]
      BY <1>2, <2>1 DEF ReviewGoal, At, tables
    <2>4. Fresh(o)'
      BY <2>2, <2>3 DEF Fresh, WritesBack, Judging, Comparing, Stored
    <2> QED BY <2>3, <2>4, LoneStep
  <1>3. ASSUME NEW g \in GoalId, NEW evidence \in NameableEvidence, ValidateGoal(c, g, evidence)
        PROVE  LoneInv'
    <2>1. PICK o : o = [Idle EXCEPT !.pc = "validateScan", !.goal = g, !.doc = goals[g],
                                    !.evidence = evidence]
      OBVIOUS
    <2>2. o.pc = "validateScan" /\ o.goal = g /\ o.doc = goals[g]
      BY <2>1 DEF Idle
    <2>3. Stored(g) /\ goals' = goals /\ MayRun(c) /\ op' = [op EXCEPT ![c] = o]
      BY <1>3, <2>1 DEF ValidateGoal, At, tables
    <2>4. Fresh(o)'
      BY <2>2, <2>3 DEF Fresh, WritesBack, Judging, Comparing, Stored
    <2> QED BY <2>3, <2>4, LoneStep
  <1>4. CASE ResolveCandidate(c)
    <2>1. PICK s, o : /\ o = [op[c] EXCEPT !.pc = "compareRead", !.cand = s]
                      /\ op' = [op EXCEPT ![c] = o]
      BY <1>4 DEF ResolveCandidate
    <2>2. /\ o.pc = "compareRead" /\ o.then = op[c].then
          /\ o.doc = op[c].doc /\ o.goal = op[c].goal /\ o.found = op[c].found
      BY <1>0, <2>1 DEF OpState
    <2>3. op[c].pc = "compare" /\ MayRun(c) /\ UNCHANGED <<scans, goals>>
      BY <1>4 DEF ResolveCandidate, At, tables
    <2>4. WritesBack(o) => WritesBack(op[c])
      BY <2>2, <2>3 DEF WritesBack, Judging, Comparing
    <2>5. Judging(o) => Judging(op[c])
      BY <2>2, <2>3 DEF Judging, Comparing
    <2>6. PICK p : p = op[c]
      OBVIOUS
    <2>7. Fresh(o)'
      BY <1>0, <2>2, <2>3, <2>4, <2>5, <2>6, CarriedIsFresh DEF Yielded
    <2> QED BY <2>1, <2>3, <2>7, LoneStep
  <1>5. CASE ReadSides(c)
    <2>1. PICK m, o : /\ o = [op[c] EXCEPT !.pc = "compareSave", !.made = m]
                      /\ op' = [op EXCEPT ![c] = o]
      BY <1>5 DEF ReadSides
    <2>2. /\ o.pc = "compareSave" /\ o.then = op[c].then
          /\ o.doc = op[c].doc /\ o.goal = op[c].goal /\ o.found = op[c].found
      BY <1>0, <2>1 DEF OpState
    <2>3. op[c].pc = "compareRead" /\ MayRun(c) /\ UNCHANGED <<scans, goals>>
      BY <1>5 DEF ReadSides, At, tables
    <2>4. WritesBack(o) => WritesBack(op[c])
      BY <2>2, <2>3 DEF WritesBack, Judging, Comparing
    <2>5. Judging(o) => Judging(op[c])
      BY <2>2, <2>3 DEF Judging, Comparing
    <2>6. PICK p : p = op[c]
      OBVIOUS
    <2>7. Fresh(o)'
      BY <1>0, <2>2, <2>3, <2>4, <2>5, <2>6, CarriedIsFresh DEF Yielded
    <2> QED BY <2>1, <2>3, <2>7, LoneStep
  <1>6. CASE SaveComparison(c)
    <2>1. PICK e, o : o = [op[c] EXCEPT !.pc = op[c].then, !.then = "idle", !.cand = 0,
                                        !.made = NoComparison, !.evidence = e]
                      /\ (op' = [op EXCEPT ![c] = Idle] \/ op' = [op EXCEPT ![c] = o])
      BY <1>6 DEF SaveComparison
    <2>2. /\ o.pc = op[c].then /\ o.then = "idle"
          /\ o.doc = op[c].doc /\ o.goal = op[c].goal /\ o.found = op[c].found
      BY <1>0, <2>1 DEF OpState
    <2>3. /\ op[c].pc = "compareSave" /\ MayRun(c) /\ UNCHANGED <<scans, goals>>
          /\ op[c].then \in {"idle", "judge", "validateSave", "validateKeep"}
      BY <1>0, <1>6 DEF SaveComparison, At, GoodOp
    <2>4. WritesBack(o) => WritesBack(op[c])
      BY <2>2, <2>3 DEF WritesBack, Judging, Comparing
    <2>5. Judging(o) => Judging(op[c])
      BY <2>2, <2>3 DEF Judging, Comparing
    <2>6. PICK p : p = op[c]
      OBVIOUS
    <2>7. Fresh(o)'
      BY <1>0, <2>2, <2>3, <2>4, <2>5, <2>6, CarriedIsFresh DEF Yielded
    <2> QED BY <1>a, <2>1, <2>3, <2>7, LoneStep
  <1>7. CASE SaveReview(c)
    BY <1>a, <1>7, LoneStep DEF SaveReview, At
  <1>8. CASE ReadLatestScan(c)
    <2>1. PICK s, o : /\ o = [op[c] EXCEPT !.pc = "validateFindings", !.scan = s]
                      /\ op' = [op EXCEPT ![c] = o] /\ IsLatestScan(s)
      BY <1>8 DEF ReadLatestScan
    <2>2. /\ o.pc = "validateFindings" /\ o.scan = s
          /\ o.doc = op[c].doc /\ o.goal = op[c].goal
      BY <1>0, <2>1 DEF OpState
    <2>3. op[c].pc = "validateScan" /\ MayRun(c) /\ UNCHANGED <<scans, goals>>
      BY <1>8 DEF ReadLatestScan, At, tables
    <2>4. Stored(o.goal) /\ o.doc = goals[o.goal]
      BY <1>0, <2>2, <2>3 DEF Fresh, WritesBack, Yielded
    <2>5. Fresh(o)'
      BY <2>1, <2>2, <2>3, <2>4 DEF Fresh, WritesBack, Judging, Comparing, Stored, IsLatestScan
    <2> QED BY <2>1, <2>3, <2>5, LoneStep
  <1>9. CASE ReadFindings(c)
    <2>1. PICK next, found, o :
            /\ next \in {"validateLook", "validateSave"} /\ found = scans[op[c].scan].findings
            /\ o = [op[c] EXCEPT !.pc = next, !.found = found] /\ op' = [op EXCEPT ![c] = o]
      BY <1>9 DEF ReadFindings
    <2>2. /\ o.pc = next /\ o.found = found /\ o.doc = op[c].doc /\ o.goal = op[c].goal
      BY <1>0, <2>1 DEF OpState
    <2>3. op[c].pc = "validateFindings" /\ MayRun(c) /\ UNCHANGED <<scans, goals>>
      BY <1>9 DEF ReadFindings, At, tables
    <2>4. Stored(o.goal) /\ o.doc = goals[o.goal] /\ IsLatestScan(op[c].scan)
      BY <1>0, <2>2, <2>3 DEF Fresh, WritesBack, Yielded
    <2>5. CutFromScan(o.doc)
      BY <1>0, <2>2, <2>3 DEF GoodOp, HoldsDoc, GoodDoc
    <2>6. ASSUME NobodyDies, o.doc.finding \notin o.found
          PROVE  Rescanned(o.doc)
      <3>1. op[c].scan \in DOMAIN scans /\ scans[o.doc.baseline].at <= scans[op[c].scan].at
        <4>1. scans \in Seq(ScanRow)
          BY DEF IInv, TypeOK
        <4>2. o.doc.baseline \in DOMAIN scans /\ op[c].scan \in DOMAIN scans
          BY <2>4, <2>5 DEF IsLatestScan, CutFromScan
        <4>3. scans[o.doc.baseline] \in ScanRow /\ scans[op[c].scan] \in ScanRow
          BY <4>1, <4>2
        <4>4. scans[o.doc.baseline].at \in Nat /\ scans[op[c].scan].at \in Nat
          BY <4>3 DEF ScanRow
        <4> QED BY <2>4, <4>2, <4>4 DEF IsLatestScan
      <3>2. scans[op[c].scan].findings = scans[op[c].scan].fired
        <4>1. \A d \in Call : op[d].pc # "saveFindings"
          BY <2>3 DEF LoneInv, Yielded
        <4> QED BY <2>6, <3>1, <4>1 DEF RescanInv, ScansComplete
      <3>3. o.doc.finding \notin scans[op[c].scan].fired /\ op[c].scan # o.doc.baseline
        BY <2>1, <2>2, <2>5, <2>6, <3>2 DEF CutFromScan
      <3>4. scans[op[c].scan].at >= scans[o.doc.baseline].at
        BY <3>1
      <3> QED BY <3>1, <3>3, <3>4 DEF Rescanned
    <2>7. Fresh(o)'
      <3>1. NobodyDies => o.doc.finding \in o.found \/ Rescanned(o.doc)'
        BY <2>3, <2>6 DEF Rescanned
      <3>2. Stored(o.goal)' /\ o.doc = goals'[o.goal]
        BY <2>3, <2>4 DEF Stored
      <3> QED BY <2>1, <2>2, <3>1, <3>2 DEF Fresh
    <2> QED BY <2>1, <2>3, <2>7, LoneStep
  <1>10. CASE LookForComparison(c)
    <2>1. PICK o :
            /\ op' = [op EXCEPT ![c] = o]
            /\ o.doc = op[c].doc /\ o.goal = op[c].goal /\ o.found = op[c].found
            /\ o.pc \in {"validateSave", "validateJudge", "compare"}
      <3> DEFINE recorded(e) == [op[c] EXCEPT !.pc = "validateSave", !.evidence = e]
                 made == [op[c] EXCEPT !.pc = "compare", !.then = "validateSave"]
                 none == [op[c] EXCEPT !.pc = "validateJudge"]
      <3>1. \A e : /\ recorded(e).doc = op[c].doc /\ recorded(e).goal = op[c].goal
                   /\ recorded(e).found = op[c].found /\ recorded(e).pc = "validateSave"
        BY <1>0 DEF OpState
      <3>2. /\ made.doc = op[c].doc /\ made.goal = op[c].goal /\ made.found = op[c].found
            /\ made.pc = "compare"
            /\ none.doc = op[c].doc /\ none.goal = op[c].goal /\ none.found = op[c].found
            /\ none.pc = "validateJudge"
        BY <1>0 DEF OpState
      <3>3. \/ \E e : op' = [op EXCEPT ![c] = recorded(e)]
            \/ op' = [op EXCEPT ![c] = made]
            \/ op' = [op EXCEPT ![c] = none]
        BY <1>10 DEF LookForComparison
      <3> HIDE DEF recorded, made, none
      <3> QED BY <3>1, <3>2, <3>3
    <2>3. op[c].pc = "validateLook" /\ MayRun(c) /\ UNCHANGED <<scans, goals>>
      BY <1>10 DEF LookForComparison, At, tables
    <2>4. WritesBack(op[c]) /\ Judging(op[c])
      BY <2>3 DEF WritesBack, Judging
    <2>5. PICK p : p = op[c]
      OBVIOUS
    <2>6. Fresh(o)'
      BY <1>0, <2>1, <2>3, <2>4, <2>5, CarriedIsFresh DEF Yielded
    <2> QED BY <2>1, <2>3, <2>6, LoneStep
  <1>11. CASE JudgeWithoutEvidence(c)
    <2>1. PICK o, q : /\ o = [op[c] EXCEPT !.pc = "compare", !.then = "validateKeep"]
                      /\ q = [op[c] EXCEPT !.pc = "validateKeep"]
      OBVIOUS
    <2>2. op' = [op EXCEPT ![c] = o] \/ op' = [op EXCEPT ![c] = q]
      BY <1>11, <2>1 DEF JudgeWithoutEvidence
    <2>3. op[c].pc = "validateJudge" /\ MayRun(c) /\ UNCHANGED <<scans, goals>>
      BY <1>11 DEF JudgeWithoutEvidence, At, tables
    <2>4. /\ o.pc = "compare" /\ o.doc = op[c].doc /\ o.goal = op[c].goal /\ o.found = op[c].found
          /\ q.pc = "validateKeep" /\ q.doc = op[c].doc /\ q.goal = op[c].goal /\ q.found = op[c].found
      BY <1>0, <2>1 DEF OpState
    <2>5. WritesBack(op[c]) /\ Judging(op[c])
      BY <2>3 DEF WritesBack, Judging
    <2>6. PICK p : p = op[c]
      OBVIOUS
    <2>7. Fresh(o)' /\ Fresh(q)'
      BY <1>0, <2>3, <2>4, <2>5, <2>6, CarriedIsFresh DEF Yielded
    <2> QED BY <2>2, <2>3, <2>7, LoneStep
  <1>12. CASE SaveValidation(c)
    BY <1>a, <1>12, LoneStep DEF SaveValidation, At
  <1> QED
    BY <1>1, <1>2, <1>3, <1>4, <1>5, <1>6, <1>7, <1>8, <1>9, <1>10, <1>11, <1>12 DEF JudgeStep

\* Lemma: one call at a time is between its reads and its writes, and up to date.
LEMMA LoneKept == ASSUME OneHost, IInv, HostInv, [Next]_vars PROVE LoneInv'
  <1>1. ASSUME NEW c \in Call, AuditStep(c)
        PROVE  LoneInv'
    BY <1>1, AuditIsPlain, PlainIsFresh, LoneStep
  <1>2. ASSUME NEW c \in Call, CreateStep(c) \/ JudgeStep(c)
        PROVE  LoneInv'
    BY <1>2, CreateIsFresh, JudgeIsFresh DEF HostInv
  <1>3. CASE Tick \/ (\E f \in Finding : EditTree(f)) \/ (\E h \in Host : Crash(h)) \/ UNCHANGED vars
    <2>1. UNCHANGED <<scans, goals>> /\ \A c \in Call : op'[c] = op[c] \/ op'[c] = Idle
      BY <1>3 DEF Tick, EditTree, Crash, vars, IInv, TypeOK
    <2>2. \A o : Fresh(o) => Fresh(o)'
      BY <2>1 DEF Fresh, WritesBack, Judging, Comparing, HasOpenGoal, Stored, IsLatestScan, Rescanned
    <2>3. Idle.pc \in Yielded
      BY DEF Idle, Yielded
    <2> QED BY <2>1, <2>2, <2>3 DEF HostInv, LoneInv
  <1> QED BY <1>1, <1>2, <1>3 DEF Next

WritesGoal(c) == SaveNewGoal(c) \/ SaveReview(c) \/ SaveValidation(c)

\* Lemma: what a write of a goal keeps of the one under its identifier, when there is one, and
\* what makes it validated.
LEMMA GoalWritten ==
  ASSUME IInv, HostInv, NEW c \in Call, WritesGoal(c)
  PROVE  \E g \in GoalId, d \in Goal :
           /\ goals' = [goals EXCEPT ![g] = d] /\ scans' = scans
           /\ \/ d.status = "ready" /\ (NumbersParse => ~Stored(g))
              \/ /\ Stored(g) /\ d.finding = goals[g].finding /\ d.baseline = goals[g].baseline
                 /\ d.createdAt = goals[g].createdAt /\ d.reviews >= goals[g].reviews
                 /\ goals[g].results \subseteq d.results
                 /\ d.status = "validated" /\ NobodyDies =>
                      d.status = goals[g].status \/ Rescanned(d)
  <1>0. /\ op[c] \in OpState /\ GoodOp(op[c])
        /\ op[c].pc \notin Yielded => Fresh(op[c])
    BY DEF IInv, TypeOK, OpsOK, HostInv, LoneInv
  <1>1. CASE SaveNewGoal(c)
    <2>1. /\ op[c].pc = "createSave" /\ goals' = [goals EXCEPT ![op[c].goal] = op[c].doc]
          /\ scans' = scans
      BY <1>1 DEF SaveNewGoal, At
    <2>2. /\ op[c].goal \in GoalId /\ op[c].doc \in Goal /\ op[c].doc.status = "ready"
          /\ NumbersParse => ~Stored(op[c].goal)
      BY <1>0, <2>1 DEF Fresh, Yielded, GoodOp, HoldsDoc, HoldsGoal, GoodDoc
    <2> QED BY <2>1, <2>2
  <1>2. CASE SaveReview(c)
    <2>1. PICK g, d :
            /\ g = op[c].goal /\ d = [op[c].doc EXCEPT !.reviews = @ + 1]
            /\ goals' = [goals EXCEPT ![g] = d] /\ scans' = scans /\ op[c].pc = "reviewSave"
      BY <1>2 DEF SaveReview, At
    <2>2. g \in GoalId /\ goals[g] \in Goal /\ Stored(g) /\ op[c].doc = goals[g]
      BY <1>0, <2>1 DEF Fresh, WritesBack, Yielded, GoodOp, HoldsDoc, HoldsGoal, GoodDoc
    <2>3. /\ d \in Goal /\ d.finding = goals[g].finding /\ d.baseline = goals[g].baseline
          /\ d.createdAt = goals[g].createdAt /\ d.reviews >= goals[g].reviews
          /\ goals[g].results = d.results /\ d.status = goals[g].status
      BY <2>1, <2>2 DEF Goal
    <2> QED BY <2>1, <2>2, <2>3
  <1>3. CASE SaveValidation(c)
    <2>1. PICK g, d, status, results :
            /\ g = op[c].goal /\ d = [op[c].doc EXCEPT !.status = status, !.results = results]
            /\ status = StatusAfter(op[c].doc, op[c].found)
            /\ results = ResultsAfter(op[c].doc, op[c].evidence)
            /\ goals' = [goals EXCEPT ![g] = d] /\ scans' = scans
            /\ op[c].pc \in {"validateSave", "validateKeep"}
      BY <1>3 DEF SaveValidation, At
    <2>2. g \in GoalId /\ goals[g] \in Goal /\ Stored(g) /\ op[c].doc = goals[g]
      BY <1>0, <2>1 DEF Fresh, WritesBack, Judging, Yielded, GoodOp, HoldsDoc, HoldsGoal, GoodDoc
    <2>3. results \in SUBSET Result /\ goals[g].results \subseteq results
      <3>1. goals[g].results \in SUBSET Result /\ op[c].evidence \in Result \cup {NoComparison}
        BY <1>0, <2>2 DEF Goal, OpState
      <3> QED BY <2>1, <2>2, <3>1 DEF ResultsAfter
    <2>4. /\ status \in {"validated", "in_progress"}
          /\ status = "validated" => goals[g].finding \notin op[c].found
      BY <2>1, <2>2 DEF StatusAfter, Validated, FindingResolved
    <2>5. /\ d \in Goal /\ d.finding = goals[g].finding /\ d.baseline = goals[g].baseline
          /\ d.createdAt = goals[g].createdAt /\ d.reviews = goals[g].reviews
          /\ d.results = results /\ d.status = status
      BY <2>1, <2>2, <2>3, <2>4 DEF Goal
    <2>6. NobodyDies => goals[g].finding \in op[c].found \/ Rescanned(goals[g])
      BY <1>0, <2>1, <2>2 DEF Fresh, Judging, Yielded
    <2>7. Rescanned(goals[g]) => Rescanned(d)
      BY <2>5 DEF Rescanned
    <2>8. d.reviews >= goals[g].reviews
      BY <2>2, <2>5 DEF Goal
    <2> QED BY <2>1, <2>2, <2>3, <2>4, <2>5, <2>6, <2>7, <2>8
  <1> QED BY <1>1, <1>2, <1>3 DEF WritesGoal

\* Lemma: only three statements write a goal.
LEMMA OnlyThreeWrite ==
  ASSUME [Next]_vars, \A c \in Call : ~WritesGoal(c)
  PROVE  goals' = goals
  <1>1. ASSUME NEW c \in Call, AuditStep(c) \/ CreateStep(c) \/ JudgeStep(c)
        PROVE  goals' = goals
    BY <1>1 DEF WritesGoal, AuditStep, CreateStep, JudgeStep, StartAudit, FinishDiscovery, SaveScan,
                SaveFindings, ListGoals, JudgeNext, SaveReport, CreateGoal, FindFinding,
                LookForOpenGoal, NumberGoal, CompareForGoal, ReviewGoal, ValidateGoal,
                ResolveCandidate, ReadSides, SaveComparison, ReadLatestScan, ReadFindings,
                LookForComparison, JudgeWithoutEvidence, tables
  <1> QED BY <1>1 DEF Next, Tick, EditTree, Crash, vars

\* A scan keeps its time and what its rules concluded.
RowsStay ==
  \A s \in DOMAIN scans :
    s \in DOMAIN scans' /\ scans'[s].at = scans[s].at /\ scans'[s].fired = scans[s].fired

\* Lemma: every step keeps them.
LEMMA ScanRowsStay == ASSUME IInv, [Next]_vars PROVE RowsStay
  <1>0. scans \in Seq(ScanRow)
    BY DEF IInv, TypeOK
  <1>1. ASSUME NEW c \in Call, SaveScan(c)
        PROVE  RowsStay
    <2>1. scans' = scans \/ \E row : scans' = Append(scans, row)
      BY <1>1 DEF SaveScan
    <2>2. ASSUME NEW row, scans' = Append(scans, row)
          PROVE  RowsStay
      <3>1. \A s \in DOMAIN scans : s \in DOMAIN scans' /\ scans'[s] = scans[s]
        BY <1>0, <2>2
      <3> QED BY <3>1 DEF RowsStay
    <2> QED BY <2>1, <2>2 DEF RowsStay
  <1>2. ASSUME NEW c \in Call, SaveFindings(c)
        PROVE  RowsStay
    <2>1. PICK t, found : scans' = [scans EXCEPT ![t] = [scans[t] EXCEPT !.findings = found]]
      BY <1>2 DEF SaveFindings
    <2>2. \A s \in DOMAIN scans : scans[s] \in ScanRow
      BY <1>0
    <2>3. \A s \in DOMAIN scans :
            /\ [scans[s] EXCEPT !.findings = found].at = scans[s].at
            /\ [scans[s] EXCEPT !.findings = found].fired = scans[s].fired
      BY <2>2 DEF ScanRow
    <2> QED BY <2>1, <2>3 DEF RowsStay
  <1>3. ASSUME NEW c \in Call, ~SaveScan(c), ~SaveFindings(c),
               AuditStep(c) \/ CreateStep(c) \/ JudgeStep(c)
        PROVE  scans' = scans
    BY <1>3 DEF AuditStep, CreateStep, JudgeStep, StartAudit, FinishDiscovery,
                ListGoals, JudgeNext, SaveReport, CreateGoal, FindFinding, SaveNewGoal,
                LookForOpenGoal, NumberGoal, CompareForGoal, ReviewGoal, ValidateGoal, SaveReview,
                ResolveCandidate, ReadSides, SaveComparison, ReadLatestScan, ReadFindings,
                LookForComparison, JudgeWithoutEvidence, SaveValidation, tables
  <1>4. scans' = scans => RowsStay
    BY DEF RowsStay
  <1> QED BY <1>1, <1>2, <1>3, <1>4 DEF Next, Tick, EditTree, Crash, vars

\* Lemma: whoever saved a scan saves its findings before anybody else reads it.
LEMMA ScansStayComplete ==
  ASSUME OneHost, NobodyDies, IInv, ScansComplete, [Next]_vars
  PROVE  ScansComplete'
  <1>0. scans \in Seq(ScanRow) /\ op \in [Call -> OpState]
    BY DEF IInv, TypeOK
  <1>1. ASSUME NEW c \in Call, MayRun(c), op[c].pc # "saveFindings"
        PROVE  \A s \in DOMAIN scans : scans[s].findings = scans[s].fired
    BY <1>1 DEF ScansComplete, MayRun, OneHost, Yielded
  <1>2. ASSUME NEW c \in Call, SaveScan(c)
        PROVE  ScansComplete'
    <2>1. \A s \in DOMAIN scans : scans[s].findings = scans[s].fired
      BY <1>1, <1>2 DEF SaveScan, At
    <2>2. CASE scans' = scans
      BY <2>1, <2>2 DEF ScansComplete
    <2>3. CASE /\ op' = [op EXCEPT ![c] = [@ EXCEPT !.pc = "saveFindings", !.scan = Len(scans) + 1]]
               /\ scans' = Append(scans, [at |-> op[c].at, fired |-> op[c].found, findings |-> {}])
      <3>1. op'[c].pc = "saveFindings" /\ op'[c].scan = Len(scans) + 1
        BY <1>0, <2>3 DEF OpState
      <3>2. /\ DOMAIN scans' = DOMAIN scans \cup {Len(scans) + 1}
            /\ \A s \in DOMAIN scans : scans'[s] = scans[s]
        BY <1>0, <2>3
      <3> QED BY <2>1, <3>1, <3>2 DEF ScansComplete
    <2> QED BY <1>2, <2>2, <2>3 DEF SaveScan
  <1>3. ASSUME NEW c \in Call, SaveFindings(c)
        PROVE  ScansComplete'
    <2>1. /\ op[c].pc = "saveFindings" /\ MayRun(c)
          /\ scans' = [scans EXCEPT ![op[c].scan].findings = op[c].found]
      BY <1>3 DEF SaveFindings, At
    <2>2. op[c].scan \in DOMAIN scans /\ scans[op[c].scan].fired = op[c].found
      BY <2>1 DEF IInv, OpsOK, GoodOp
    <2>3. \A s \in DOMAIN scans : s # op[c].scan => scans[s].findings = scans[s].fired
      BY <2>1 DEF ScansComplete, MayRun, OneHost, Yielded
    <2>4. /\ scans'[op[c].scan].findings = op[c].found /\ scans'[op[c].scan].fired = op[c].found
          /\ DOMAIN scans' = DOMAIN scans
          /\ \A s \in DOMAIN scans : s # op[c].scan => scans'[s] = scans[s]
      <3>1. scans[op[c].scan] \in ScanRow
        BY <1>0, <2>2
      <3> QED BY <2>1, <2>2, <3>1 DEF ScanRow
    <2> QED BY <2>3, <2>4 DEF ScansComplete
  <1>4. ASSUME NEW c \in Call, ~SaveScan(c), ~SaveFindings(c),
               AuditStep(c) \/ CreateStep(c) \/ JudgeStep(c)
        PROVE  ScansComplete'
    <2>1. scans' = scans /\ MayRun(c) /\ op[c].pc # "saveFindings"
      BY <1>4 DEF AuditStep, CreateStep, JudgeStep, StartAudit, FinishDiscovery, At,
                  ListGoals, JudgeNext, SaveReport, CreateGoal, FindFinding, SaveNewGoal,
                  LookForOpenGoal, NumberGoal, CompareForGoal, ReviewGoal, ValidateGoal, SaveReview,
                  ResolveCandidate, ReadSides, SaveComparison, ReadLatestScan, ReadFindings,
                  LookForComparison, JudgeWithoutEvidence, SaveValidation, tables
    <2> QED BY <1>1, <2>1 DEF ScansComplete
  <1>5. CASE Tick \/ (\E f \in Finding : EditTree(f)) \/ UNCHANGED vars
    BY <1>5 DEF Tick, EditTree, vars, ScansComplete
  <1>6. ~ \E h \in Host : Crash(h)
    BY DEF Crash, NobodyDies, IInv, TypeOK
  <1> QED BY <1>2, <1>3, <1>4, <1>5, <1>6 DEF Next

\* Lemma: a goal that is validated was rescanned, and stays so.
LEMMA RescanStays ==
  ASSUME NobodyDies, IInv, HostInv, ValidatedHasRescan, [Next]_vars
  PROVE  ValidatedHasRescan'
  <1>1. \A g \in GoalId : Stored(g) => goals[g].baseline \in DOMAIN scans
    BY DEF IInv, GoalsOK, GoodDoc, CutFromScan
  <1>2. \A g \in GoalId : Stored(g) /\ goals[g].status = "validated" => Rescanned(goals[g])
    BY DEF ValidatedHasRescan, Rescanned
  <1>3. ASSUME NEW d, Rescanned(d), d.baseline \in DOMAIN scans
        PROVE  Rescanned(d)'
    BY <1>3, ScanRowsStay DEF Rescanned, RowsStay
  <1>4. SUFFICES ASSUME NEW g \in GoalId, Stored(g)', goals'[g].status = "validated"
                 PROVE  Rescanned(goals[g])'
    BY DEF ValidatedHasRescan, Rescanned
  <1>5. CASE goals'[g] = goals[g]
    BY <1>1, <1>2, <1>3, <1>4, <1>5 DEF Stored, Rescanned
  <1>6. ASSUME NEW c \in Call, WritesGoal(c), goals'[g] # goals[g]
        PROVE  Rescanned(goals[g])'
    <2>1. PICK d \in Goal :
            /\ scans' = scans /\ goals'[g] = d
            /\ \/ d.status = "ready"
               \/ /\ Stored(g) /\ d.finding = goals[g].finding /\ d.baseline = goals[g].baseline
                  /\ d.status = "validated" => d.status = goals[g].status \/ Rescanned(d)
      <3>1. goals \in [GoalId -> Goal \cup {NoGoal}]
        BY DEF IInv, TypeOK
      <3> QED BY <1>6, <3>1, GoalWritten
    <2>2. Stored(g) /\ (goals[g].status = "validated" \/ Rescanned(d))
      BY <1>4, <2>1
    <2>3. Rescanned(goals[g]) => Rescanned(d)
      BY <1>4, <2>1 DEF Rescanned
    <2>4. Rescanned(d)
      BY <1>2, <2>2, <2>3
    <2> QED BY <2>1, <2>4 DEF Rescanned
  <1>7. goals \in [GoalId -> Goal \cup {NoGoal}] /\ ((\A c \in Call : ~WritesGoal(c)) => goals' = goals)
    BY OnlyThreeWrite DEF IInv, TypeOK
  <1> QED BY <1>5, <1>6, <1>7

\* Theorem: the strengthened invariant of one process, whatever its calls are and although an
\* audit gives way to the others while it parses.
THEOREM HostInvariance == OneHost => (Spec => []HostInv)
  <1> SUFFICES ASSUME OneHost PROVE Spec => []HostInv
    OBVIOUS
  <1>1. Init => HostInv
    BY DEF Init, HostInv, LoneInv, RescanInv, ScansComplete, ValidatedHasRescan, Stored, Idle, Yielded
  <1>2. IInv /\ HostInv /\ [Next]_vars => HostInv'
    BY LoneKept, ScansStayComplete, RescanStays DEF HostInv, RescanInv
  <1> QED BY <1>1, <1>2, Invariance, PTL DEF Spec

\* Theorem: in one process, creating a goal is idempotent: when it is saved, its finding has no
\* open goal, unless another one was asked for.
THEOREM CreationIdempotent == OneHost => (Spec => []CreationIsIdempotent)
  <1> SUFFICES ASSUME OneHost PROVE Spec => []CreationIsIdempotent
    OBVIOUS
  <1>1. IInv /\ HostInv => CreationIsIdempotent
    <2> SUFFICES ASSUME IInv, HostInv, NEW c \in Call, op[c].pc = "createSave", ~op[c].another,
                        NEW g \in GoalId, Stored(g), goals[g].finding = op[c].doc.finding
                 PROVE  goals[g].status = "validated"
      BY DEF CreationIsIdempotent
    <2>1. ~HasOpenGoal(op[c].doc.finding)
      BY DEF HostInv, LoneInv, Fresh, Yielded
    <2>2. goals[g].status \in {"ready", "in_progress", "validated"}
      BY DEF IInv, GoalsOK, GoodDoc, Goal
    <2> QED BY <2>1, <2>2 DEF HasOpenGoal, OpenStatus
  <1> QED BY <1>1, Invariance, HostInvariance, PTL

\* Theorem: in one process that is not killed, a validated goal was judged on a scan of its own,
\* no older than its baseline, whose rules did not conclude the finding.
THEOREM ValidationRescans == OneHost /\ NobodyDies => (Spec => []ValidatedHasRescan)
  <1> SUFFICES ASSUME OneHost, NobodyDies PROVE Spec => []ValidatedHasRescan
    OBVIOUS
  <1>1. HostInv => ValidatedHasRescan
    BY DEF HostInv, RescanInv
  <1> QED BY <1>1, HostInvariance, PTL

\* Theorem: in one process, and while identifiers have four digits, no step forgets what a goal
\* records: its finding and baseline, its reviews, and the comparisons that judged it.
THEOREM HistoryKept == OneHost /\ NumbersParse => (Spec => GoalHistoryKept)
  <1> SUFFICES ASSUME OneHost, NumbersParse PROVE Spec => GoalHistoryKept
    OBVIOUS
  <1> DEFINE Kept(g) ==
        Stored(g) =>
          /\ goals'[g] # NoGoal
          /\ goals'[g].finding = goals[g].finding
          /\ goals'[g].baseline = goals[g].baseline
          /\ goals'[g].createdAt = goals[g].createdAt
          /\ goals'[g].reviews >= goals[g].reviews
          /\ goals[g].results \subseteq goals'[g].results
  <1>1. IInv /\ HostInv /\ [Next]_vars => [\A g \in GoalId : Kept(g)]_goals
    <2> SUFFICES ASSUME IInv, HostInv, [Next]_vars, goals' # goals, NEW g \in GoalId, Stored(g)
                 PROVE  Kept(g)
      OBVIOUS
    <2>1. PICK c \in Call : WritesGoal(c)
      BY OnlyThreeWrite
    <2>2. PICK i \in GoalId, d \in Goal :
            /\ goals' = [goals EXCEPT ![i] = d]
            /\ Stored(i) =>
                 /\ d.finding = goals[i].finding /\ d.baseline = goals[i].baseline
                 /\ d.createdAt = goals[i].createdAt /\ d.reviews >= goals[i].reviews
                 /\ goals[i].results \subseteq d.results
      BY <2>1, GoalWritten
    <2>3. goals \in [GoalId -> Goal \cup {NoGoal}] /\ goals[g] \in Goal
      BY DEF IInv, TypeOK, GoalsOK, GoodDoc
    <2>4. CASE g = i
      <3>1. d # NoGoal
        BY DEF Goal, NoGoal
      <3> QED BY <2>2, <2>3, <2>4, <3>1
    <2>5. CASE g # i
      <3>1. goals'[g] = goals[g] /\ goals[g] # NoGoal /\ goals[g].reviews \in Nat
        BY <2>2, <2>3, <2>5 DEF Stored, Goal
      <3> QED BY <3>1
    <2> QED BY <2>4, <2>5
  <1> QED BY <1>1, Invariance, HostInvariance, PTL DEF Spec, GoalHistoryKept

============================================================================
