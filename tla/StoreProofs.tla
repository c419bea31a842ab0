----------------------------- MODULE StoreProofs -----------------------------
(***************************************************************************)
(* The safety properties of Store for any processes, runs, bundles and     *)
(* number of migrations, crashes included.  That calls end is liveness and *)
(* stays with TLC.                                                         *)
(***************************************************************************)
EXTENDS Store, TLAPS

\* Who migrates holds the lock, so that the migration it checked is still the next one; who
\* works on the store read a version of this build and brought it to the latest.
SchemaInv ==
  /\ tables = 1 .. version
  /\ \A p \in Process :
       /\ next[p] <= version + 1
       /\ pc[p] = "migrating" => next[p] = version + 1 /\ version < Latest
       /\ pc[p] \in Open => version = Latest
       /\ pc[p] = "pending" => version <= Latest

\* A file is whole or absent, and who inserts a row has seen its file or written it.
FilesInv ==
  /\ \A d \in Digest : files[d] # "part"
  /\ \A p \in Process :
       /\ pc[p] \in Saving => job[p] \in [run : Run, digest : Digest]
       /\ pc[p] \in {"insert", "commit"} => files[job[p].digest] = "whole"

\* What a committed run consists of; of side effects and metrics nothing is said here, since
\* those of an earlier execution may stay.
RowsInv ==
  /\ \A r \in Run : rows[r] # NoRun =>
       rows[r].digest \in Digest \ Repeating /\ rows[r].spans = {rows[r].digest}
  /\ ReferencedIsWhole /\ artifacts \cap Repeating = {}

\* An audit has read a run that was committed, and runs are never deleted.
AuditInv == \A p \in Process : pc[p] = "attributing" => rows[job[p].run] # NoRun

IInv == TypeOK /\ SchemaInv /\ FilesInv /\ RowsInv /\ AuditInv

\* Lemma: a commit puts a whole, unrepeated bundle in the place of the run it saved.
LEMMA CommitKeeps == ASSUME IInv, NEW p \in Process, Commit(p) PROVE IInv'
  <1> DEFINE r == job[p].run
             d == job[p].digest
  <1>1. /\ pc[p] = "commit" /\ r \in Run /\ d \in Digest \ Repeating /\ files[d] = "whole" /\ writer = p
    BY StoreAssumption DEF IInv, TypeOK, FilesInv, Commit, Saving
  <1>2. /\ rows' = [rows EXCEPT ![r] = RowAfter(rows[r], d)] /\ artifacts' = artifacts \cup {d}
        /\ writer' = Nothing /\ job' = [job EXCEPT ![p] = NoJob] /\ pc' = [pc EXCEPT ![p] = "open"]
        /\ UNCHANGED <<version, tables, files, next, saves>>
    BY DEF Commit, Finished, Goto, schema
  <1>3. /\ RowAfter(rows[r], d) \in RunRow /\ RowAfter(rows[r], d).digest = d
        /\ RowAfter(rows[r], d).spans = {d}
    <2>1. rows[r].effects \in SUBSET Digest /\ rows[r].metrics \in SUBSET Digest
      BY <1>1 DEF IInv, TypeOK, RunRow, NoRun
    <2> QED
      BY <1>1, <2>1 DEF RowAfter, RunRow
  <1>4. TypeOK'
    <2>1. rows' \in [Run -> RunRow]
      BY <1>1, <1>2, <1>3 DEF IInv, TypeOK
    <2>2. pc' \in [Process -> Opening \cup Open \cup Refused \cup {"dead"}] /\ job' \in [Process -> Job]
      BY <1>1, <1>2 DEF IInv, TypeOK, Open, Job
    <2>3. \A q \in Process : pc'[q] \in {"migrating", "commit"} <=> writer' = q
      BY <1>1, <1>2, StoreAssumption DEF IInv, TypeOK
    <2> QED
      BY <1>1, <1>2, <2>1, <2>2, <2>3 DEF IInv, TypeOK
  <1>5. SchemaInv'
    BY <1>1, <1>2 DEF IInv, TypeOK, SchemaInv, Open, Saving
  <1>6. FilesInv'
    BY <1>1, <1>2 DEF IInv, TypeOK, FilesInv, Saving
  <1>7. RowsInv'
    <2>1. \A q \in Run : rows'[q] = IF q = r THEN RowAfter(rows[r], d) ELSE rows[q]
      BY <1>1, <1>2 DEF IInv, TypeOK
    <2>2. \A q \in Run : rows'[q] # NoRun =>
            rows'[q].digest \in Digest \ Repeating /\ rows'[q].spans = {rows'[q].digest}
      BY <1>1, <1>3, <2>1 DEF IInv, RowsInv
    <2>3. ReferencedIsWhole'
      BY <1>1, <1>2, <1>3, <2>1 DEF IInv, RowsInv, ReferencedIsWhole
    <2> QED
      BY <1>1, <1>2, <2>2, <2>3 DEF IInv, RowsInv
  <1>8. AuditInv'
    <2>1. RowAfter(rows[r], d) # NoRun
      BY <1>1, <1>3, StoreAssumption DEF NoRun
    <2>2. \A q \in Process : pc'[q] = "attributing" =>
            pc[q] = "attributing" /\ job'[q] = job[q] /\ job[q].run \in Run
      BY <1>1, <1>2 DEF IInv, TypeOK, FilesInv, Saving
    <2>3. \A q \in Run : rows[q] # NoRun => rows'[q] # NoRun
      BY <1>1, <1>2, <2>1 DEF IInv, TypeOK
    <2> QED
      BY <2>2, <2>3 DEF IInv, AuditInv
  <1> QED
    BY <1>4, <1>5, <1>6, <1>7, <1>8 DEF IInv

\* Lemma: an audit puts the metrics it made in a committed run, and nothing else.
LEMMA SaveMetricsKeeps == ASSUME IInv, NEW p \in Process, SaveMetrics(p) PROVE IInv'
  <1> DEFINE r == job[p].run
             d == job[p].digest
             row == [rows[r] EXCEPT !.metrics = {d}]
  <1>1. /\ pc[p] = "attributing" /\ r \in Run /\ d \in Digest /\ writer = Nothing
    BY DEF IInv, FilesInv, SaveMetrics, Saving
  <1>2. /\ rows' = [rows EXCEPT ![r] = row]
        /\ job' = [job EXCEPT ![p] = NoJob] /\ pc' = [pc EXCEPT ![p] = "open"]
        /\ UNCHANGED <<version, tables, writer, artifacts, files, next, saves>>
    BY DEF SaveMetrics, Finished, Goto, schema
  <1>3. rows[r] # NoRun
    BY <1>1 DEF IInv, AuditInv
  <1>4. /\ row \in RunRow /\ row # NoRun /\ row.digest = rows[r].digest /\ row.spans = rows[r].spans
    <2>1. rows[r] \in [digest : Digest, spans : SUBSET Digest, effects : SUBSET Digest,
                       metrics : SUBSET Digest]
      BY <1>1, <1>3 DEF IInv, TypeOK, RunRow
    <2>2. row \in [digest : Digest, spans : SUBSET Digest, effects : SUBSET Digest,
                   metrics : SUBSET Digest]
      BY <1>1, <2>1
    <2>3. row.digest = rows[r].digest /\ row.spans = rows[r].spans
      BY <2>1
    <2> QED
      BY <2>2, <2>3, StoreAssumption DEF RunRow, NoRun
  <1>5. \A q \in Run : rows'[q] = IF q = r THEN row ELSE rows[q]
    BY <1>1, <1>2 DEF IInv, TypeOK
  <1> HIDE DEF row
  <1>6. TypeOK'
    <2>1. rows' \in [Run -> RunRow]
      BY <1>1, <1>2, <1>4 DEF IInv, TypeOK
    <2>2. pc' \in [Process -> Opening \cup Open \cup Refused \cup {"dead"}] /\ job' \in [Process -> Job]
      BY <1>1, <1>2 DEF IInv, TypeOK, Open, Job
    <2>3. \A q \in Process : pc'[q] \in {"migrating", "commit"} <=> writer' = q
      BY <1>1, <1>2, StoreAssumption DEF IInv, TypeOK
    <2> QED
      BY <1>1, <1>2, <2>1, <2>2, <2>3 DEF IInv, TypeOK
  <1>7. SchemaInv' /\ FilesInv'
    BY <1>1, <1>2 DEF IInv, TypeOK, SchemaInv, FilesInv, Open, Saving
  <1>8. RowsInv'
    BY <1>1, <1>2, <1>3, <1>4, <1>5 DEF IInv, RowsInv, ReferencedIsWhole
  <1>9. AuditInv'
    BY <1>1, <1>2, <1>3, <1>4, <1>5 DEF IInv, TypeOK, AuditInv
  <1> QED
    BY <1>6, <1>7, <1>8, <1>9 DEF IInv

\* Lemma: the other steps leave the committed rows alone, and files are only completed.
LEMMA RowsKept ==
  ASSUME RowsInv, UNCHANGED <<rows, artifacts>>, \A d \in Digest : files[d] = "whole" => files'[d] = "whole"
  PROVE  RowsInv'
  BY DEF RowsInv, ReferencedIsWhole

\* Lemma: nor do they give a process an audit.
LEMMA AuditsKept ==
  ASSUME AuditInv, rows' = rows,
         \A p \in Process : pc'[p] = "attributing" => pc[p] = "attributing" /\ job'[p] = job[p]
  PROVE  AuditInv'
  BY DEF AuditInv

\* Theorem: types, the account of migrations, and what a committed run consists of hold in
\* every reachable state.
THEOREM Invariance == Spec => []IInv
  <1>1. Init => IInv
    <2> SUFFICES ASSUME Init PROVE IInv
      OBVIOUS
    <2>1. TypeOK
      BY StoreAssumption DEF Init, TypeOK, Opening, Job, RunRow
    <2>2. SchemaInv
      BY StoreAssumption DEF Init, SchemaInv, Open, Saving
    <2>3. FilesInv
      BY DEF Init, FilesInv, Saving
    <2>4. RowsInv
      BY DEF Init, RowsInv, ReferencedIsWhole
    <2>5. AuditInv
      BY DEF Init, AuditInv
    <2> QED
      BY <2>1, <2>2, <2>3, <2>4, <2>5 DEF IInv
  <1>2. IInv /\ [Next]_vars => IInv'
    <2> SUFFICES ASSUME IInv, [Next]_vars PROVE IInv'
      OBVIOUS
    <2>1. CASE UNCHANGED vars
      BY <2>1 DEF vars, IInv, TypeOK, SchemaInv, FilesInv, RowsInv, AuditInv, ReferencedIsWhole
    <2>2. ASSUME NEW p \in Process,
                 \/ Step(p) \/ SwitchRefused(p) \/ Busy(p) \/ Die(p) \/ Restart(p)
                 \/ \E r \in Run, d \in Digest : StartSave(p, r, d)
                 \/ \E r \in Run : ReadTrace(p, r)
          PROVE  IInv'
      <3> USE StoreAssumption DEF Goto, schema, content, Opening, Saving, Open, Refused
      <3>1. CASE Commit(p)
        BY <3>1, CommitKeeps
      <3>2. CASE RenameFile(p)
        <4>1. job[p].digest \in Digest
          BY <3>2 DEF RenameFile, IInv, FilesInv
        <4>2. TypeOK' /\ SchemaInv' /\ FilesInv'
          BY <3>2, <4>1 DEF RenameFile, IInv, TypeOK, SchemaInv, FilesInv
        <4>3. RowsInv'
          BY <3>2, <4>1, RowsKept DEF RenameFile, IInv, TypeOK
        <4>9. AuditInv'
          BY <3>2, AuditsKept DEF RenameFile, IInv, TypeOK
        <4> QED
          BY <4>2, <4>3, <4>9 DEF IInv
      <3>3. CASE CommitMigration(p)
        <4>1. TypeOK' /\ SchemaInv'
          BY <3>3 DEF CommitMigration, IInv, TypeOK, SchemaInv
        <4>2. FilesInv'
          BY <3>3 DEF CommitMigration, IInv, TypeOK, FilesInv
        <4>3. RowsInv'
          BY <3>3, RowsKept DEF CommitMigration, IInv
        <4>9. AuditInv'
          BY <3>3, AuditsKept DEF CommitMigration, IInv, TypeOK
        <4> QED
          BY <4>1, <4>2, <4>3, <4>9 DEF IInv
      <3>4. CASE ReadVersion(p)
        <4>1. /\ pc' = [pc EXCEPT ![p] = pc'[p]] /\ pc'[p] \in {"pending", "unsupported"}
              /\ next' = [next EXCEPT ![p] = next'[p]] /\ next'[p] \in 1 .. Latest + 1
              /\ next'[p] <= version + 1 /\ pc'[p] = "pending" => version <= Latest
          BY <3>4 DEF ReadVersion, IInv, TypeOK, SchemaInv
        <4>2. TypeOK'
          BY <3>4, <4>1 DEF ReadVersion, IInv, TypeOK
        <4>3. SchemaInv'
          BY <3>4, <4>1 DEF ReadVersion, IInv, TypeOK, SchemaInv
        <4>4. FilesInv' /\ RowsInv'
          BY <3>4, RowsKept DEF ReadVersion, IInv, TypeOK, FilesInv
        <4>9. AuditInv'
          BY <3>4, AuditsKept DEF ReadVersion, IInv, TypeOK
        <4> QED
          BY <4>2, <4>3, <4>4, <4>9 DEF IInv
      <3>5. CASE SwitchRefused(p) \/ MigrationFails(p) \/ Opened(p)
        <4>1. /\ pc' = [pc EXCEPT ![p] = pc'[p]] /\ pc'[p] \in {"corrupt", "open"}
              /\ pc[p] \in {"start", "pending"}
              /\ UNCHANGED <<schema, writer, content, files, next, job, saves>>
          BY <3>5 DEF SwitchRefused, MigrationFails, Opened, IInv, TypeOK
        <4>2. pc'[p] = "open" => version = Latest
          <5>1. pc'[p] = "open" => pc[p] = "pending" /\ next[p] > Latest
            BY <3>5 DEF SwitchRefused, MigrationFails, Opened, IInv, TypeOK
          <5> QED
            BY <5>1 DEF IInv, TypeOK, SchemaInv
        <4>3. TypeOK'
          BY <4>1 DEF IInv, TypeOK
        <4>4. SchemaInv'
          BY <4>1, <4>2 DEF IInv, TypeOK, SchemaInv
        <4>5. FilesInv' /\ RowsInv'
          BY <4>1, RowsKept DEF IInv, TypeOK, FilesInv
        <4>9. AuditInv'
          BY <4>1, AuditsKept DEF IInv, TypeOK, content
        <4> QED
          BY <4>3, <4>4, <4>5, <4>9 DEF IInv
      <3>6. CASE BeginMigration(p)
        <4>1. next[p] = version + 1 /\ version < Latest
          BY <3>6 DEF BeginMigration, IInv, TypeOK, SchemaInv
        <4>2. TypeOK' /\ SchemaInv'
          BY <3>6, <4>1 DEF BeginMigration, IInv, TypeOK, SchemaInv
        <4>3. FilesInv' /\ RowsInv'
          BY <3>6, RowsKept DEF BeginMigration, IInv, TypeOK, FilesInv
        <4>9. AuditInv'
          BY <3>6, AuditsKept DEF BeginMigration, IInv, TypeOK
        <4> QED
          BY <4>2, <4>3, <4>9 DEF IInv
      <3>7. ASSUME NEW r \in Run, NEW d \in Digest, StartSave(p, r, d) PROVE IInv'
        <4>1. TypeOK' /\ SchemaInv'
          BY <3>7 DEF StartSave, IInv, TypeOK, SchemaInv, Job
        <4>2. FilesInv' /\ RowsInv'
          BY <3>7, RowsKept DEF StartSave, IInv, TypeOK, FilesInv
        <4>9. AuditInv'
          BY <3>7, AuditsKept DEF StartSave, IInv, TypeOK
        <4> QED
          BY <4>1, <4>2, <4>9 DEF IInv
      <3>8. CASE FindFile(p)
        <4>1. files[job[p].digest] # "none" => files[job[p].digest] = "whole"
          BY <3>8 DEF FindFile, IInv, TypeOK, FilesInv
        <4>2. TypeOK' /\ SchemaInv'
          BY <3>8 DEF FindFile, IInv, TypeOK, SchemaInv
        <4>3. FilesInv' /\ RowsInv'
          BY <3>8, <4>1, RowsKept DEF FindFile, IInv, TypeOK, FilesInv
        <4>9. AuditInv'
          BY <3>8, AuditsKept DEF FindFile, IInv, TypeOK
        <4> QED
          BY <4>2, <4>3, <4>9 DEF IInv
      <3>9. CASE InsertRows(p)
        <4>1. TypeOK' /\ SchemaInv'
          BY <3>9 DEF InsertRows, IInv, TypeOK, SchemaInv
        <4>2. FilesInv' /\ RowsInv'
          BY <3>9, RowsKept DEF InsertRows, IInv, TypeOK, FilesInv
        <4>9. AuditInv'
          BY <3>9, AuditsKept DEF InsertRows, IInv, TypeOK
        <4> QED
          BY <4>1, <4>2, <4>9 DEF IInv
      <3>10. CASE Rollback(p) \/ Busy(p)
        <4>1. TypeOK' /\ SchemaInv'
          BY <3>10, ZenonT(40) DEF Rollback, Busy, Finished, IInv, TypeOK, SchemaInv, Job
        <4>2. FilesInv' /\ RowsInv'
          BY <3>10, RowsKept DEF Rollback, Busy, Finished, IInv, TypeOK, FilesInv
        <4>9. AuditInv'
          BY <3>10, AuditsKept DEF Rollback, Busy, Finished, IInv, TypeOK
        <4> QED
          BY <4>1, <4>2, <4>9 DEF IInv
      <3>11. CASE Die(p)
        <4>1. TypeOK' /\ SchemaInv'
          BY <3>11 DEF Die, IInv, TypeOK, SchemaInv, Job
        <4>2. FilesInv' /\ RowsInv'
          BY <3>11, RowsKept DEF Die, IInv, TypeOK, FilesInv
        <4>9. AuditInv'
          BY <3>11, AuditsKept DEF Die, IInv, TypeOK
        <4> QED
          BY <4>1, <4>2, <4>9 DEF IInv
      <3>12. CASE Restart(p)
        <4>1. TypeOK' /\ SchemaInv'
          BY <3>12 DEF Restart, IInv, TypeOK, SchemaInv
        <4>2. FilesInv' /\ RowsInv'
          BY <3>12, RowsKept DEF Restart, IInv, TypeOK, FilesInv
        <4>9. AuditInv'
          BY <3>12, AuditsKept DEF Restart, IInv, TypeOK
        <4> QED
          BY <4>1, <4>2, <4>9 DEF IInv
      <3>13. CASE SaveMetrics(p)
        BY <3>13, SaveMetricsKeeps
      <3>14. ASSUME NEW r \in Run, ReadTrace(p, r) PROVE IInv'
        <4>1. rows[r].digest \in Digest
          BY <3>14 DEF ReadTrace, IInv, RowsInv
        <4>2. TypeOK' /\ SchemaInv'
          BY <3>14, <4>1 DEF ReadTrace, IInv, TypeOK, SchemaInv, Job
        <4>3. FilesInv'
          BY <3>14, <4>1 DEF ReadTrace, IInv, TypeOK, FilesInv
        <4>4. RowsInv'
          BY <3>14, RowsKept DEF ReadTrace, IInv
        <4>5. AuditInv'
          BY <3>14 DEF ReadTrace, IInv, TypeOK, AuditInv
        <4> QED
          BY <4>2, <4>3, <4>4, <4>5 DEF IInv
      <3> QED
        BY <2>2, <3>1, <3>2, <3>3, <3>4, <3>5, <3>6, <3>7, <3>8, <3>9, <3>10, <3>11, <3>12, <3>13, <3>14 DEF Step
    <2> QED
      BY <2>1, <2>2 DEF Next
  <1> QED
    BY <1>1, <1>2, PTL DEF Spec

\* Theorem: whoever migrates, races or dies, the version says which migrations are there, and
\* none works on a store that lacks one its build relies on.
THEOREM SchemaWhole == Spec => []SchemaIsWhole
  <1>1. IInv => SchemaIsWhole
    BY StoreAssumption DEF IInv, SchemaInv, SchemaIsWhole
  <1> QED
    BY <1>1, Invariance, PTL

\* Theorem: a committed row's artifact is in its file, whole, and known to the artifact table.
THEOREM ArtifactsWhole == Spec => []ReferencedIsWhole
  <1>1. IInv => ReferencedIsWhole
    BY DEF IInv, RowsInv
  <1> QED
    BY <1>1, Invariance, PTL

\* Theorem: a save that is rolled back leaves neither an artifact's row nor a span.
THEOREM AllOrNothing == Spec => []FailedSaveLeavesNothing
  <1>1. ASSUME IInv, NEW r \in Run PROVE rows[r].spans \cap Repeating = {}
    <2>1. CASE rows[r] = NoRun
      BY <2>1 DEF NoRun
    <2>2. CASE rows[r] # NoRun
      BY <1>1, <2>2 DEF IInv, RowsInv
    <2> QED
      BY <2>1, <2>2
  <1>2. IInv => FailedSaveLeavesNothing
    BY <1>1 DEF IInv, RowsInv, FailedSaveLeavesNothing
  <1> QED
    BY <1>2, Invariance, PTL

\* Theorem: a process of this build changes neither the schema nor a row of a store that a
\* later build migrated.
THEOREM NewerUntouched == Spec => NewerIsUntouched
  <1>1. IInv /\ [Next]_vars => [version > Latest => UNCHANGED <<schema, content>>]_vars
    <2> SUFFICES ASSUME IInv, Next, version > Latest PROVE UNCHANGED <<schema, content>>
      OBVIOUS
    <2>1. \A p \in Process : pc[p] \notin {"migrating", "commit", "attributing"}
      BY StoreAssumption DEF IInv, TypeOK, SchemaInv, Open, Saving
    <2>2. PICK p \in Process :
            \/ Step(p) \/ SwitchRefused(p) \/ Busy(p) \/ Die(p) \/ Restart(p)
            \/ \E r \in Run, d \in Digest : StartSave(p, r, d)
            \/ \E r \in Run : ReadTrace(p, r)
      BY DEF Next
    <2>3. ~ CommitMigration(p) /\ ~ Commit(p) /\ ~ SaveMetrics(p)
      BY <2>1 DEF CommitMigration, Commit, SaveMetrics
    <2> QED
      BY <2>2, <2>3 DEF Step, ReadVersion, BeginMigration, MigrationFails, Opened, FindFile,
         RenameFile, InsertRows, Rollback, SwitchRefused, Busy, Die, Restart, StartSave, ReadTrace
  <1> QED
    BY <1>1, Invariance, PTL DEF Spec, NewerIsUntouched

==============================================================================
