-------------------------------- MODULE Store --------------------------------
(***************************************************************************)
(* The store that every process of a repository shares: a SQLite database  *)
(* with its migrations (packages/persistence/src/database.ts), artifacts   *)
(* kept in files named by their digest (artifacts.ts), saveRun, which      *)
(* writes to both, and what an audit writes to a run                       *)
(* (repositories/runs.ts).                                                 *)
(*                                                                         *)
(* SQLite gives transactions, one writer at a time, and readers that see   *)
(* what was committed; the file system gives an atomic rename.  A process  *)
(* may die between any two steps, and its transaction dies with it, while  *)
(* its files stay.  The other repositories save as saveRun does.  A run is *)
(* always saved with its bundle, and without metrics: what it knows of     *)
(* components is what an audit made of its bundle.                         *)
(***************************************************************************)
EXTENDS Naturals, FiniteSets

CONSTANTS
  Process,    \* the commands and servers that use the store
  Run,        \* run identifiers, of which two processes may make the same
  Digest,     \* trace bundles, by the digest of their content
  Effectful,  \* those that hold side effects
  Repeating,  \* those that hold a span identifier twice, as an import may
  Latest,     \* LATEST_SCHEMA_VERSION
  MaxSaves,   \* bound: how often each process saves, audits or is restarted
  Nothing     \* a value that is none of the above

ASSUME StoreAssumption ==
  /\ Latest \in Nat /\ MaxSaves \in Nat
  /\ Effectful \subseteq Digest /\ Repeating \subseteq Digest
  /\ Nothing \notin Process \cup Digest \cup Run

VARIABLES
  version,    \* PRAGMA user_version
  tables,     \* the migrations whose tables and indexes exist
  writer,     \* the process whose transaction holds the write lock
  rows,       \* the run table with the rows that belong to each run
  artifacts,  \* the artifact table
  files,      \* what is under each digest's name
  pc,         \* where each process is
  next,       \* the migration it applies next
  job,        \* the run and the bundle it saves, or has read
  saves       \* how often it saved, audited or was restarted

vars == <<version, tables, writer, rows, artifacts, files, pc, next, job, saves>>
schema == <<version, tables>>
content == <<rows, artifacts>>

----------------------------------------------------------------------------

\* Spans, effects and component metrics are named by the bundle they were taken from.
NoRun == [digest |-> Nothing, spans |-> {}, effects |-> {}, metrics |-> {}]
NoJob == [run |-> Nothing, digest |-> Nothing]
RunRow ==
  [digest : Digest, spans : SUBSET Digest, effects : SUBSET Digest, metrics : SUBSET Digest]
    \cup {NoRun}
Job == [run : Run, digest : Digest] \cup {NoJob}

Opening == {"start", "pending", "migrating"}
Saving == {"put", "partial", "insert", "commit", "attributing"}
Open == {"open"} \cup Saving
Refused == {"unsupported", "corrupt"}

\* Invariant: one writer, which is in a transaction, and values of the right shape.
TypeOK ==
  /\ version \in Nat /\ tables \subseteq 1 .. version
  /\ writer \in Process \cup {Nothing}
  /\ rows \in [Run -> RunRow] /\ artifacts \subseteq Digest
  /\ files \in [Digest -> {"none", "part", "whole"}]
  /\ pc \in [Process -> Opening \cup Open \cup Refused \cup {"dead"}]
  /\ next \in [Process -> 1 .. Latest + 1] /\ job \in [Process -> Job]
  /\ saves \in [Process -> 0 .. MaxSaves]
  /\ \A p \in Process : pc[p] \in {"migrating", "commit"} <=> writer = p

\* A store that is fresh, was left by any build up to the next, or by a crash.
Init ==
  /\ version \in 0 .. Latest + 1 /\ tables = 1 .. version
  /\ writer = Nothing
  /\ rows = [r \in Run |-> NoRun] /\ artifacts = {}
  /\ files = [d \in Digest |-> "none"]
  /\ pc = [p \in Process |-> "start"] /\ next = [p \in Process |-> 1]
  /\ job = [p \in Process |-> NoJob] /\ saves = [p \in Process |-> 0]

Goto(p, place) == pc' = [pc EXCEPT ![p] = place]

----------------------------------------------------------------------------
(* openDatabase and migrate.                                               *)

ReadAnyVersion(p) ==
  /\ pc[p] = "start"
  /\ next' = [next EXCEPT ![p] = IF version < Latest THEN version + 1 ELSE Latest + 1]
  /\ Goto(p, "pending")
  /\ UNCHANGED <<schema, writer, content, files, job, saves>>

\* readUserVersion, outside any transaction; a newer store is refused.
ReadVersion(p) ==
  /\ pc[p] = "start"
  /\ IF version > Latest
     THEN Goto(p, "unsupported") /\ UNCHANGED next
     ELSE Goto(p, "pending") /\ next' = [next EXCEPT ![p] = version + 1]
  /\ UNCHANGED <<schema, writer, content, files, job, saves>>

\* journal_mode is set before busy_timeout: while another process opens the file, the
\* switch may find it locked and does not wait.
SwitchRefused(p) ==
  /\ pc[p] = "start" /\ \E q \in Process \ {p} : pc[q] \in Opening
  /\ Goto(p, "corrupt")
  /\ UNCHANGED <<schema, writer, content, files, next, job, saves>>

\* The first statement of a migration takes the write lock.
BeginMigration(p) ==
  /\ pc[p] = "pending" /\ next[p] <= Latest
  /\ writer = Nothing /\ next[p] \notin tables
  /\ writer' = p /\ Goto(p, "migrating")
  /\ UNCHANGED <<schema, content, files, next, job, saves>>

OpenAnyway(p) ==
  /\ pc[p] = "pending" /\ next[p] <= Latest
  /\ writer = Nothing => next[p] \in tables
  /\ Goto(p, "open")
  /\ UNCHANGED <<schema, writer, content, files, next, job, saves>>

\* It fails when another process applied it since the version was read, or holds the
\* lock for longer than busy_timeout: ROLLBACK, and the store is called corrupt.
MigrationFails(p) ==
  /\ pc[p] = "pending" /\ next[p] <= Latest
  /\ writer = Nothing => next[p] \in tables
  /\ Goto(p, "corrupt")
  /\ UNCHANGED <<schema, writer, content, files, next, job, saves>>

\* The statements and the new version are committed together.
CommitMigration(p) ==
  /\ pc[p] = "migrating"
  /\ tables' = tables \cup {next[p]} /\ version' = next[p]
  /\ writer' = Nothing
  /\ next' = [next EXCEPT ![p] = @ + 1] /\ Goto(p, "pending")
  /\ UNCHANGED <<content, files, job, saves>>

Opened(p) ==
  /\ pc[p] = "pending" /\ next[p] > Latest
  /\ Goto(p, "open")
  /\ UNCHANGED <<schema, writer, content, files, next, job, saves>>

----------------------------------------------------------------------------
(* saveRun.                                                                *)

StartSave(p, r, d) ==
  /\ pc[p] = "open" /\ saves[p] < MaxSaves
  /\ saves' = [saves EXCEPT ![p] = @ + 1]
  /\ job' = [job EXCEPT ![p] = [run |-> r, digest |-> d]]
  /\ Goto(p, "put")
  /\ UNCHANGED <<schema, writer, content, files, next>>

\* putJson: a digest that is there already is not written again.
FindFile(p) ==
  /\ pc[p] = "put"
  /\ Goto(p, IF files[job[p].digest] # "none" THEN "insert" ELSE "partial")
  /\ UNCHANGED <<schema, writer, content, files, next, job, saves>>

WriteInPlace(p) ==
  /\ pc[p] = "partial"
  /\ files' = [files EXCEPT ![job[p].digest] = IF @ = "none" THEN "part" ELSE "whole"]
  /\ Goto(p, IF files[job[p].digest] = "none" THEN "partial" ELSE "insert")
  /\ UNCHANGED <<schema, writer, content, next, job, saves>>

\* The content goes to a name of this process and is renamed; whoever is first, the
\* bytes are the same.
RenameFile(p) ==
  /\ pc[p] = "partial"
  /\ files' = [files EXCEPT ![job[p].digest] = "whole"]
  /\ Goto(p, "insert")
  /\ UNCHANGED <<schema, writer, content, next, job, saves>>

\* What the run's rows are after the save: the run and its spans are replaced, the side effects
\* unless there are none to write, and of the metrics none is written or deleted.
RowAfter(old, d) ==
  [digest |-> d, spans |-> {d}, effects |-> IF d \in Effectful THEN {d} ELSE old.effects,
   metrics |-> old.metrics]

\* The row of the artifact takes the write lock, and the other rows follow under it.
InsertRows(p) ==
  /\ pc[p] = "insert" /\ writer = Nothing
  /\ writer' = p /\ Goto(p, "commit")
  /\ UNCHANGED <<schema, content, files, next, job, saves>>

Finished(p) == job' = [job EXCEPT ![p] = NoJob] /\ Goto(p, "open")

Commit(p) ==
  /\ pc[p] = "commit" /\ job[p].digest \notin Repeating
  /\ rows' = [rows EXCEPT ![job[p].run] = RowAfter(@, job[p].digest)]
  /\ artifacts' = artifacts \cup {job[p].digest}
  /\ writer' = Nothing /\ Finished(p)
  /\ UNCHANGED <<schema, files, next, saves>>

CommitWhatWasDone(p) ==
  /\ pc[p] = "commit" /\ job[p].digest \in Repeating
  /\ artifacts' = artifacts \cup {job[p].digest} /\ rows' = rows
  /\ writer' = Nothing /\ Finished(p)
  /\ UNCHANGED <<schema, files, next, saves>>

RaiseWithoutRollback(p) ==
  /\ pc[p] = "commit" /\ job[p].digest \in Repeating
  /\ Finished(p)
  /\ UNCHANGED <<schema, writer, content, files, next, saves>>

\* INSERT INTO span meets the same identifier a second time: ROLLBACK.
Rollback(p) ==
  /\ pc[p] = "commit" /\ job[p].digest \in Repeating
  /\ writer' = Nothing /\ Finished(p)
  /\ UNCHANGED <<schema, content, files, next, saves>>

\* The lock was held for longer than busy_timeout.
Busy(p) ==
  /\ pc[p] \in {"insert", "attributing"} /\ writer # Nothing
  /\ Finished(p)
  /\ UNCHANGED <<schema, writer, content, files, next, saves>>

----------------------------------------------------------------------------
(* What an audit writes to a run.                                          *)

\* reconcileStoredRuns reads the run's trace; resolving its components takes time.
ReadTrace(p, r) ==
  /\ pc[p] = "open" /\ saves[p] < MaxSaves /\ rows[r] # NoRun
  /\ saves' = [saves EXCEPT ![p] = @ + 1]
  /\ job' = [job EXCEPT ![p] = [run |-> r, digest |-> rows[r].digest]]
  /\ Goto(p, "attributing")
  /\ UNCHANGED <<schema, writer, content, files, next>>

\* saveComponentMetrics replaces them, in one transaction.
SaveMetrics(p) ==
  /\ pc[p] = "attributing" /\ writer = Nothing
  /\ rows' = [rows EXCEPT ![job[p].run].metrics = {job[p].digest}]
  /\ Finished(p)
  /\ UNCHANGED <<schema, writer, artifacts, files, next, saves>>

----------------------------------------------------------------------------

\* The process ends, at any point; what it had not committed is gone.
Die(p) ==
  /\ pc[p] # "dead"
  /\ Goto(p, "dead")
  /\ writer' = IF writer = p THEN Nothing ELSE writer
  /\ job' = [job EXCEPT ![p] = NoJob]
  /\ UNCHANGED <<schema, content, files, next, saves>>

\* Another command is started in its place.
Restart(p) ==
  /\ pc[p] \in Refused \cup {"dead"} /\ saves[p] < MaxSaves
  /\ saves' = [saves EXCEPT ![p] = @ + 1]
  /\ Goto(p, "start") /\ next' = [next EXCEPT ![p] = 1]
  /\ UNCHANGED <<schema, writer, content, files, job>>

Step(p) ==
  \/ ReadVersion(p) \/ BeginMigration(p) \/ MigrationFails(p) \/ CommitMigration(p) \/ Opened(p)
  \/ FindFile(p) \/ RenameFile(p) \/ InsertRows(p) \/ Commit(p) \/ Rollback(p)
  \/ SaveMetrics(p)

Next ==
  \E p \in Process :
    \/ Step(p) \/ SwitchRefused(p) \/ Busy(p) \/ Die(p) \/ Restart(p)
    \/ \E r \in Run, d \in Digest : StartSave(p, r, d)
    \/ \E r \in Run : ReadTrace(p, r)

\* A process that lives goes on; calls are finitely many, so the lock becomes free.  That a call
\* that waits gives up after busy_timeout is not relied on.
Spec == Init /\ [][Next]_vars /\ \A p \in Process : WF_vars(Step(p))

----------------------------------------------------------------------------
(* What the store promises.                                                *)

\* Whoever migrates, races or dies: the version says which migrations are there, so the
\* next process resumes where the last one stopped, and none works on a store that lacks a
\* migration its build relies on.
SchemaIsWhole ==
  /\ tables = 1 .. version
  /\ \A p \in Process : pc[p] \in Open => version >= Latest

\* "A database whose version is newer than this build understands is refused": nothing of
\* it is changed (migrations.ts).
NewerIsUntouched == [][version > Latest => UNCHANGED <<schema, content>>]_vars

\* A row never names an artifact that is missing, cut off, or unknown to the artifact
\* table: "a crash cannot leave a half written artifact under a digest" (artifacts.ts).
ReferencedIsWhole ==
  \A r \in Run : rows[r] # NoRun => files[rows[r].digest] = "whole" /\ rows[r].digest \in artifacts

\* A save that fails in the middle leaves nothing of itself in the database.
FailedSaveLeavesNothing ==
  /\ artifacts \cap Repeating = {}
  /\ \A r \in Run : rows[r].spans \cap Repeating = {}

\* Opening, saving and auditing end, whatever the other processes do, and whoever took the
\* write lock gives it back, also when its save fails in the middle.
CallsEnd ==
  \A p \in Process :
    pc[p] \in Opening \cup Saving \/ writer = p ~> pc[p] \notin Opening \cup Saving /\ writer # p

=============================================================================
