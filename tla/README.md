# Verification of the hiring data platform

TLA+ models of the hiring data platform (ingestion, historical load, reports, backup,
restore, reset, the Admin tab and the migration of the current state), the TLC runs
that check them on small instances, and TLAPS proofs about the ingestion, the
historical load, backup, restore and reset, the Admin tab and the reports for every
number of handlers, requests, employees, batches, files and ids.

Every definition is written from the Python code under `src/app` (SQLAlchemy on
PostgreSQL at its default READ COMMITTED). PostgreSQL itself is modelled from the
way the code uses it; the definitions that stand for it are marked external in
`PROJECT.json`.

## 1. The system

A FastAPI service takes batches of departments, jobs and hires as JSON, validates
them row by row, and stores them in six tables; employees are versioned (SCD
type 2). Endpoints for backup, restore and reset move whole tables to and from AVRO
files. Two reports are read from materialized views. A Streamlit page uploads
historical CSV files in chunks. Every request handler is a synchronous function,
so handlers run at the same time in the server's thread pool, each with its own
session.

| Component | State | Operations | Talks to | What is hard |
|---|---|---|---|---|
| Row validation (`domain/validation.py`) | none | `validate_department`, `validate_job`, `validate_hire` | catalogs (`exists`) | which errors, each once; ids that no column can hold |
| Ingestion (`application/ingest_batch.py`, `domain/employee.py`) | locals of `_run_batch` | `ingest_departments`, `ingest_jobs`, `ingest_hires` | repositories, one transaction per batch, then a refresh in a second one | decisions on rows read before others commit, opposite lock orders, failure in the middle of a batch or after its commit |
| Repositories and schema (`infrastructure/db`) | departments, jobs, employees, employee_versions, loads, rejected_records, three identity sequences, two views | `upsert`, `add`, `close_current`, `update_current`, `truncate`, `restore_all`, `refresh_views`, ... | PostgreSQL | SELECT-then-write, the partial unique index, setval that no rollback undoes |
| Backup, Restore, Reset (`application/backup.py`, `restore.py`, `reset.py`) | the file of each table | `run` of each | repositories, codec | one table per request, TRUNCATE ... CASCADE, table locks, a database between two restores |
| AVRO codec (`infrastructure/avro`) | `data/<table>.avro` | `write`, `read` | file system | files written in place, columns a file carries and a restore drops |
| HTTP API (`interface/api`) | none | routers, `get_db`, error handlers | use cases | which status tells the client what |
| Reports (`application/generate_report.py`, `src/sql`, migration 0002) | content of the two views | the two queries, `refresh_views` | the six tables | staleness, two refreshes with two snapshots, TRUNCATE under a waiting refresh |
| Historical-load client (`interface/ui/historical_load.py`, `streamlit_app.py`) | outcomes and rejected rows of the batches, the last summary | `parse_headerless_csv`, `chunk_rows`, `run_historical_load` | HTTP API | timeouts of uploads that commit anyway, re-runs, interruptions |
| Admin tab (`interface/ui/backup_restore.py`, `streamlit_app.py`) | outcome of each button, offered file | backup with download, restore, reset | HTTP API | requests that are given up and go on, a file read in a second request |
| Command line (`interface/cli`) | none | `backup`, `restore` | use cases | |
| Migrations (`db/migrations`) | the schema revision | upgrade, downgrade | the tables | the backfill of revision 0003 |
| Configuration, logging | none | | | |

What makes each correct:

- **Validation**: a row is accepted exactly when none of its fields has a defect
  and its references exist; otherwise every defect is reported once.
- **Ingestion**: whatever interleaves, an employee has exactly one current version
  and its current columns equal it; versions chain without gap or overlap; hire
  facts never change; history is append-only; accepted hires refer to committed
  rows; the answer, the load and its rejected rows agree; every request is answered;
  one handler alone implements "apply the batch as a whole, in row order".
- **Backup, restore, reset**: six files that agree can be restored in the documented
  order from any state of the tables; a failed request commits nothing; the
  identity sequences are ahead of what a restore has committed; every request is answered.
- **Reports**: the two views tell the same story about every state the tables can be in;
  a transfer changes neither; after a successful refresh both show the load it belongs
  to; nothing of before a reset comes back.
- **Historical load**: what is reported of a batch is what the database holds, the summary
  accounts for every row of the files, a reference table that failed is named when hires
  are rejected for it, a run that reports no failure has loaded its files whatever
  happened before, and a run ends.
- **Admin tab**: a file is offered only for a successful backup and is the one it has
  written; six restores that are shown to succeed in their order have recovered the files.
- **Migration 0003**: employees disagree with their current version at most until the next
  transfer, and hire facts and history are those of before.

`PROJECT.json` lists the hazards line by line, each with the properties that cover
it or why none does yet.

## 2. Modules and how they correspond to the code

### Validation
The checks of `ValidationService` as operators that return the sequence of field
errors in the order of the code. A field's value is a good value, `Absent` (missing,
empty or of the wrong type) or, for a datetime, `Malformed`. The parser of datetimes
is therefore a verdict. Whether a reference exists is a parameter: the repository
decides it.

### IngestBatch (core)
`Sessions` are request handlers. `dimensions`, `employees`, `versions`, `loads` and
`rejected` are the committed rows; `wDimensions`, `wEmployees`, `wVersions` are each
session's uncommitted writes; `req` holds the locals of `_run_batch`, `local` what the
statements for the current row have read, `pc` the next statement.

One action is one SQL statement with the Python code up to the next one.

| Action | Code |
|---|---|
| `Receive` | the endpoint, `load_repo.create` |
| `RejectDimension`, `SelectDimension`, `InsertDimension`, `UpdateDimension` | `validate_department` / `validate_job`, `upsert` |
| `CheckDepartment`, `CheckJob` | `validate_hire` with its two `exists` |
| `OutOfRangeLookUp` | `session.get` with an id that no INTEGER column holds |
| `Exists`, `AddEmployee`, `AddFirstVersion` | `_persist_hire`, NEW_EMPLOYEE |
| `GetCurrent`, `CloseSelect`, `CloseUpdate`, `AddVersion`, `UpdateCurrent` | `_persist_hire`, NO_OP and NEW_VERSION |
| `Commit`, `Refresh` | `mark_finished`, `commit`, `refresh_views`, the answer |
| `Abort`, `DeadlockVictim` | any statement fails; the deadlock detector picks one |

`LookUp` is the id that the next SELECT binds: a department, job or employee once it is valid, and
the department and job of every hire that has them. The driver binds it as `::INTEGER`, so an id out of
range fails there and ends the batch; no such id is rejected as unknown or reaches an INSERT.
A session reads committed rows under its own writes (`Over`). A write waits while
another session has an uncommitted write of the same row or of the same entry of a
unique index (`DimensionHolders`, `EmployeeHolders`, `VersionHolders`,
`IndexHolders`), then fails if the key is taken. `close_current` selects the current
version and then updates it by its key, so the two are two actions. `now` is read
before `close_current` runs. `update_current` is one action although it is a SELECT
and an UPDATE: the index entry its session holds at that point keeps everyone else
from writing the employee in between. A rollback (`Fail`) drops the session's writes,
but not the values drawn from the sequences.

### EmployeeHistory (abstract) and SequentialIngest (the refinement)
`EmployeeHistory` is what ingestion promises to a client that posts one batch after another: a
batch of names overwrites names (`LoadCatalog`); a batch of hires takes its valid rows, in order,
into the hire facts (first load wins) and the history (append unless equal to the last)
(`LoadHires`). `NamesAfter` and `StaffAfter` are the tables after each row of a batch, as
recursive functions of the number of rows.

`SequentialIngest` maps `IngestBatch` to it: the catalog is `dimensions`, the hire facts come from
`employees` (`HireFactsIn`), the history is the employee's versions in the order of version_id
(`HistoriesIn`). Every step of a handler is a stutter except the commit, which applies one batch.
This holds of one handler at a time (`OneHandler`; two may duplicate a version, as the run
`ingest_duplicate` shows). `Progress` is what it rests on, and `EveryErrorReportedOnce` the other
promise to such a client: a record for every defect of a row, by a table of verdicts (`Verdict`)
written from `docs/DATA_MODEL.md` and not from the code.

### BackupRestore
The six tables as sets of rows, the files, and per session the uncommitted content of the tables it
has changed (`work`, a function on these tables) and its table locks. One action is one file operation, or the SQL statements of
a session up to the next that takes another table lock. TRUNCATE takes its table and
the dependents it cascades to exclusively, every other statement takes its tables
shared, REFRESH takes its view exclusively; locks are kept to the end of the
transaction. `Abort` may strike before any statement, commit or file operation; a
file that was opened for writing stays `Torn`. Next to the admin requests one session
ingests batches of one row: `loads`, the catalog or the employee with its versions or
the rejected records, the commit, the two REFRESHes in a second transaction.

Rows keep their keys, references, tracked attributes and `first_loaded_at`. The clock
counts half milliseconds because the AVRO schema keeps whole ones.

### HistoricalLoad (composes the client with IngestBatch)
The client of `run_historical_load` beside the handlers of `IngestBatch`: `PostBatch(s)` is
`Receive(s)` with the batch that is next, `ServerStep` every statement of a handler.
`BatchesOf` is the way from the files to the batches (empty lines dropped, fields that are no
integers left as strings, tables without a readable file skipped, `MaxBatchSize` rows to a
batch, departments before jobs before hires), `OutcomeOf` and `RejectedRowsOf` the way from
an answer to what is reported. `Refused`, `TakeAnswer` and `GiveUp` are the three ends of
`post_fn`: the connection is refused, the answer arrives, or it is lost or late; in the last
case the handler goes on beside those of the following batches and runs. `Interrupt` ends a
run in the middle, as any use of the page does; the batch that is being posted is finished
first, since Streamlit stops a script at its next widget call. A file with a line of the
wrong number of fields ends the run before it begins (`zip(strict=True)`). The history
variables `started` and `alone` say which files were ever posted, and whether an upload that
was given up was still at work when the run began.

### ReportViews
The tables as the reports see them, the two views, and `history`, every committed state. The
queries are set comprehensions over the tables. A load, a restore of a table and a reset
commit in one action (their statements are the subject of `IngestBatch` and
`BackupRestore`); the refresh of a load takes five: the snapshot of the first REFRESH, its
lock and rows, the second REFRESH with a snapshot of its own, the commit, or a failure that is
logged. `AfterRows` is what a batch makes of the tables, row by row. A REFRESH that waits for the
lock keeps the snapshot of before, except that TRUNCATE does not honour snapshots.

### CurrentStateMigration (composes migration 0003 with IngestBatch)
`Downgrade` drops the columns of the current state, `Upgrade` adds and fills them. Both run
while the server is stopped (`docker-entrypoint.sh`); `Serve` is any step of the server at the
head revision. `backfilled` remembers the employees that have had no new version since.

### AdminTab (composes the page with BackupRestore)
`Click(s)` posts the request of a button to a handler of `BackupRestore`; `TakeAnswer` and
`GiveUp` end the waiting; a backup that succeeded is followed by `Download`, a second request
that serves whatever the file holds by then. `ServerStep` is any statement of the server,
those of another operator's requests and of requests given up included. `written`,
`disturbed` and `restored` are history variables of the properties: what the backup of the
last click has written, whether another backup of the table was at work since, and how many tables
were restored in order. `restored` begins anew when anything else takes effect in between
(`Interferes`, `Interrupted`).

### Proof modules
`IngestBatchInvariant` states the invariants of the ingestion (`IInv`, `Accounts`, `Backings`,
`Chains`) and `SequentialIngest` that of a lone handler (`Progresses`), in modules without TLAPS.
The other invariants stand at the head of the proofs they are for.

| Module | Proves |
|---|---|
| `IngestBatchProofs` | `IInv` and what follows from it: types, employees in sync, hire facts and history kept |
| `IngestOutcomeProofs` | the chain of versions, the references, what an answer tells |
| `SequentialIngestProofs` | a lone handler implements `EmployeeHistory` and reports each defect once |
| `HistoricalLoadProofs` | the historical load implements `IngestBatch`; what its outcomes and summary say, and what a complete run leaves in the tables |
| `BackupRestoreProofs` | types, answers, sequences and the recovery by six restores |
| `AdminTabProofs` | the page implements the server of `BackupRestore`; downloads; restores through the page |
| `ReportViewsProofs` | types, resets, own loads and transfers in the reports, and that the two reports agree |
| `CurrentStateMigrationProofs` | what migrations and the server on migrated rows keep |

## 3. Runs

| Run | Question | Bounds |
|---|---|---|
| `ingest_concurrent` | Can two handlers desynchronise an employee from its history, break the chain of versions, change hire facts or closed versions, accept hires of unknown references, answer what is not so, or wait for ever? Checks `IInv` itself, too. | 2 handlers, 2 employees in batches of 2 hires: a first load, a transfer in the opposite order, hires of a department that may be unknown or lack a name; the department inserted and another renamed meanwhile, in both orders |
| `ingest_sequential` | Does a lone handler implement `EmployeeHistory`, whatever fails, and record exactly the defects a row has, each once? | 1 handler, batches that hire, repeat, transfer; a batch with a row for every combination of defects of a hire (108) and one of a job (4), known, unknown and out-of-range references and a hire whose id is out of range; aborts and failing refreshes |
| `admin_operations` | Do backup, restore, reset and an ingestion leave the tables, files and sequences recoverable, does the answer tell the outcome, and is every request answered in spite of the different lock orders? | 2 admin handlers, 2 admin requests, 1 ingestion; all six tables; three starting points |
| `historical_load` | Is what the client reports what the database holds, whichever answers are lost or late, whichever run is interrupted and repeated, and does a run end, whatever the server does? | 2 runs of 4 sets of files, 2 handlers, batches of 2 rows, 3 loads that begin |
| `report_views` | Do the reports agree with each other and with what was loaded, restored and reset, while refreshes wait, fail and overtake each other? | 2 handlers, 3 loads, 1 restore or reset; 3 departments, 4 employees, shared names |
| `migration` | What does a downgrade and an upgrade of revision 0003 do to employees and history, and what does the ingestion make of it? | 2 handlers, 1 employee that is transferred there and back, 4 loads, 1 downgrade |
| `admin_tab` | Is the file that is offered the one the backup has written, and have six restores that the page calls successful recovered the files, beside restores that were given up? | 2 handlers; either backup, restore and reset of one table and another operator at work on it or on one that cascades to it, 3 requests, or the restores of all six tables in their order, 7 requests |

**Why the bounds are enough for the interesting cases.** Two handlers and two
employees are what a stale read, a lost update and a deadlock need; two rows per batch
give opposite orders and a row that sees the uncommitted writes of the one before.
`MaxVersions` leaves room for the versions of every batch and for values lost in
rollbacks. In `BackupRestore`, two admin requests and one ingestion are enough for a
file written by two handlers, a restore of a file whose parent table has moved on, a
reset against an ingestion, and a rollback after `setval`. What a longer sequence of
restores needs is not a matter of its length: `RestoreInOrderRecovers` is stated about
all six restores from *each* reachable state of tables and files; `admin_tab` posts them
one by one, with one request more than it needs.

Two runs of the historical load are what it takes to load a file, lose the answer and load it
again, or to load a corrected file over it; the four sets of files have a table with a full
batch and a shorter one, an empty line, an id that is no integer, a file that does not decode
and a ragged line, and two of them fit together. In `report_views`, three loads give a refresh
that waits for another and is overtaken by a third; four employees are the fewest with which a
department lies above an average of two that differs from the average of three. Handlers are
interchangeable, and symmetry is used in the runs that check no liveness and where the handlers
are a set of model values (`report_views`, `migration`, `admin_tab`). `MCAdminTab`
chooses in its initial state what the operator is doing (`operator`), since the two tasks would
only multiply each other's states.

**Fairness.** `FairSpec` says that a handler that can run its next statement eventually
does, and that a circle of waits is eventually broken. The first is the thread of the
request, which no code path parks; the second is PostgreSQL's deadlock detector, which
is on by default (the code sets no lock or statement timeout and relies on it). No fairness
is assumed of clients (`Receive`, `Post`) or of failures (`Abort`). Two handlers that wait
without a circle need nothing more: the one that is waited for runs on to the end of its
transaction, the client's batch being finite. `FairLoadSpec` assumes the opposite: the client
goes on as long as it can (its loop waits for nothing but an answer, at most 30 seconds), and
nothing is assumed of the server.

The passing runs explore 196,747 (`ingest_concurrent`), 45,793 (`ingest_sequential`), 292,883
(`admin_operations`), 334,978 (`historical_load`), 295,980 (`report_views`), 159,123
(`migration`) and 249,482 (`admin_tab`) distinct states.

**What a property would catch.** Next to a definition stands its mutant where there is one: the
same definition with a plausible bug (a forgotten current-state update, a second reading of
the clock, a sequence that is not set, a reset that commits before it refreshes, a session
that is not closed). With the mutant in its place the run of the property fails.

**Deadlock** in TLC's sense is checked in every passing run: `Quiet` (`LoadQuiet`, `TabQuiet`,
`TrialEnds`) stutters only when every request of the bound has been answered.

**What turned out to hold only with a condition.** Two of the properties say less than one would
like, since the code promises no more. A refresh takes its snapshot before it gets the lock of
the view, so the refresh of an earlier load may publish after that of a later one and show an
older report until the next load; `LoadShowsInReports` therefore says that a refresh shows *its
own* load. And a run that loads files while an upload of an earlier run, given up by then, is
still at work may be overwritten by it; `CompleteRunLoadsFiles` claims the content of the files
for good only when the files agree or the run had the server to itself.

### Runs that disagree with a document

| Run | The code | The text |
|---|---|---|
| `ingest_duplicate` | Two concurrent uploads of the same transfer: the second has decided NEW_VERSION on the version it read, then `close_current` selects again, closes the first one's new version and adds an identical one | `docs/DATA_MODEL.md`: "Identical: no-op (idempotent)." |
| `ingest_out_of_range` | An id that is an `int` but exceeds INTEGER passes `_check_id`, fails in the SELECT of the look-up (`session.get`) and takes the batch with it | `docs/DECISIONS.md`: "one bad row does not sink the batch" |
| `restore_employees` | Restoring `employees` empties `employee_versions` by CASCADE and commits; an upload of a restored employee before the next restore reaches the assertion and gets a 500 | `domain/employee.py`: "existing employee must have a current version" |
| `restore_identical` | `EmployeeRepository.add` leaves `first_loaded_at` to the column's default, so a restored employee has the time of the restore and not the value in the file | `docs/BACKUP_RESTORE.md`: "The restored table is identical to the backup" |
| `backup_set` | Each of the six backups reads in its own transaction, so an ingestion in between leaves files that refer to rows missing from each other | `docs/BACKUP_RESTORE.md`: "a backup is trusted, already-clean data" |

`RestoreInOrderRecovers` and `SixRestoresRecover` compare every column but that of `restore_identical`
(`Restorable`). Three smaller disagreements show in what the passing properties do *not* claim:

- `SummaryAccountsForFiles` counts `file_row` among the rows that were parsed: empty lines were
  dropped before, while `interface/ui/historical_load.py` and `docs/DECISIONS.md` say "the 1-based row
  number within the original source file". In the run, an empty line stands before a rejected row.
- `LoadShowsInReports` speaks of loads only: `Restore.run` commits without a refresh, so the
  reports keep showing the rows of before, or nothing after a reset, until the next load, while
  `docs/DECISIONS.md` says "the two report views are derived data, rebuilt by `REFRESH` from the
  six backed-up tables".
- `OnlyBackfilledDisagree` exempts the employees that an upgrade has filled: their hire facts are
  copied into the current columns also when they were transferred, while migration 0003 says
  "Existing rows are backfilled from their hire facts (correct: at first load, current == hire)".

## 4. What is proved

Every theorem is a consequence of the specification and the named assumptions on its constants,
for every value of them; nothing bounds the number of sessions, employees, batches or requests.

| Theorem | Module | States |
|---|---|---|
| `Invariance` | `IngestBatchProofs` | `Spec => []IInv` |
| `TypeCorrect` | | `Spec => []TypeOK` |
| `InSyncAlways` | | `Spec => []CurrentStateInSync` |
| `HireFactsAlwaysKept` | | `Spec => HireFactsImmutable` |
| `HistoryAlwaysKept` | | `Spec => HistoryAppendOnly` |
| `AnswersTellOutcome` | `IngestOutcomeProofs` | `Spec => []AnswerTellsOutcome` |
| `VersionsAlwaysChain` | | `Spec => []VersionsChain` |
| `ReferencesAlwaysKnown` | | `Spec => []ReferencesKnown` |
| `LoneHandlerImplementsHistory` | `SequentialIngestProofs` | `OneHandler`: `Spec => ImplementsHistory` |
| `LoneHandlerReportsDefects` | | `OneHandler`: `Spec => EveryErrorReportedOnce` |
| `LoadImplementsIngest` | `HistoricalLoadProofs` | `LoadSpec => Spec` |
| `LoadKeepsSync` | | `LoadSpec => []CurrentStateInSync` |
| `ReportedLoadsAlwaysCommitted` | | `LoadSpec => []ReportedLoadsCommitted` |
| `LoadTypeCorrect` | | `LoadSpec => []LoadTypeOK` |
| `SummaryAlwaysAccounts` | | `LoadSpec => []SummaryAccountsForFiles` |
| `CascadeAlwaysFlagged` | | `LoadSpec => []CascadeIsFlagged` |
| `CompleteRunsAlwaysLoad` | | `LoadSpec => []CompleteRunLoadsFiles` |
| `OnlyBackfilledEverDisagree` | `CurrentStateMigrationProofs` | `MigrationSpec => []OnlyBackfilledDisagree` |
| `MigrationsAlwaysKeepFacts` | | `MigrationSpec => MigrationsKeepFacts` |
| `TypeAlways` | `BackupRestoreProofs` | `Spec => []TypeOK` |
| `AnswersAreTrue` | | `Spec => []AnswerTellsOutcome` |
| `SequencesStayAhead` | | `Spec => SequencesKeepAhead` |
| `RestoresRecover` | | `Spec => []RestoreInOrderRecovers` |
| `TabImplementsServer` | `AdminTabProofs` | `TabSpec => Spec` |
| `TabAnswersAreTrue` | | `TabSpec => []AnswerTellsOutcome` |
| `DownloadsAreBackups` | | `TabSpec => []DownloadIsTheBackup` |
| `SixRestoresBringBack` | | `TabSpec => []SixRestoresRecover` |
| `TypeAlways` | `ReportViewsProofs` | `Spec => []TypeOK` |
| `ReportsAlwaysAgree` | | `Spec => []ReportsAgree` |
| `ResetsAreForgotten` | | `Spec => []ReportsForgetReset` |
| `LoadsAreShown` | | `Spec => LoadShowsInReports` |
| `TransfersAreNotHires` | | `Spec => TransfersKeepReports` |

**Assumptions.** `IngestBatch`: batches are sequences of rows, the catalogs at the beginning have
their type and no id that their columns cannot hold, the sentinels are not values, the bounds are naturals; `SequentialIngest` adds that the
sentinel is no record of hire facts (`HireFactsAssumption`). `HistoricalLoad`: batches have at least
one row (`BatchSizeAssumption`), "nobody" is no session, the number of runs is a natural
(`RunsAssumption`) and a file that decodes is a sequence of lines (`UploadsAssumption` of that
module). `CurrentStateMigration`: a row of employees without the columns of the current state is
still a row and not the sentinel (`ColumnsAssumption`). `BackupRestore`: the rows at the
beginning are finite, with one row to a key, with known references and with numbers for ids in the
identity tables (`PopulatedAssumption`), uploads are for one of the three endpoints
(`UploadsAssumption`), the ingestion is not an admin's handler (`SessionsAssumption`). `ReportViews`:
finitely many employees (their key is an INTEGER, `FiniteAssumption`), sentinels apart from values,
batches of validated rows, and tables whose references are found for the beginning and for the saved
files (`TablesAssumption`). `OneHandler` is a hypothesis of the two theorems that need it and no
assumption of a module.

### Ingestion
`CurrentStateInSync` speaks of committed rows only and says nothing of what is about to be
committed. `IInv` is `Consistent`, which speaks of one current version for each employee
(`OneVersionEach`) but not of what the employee's columns say, together with `CurrentStateInSync`;
the migrations, which break the latter, keep the former. `Consistent` adds

- `LocksExclusive` and `SequenceAhead`: a row is written by one session at a time, and a
  drawn version_id is new to everyone;
- `FactsKept`: an uncommitted write keeps the hire facts and what a version records;
- `SessionInv`: for every statement of `_persist_hire`, what its session has written so
  far. Between two rows each employee it has touched is `Settled`: it sees exactly one
  current version, equal to the employee's current columns, holds the committed current
  version (`Owns`) and rewrites only versions that are still open (`ClosesOpen`);
- `Overtaken`: the one case in which the target of `close_current` may have been closed by
  another session after it was read. Then that session has committed a current version
  which this one does not hold, so the INSERT of the new version must fail on the partial
  unique index, and the UPDATE of a closed row is never committed. This is the argument
  for why the race between the two SELECTs cannot corrupt history, although it can
  duplicate a version;
- `RowInv`, `TargetInv`: the row a statement works on has passed validation.

`IngestBatchProofs` has one lemma per action for the types and one for the other conjuncts; the
actions that only move a session's control are treated together. The difficult one is the commit
of one session seen from the others (`CommitStep`): another session's view changes under
it, and what it has written stays consistent because the rows are exclusively held. The
temporal theorems combine these by PTL.

`VersionsChain` needs `Chains`: what a session sees of every employee chains, except that of the
employee at work between closing its version and inserting the next, which is chained until the
second at which it was closed (`ChainedUntil`), or overtaken. An overtaken session may close a
version a second time, with a later `valid_to`, and so does break the chain it sees; it never
publishes this, since its INSERT fails. `ReferencesKnown` needs `Backings`: a handler of hires has
no uncommitted catalog rows, so what `exists` has found is committed; catalogs only grow; and what
the row being persisted and every uncommitted employee refer to was found that way.
`AnswerTellsOutcome` speaks of handlers that have answered; `Accounts` says what they keep until
then: no two requests share a load and nobody writes another one's (`LoadsApart`), the counters
add up to the rows gone through, a rejected row has left a reason, and the load appears with the
commit and not before (`AccountInv`).

### A lone handler
`Progress` says that between two rows the session sees exactly what `NamesAfter` or `StaffAfter`
makes of the *committed* tables with the rows so far, that the last version of an employee at work
from `close_current` on records other attributes than the row, and that a session at rest has
written nothing. It rests on `IInv` and `Chains` (versions of an employee are closed before the next is opened, so an inserted
version is the last one in the order of version_id) and on `OneHandler`, which lets the committed
tables stand still until the commit. At the commit the rows are all gone through, so the tables become
what `LoadCatalog` or `LoadHires` makes of them.

The history of an employee is its versions by rank. That appending a version with a greater
version_id appends its attributes, and that closing a version changes no history, are lemmas on
`HistoryIn` by cardinality. That the recursive functions are defined everywhere and satisfy their
equation is proved for iterations of an operator in general (`UpTo`, `LeastNumber`), and once for each.

For `EveryErrorReportedOnce`, the errors that `validate_*` returns are a concatenation of at most one
per field; `Reports` says of such a sequence that it has one entry for each field whose verdict is not
`ok`, and concatenation preserves it for disjoint fields. The one verdict the code takes from an
earlier statement, `department_known`, is still true when the job has been looked up.

### Historical load
`LoadImplementsIngest`: every step of the historical load is a step of the ingestion or a stutter.
`ReportedLoadsCommitted` needs that the handler the client waits for was given the batch that is
reported next (`AwaitedBatch`), which `PostBatch` establishes and no other handler's step
disturbs, and that a committed load is never written again (`LoadsStay`, from `Accounts`).

What is claimed of a run rests on `Plan`: the batches of an upload make up every row of its files,
no two of them have the same table and number, the hires come last, and `file_row` of a row of a batch is
its place among the rows that were parsed from the file. `ChunkRows` is treated by arithmetic on the rows before a batch (`Before`,
`Chunked`), and the number of rows of a table by a running count (`RowCount`) whose values are those
of the recursive function of `RowsReported`.

- `LoadTypeOK` and `SummaryAccountsForFiles` need `RunInv`: the outcomes report on the first
  batches of the plan and the others remain (`Progress`), and the rejected rows are rows of the
  files, as many different ones for a batch as the API has counted (`Accounted`). The latter is true
  because of `Responses`: a handler lists a row once for each defect, in ascending order, and counts
  it once.
- `CascadeIsFlagged` needs `CascadeInv`: a handler of departments or jobs sees every valid row it has gone
  through, and when it answers with a 200 they are committed (`Landed`); a reported success is such an answer
  (`ReportsLanded`). So if no reference table has failed when the hires are sent, the handler the client waits for
  finds every reference of files that fit together (`AwaitedKnown`), whichever rows
  uploads of earlier runs add meanwhile, since catalogs only grow.
- `CompleteRunLoadsFiles` is about everything that may still overwrite a row. For a collection `R` of
  rows, `Tells(R)` says that all uncommitted writes are rows of `R` (`Own`), that a handler that has rejected
  nothing sees what its rows say, as far as `R` agrees on them, and has committed it when it answers with
  a 200 (`Told`), and that the batches reported without a rejected row are committed (`ReportsStand`).
  Any step keeps this as long as nothing but rows of `R` is uploaded (`TellsStep`). It is used
  for two collections: the rows of all runs so far (`StartedInv`), and those of the present run when no
  handler of an earlier one has outlived its start (`AloneInv`).

### Backup, restore and reset
The invariant `BInv` is about locks. No two sessions hold locks that conflict (`LocksApart`); what a
transaction has written lies in tables whose rows nobody else can change before it ends (`Holding`:
those it has locked exclusively and, for the one ingestion, those it shares); and those rows have
ids that the sequence has left behind or that are in the table anyway (`Drawn`). So a commit
publishes tables with their keys although `work` was computed from an older `db`, and the sequences
stay ahead of what others draw meanwhile. `ReplyOK` is per statement whether the request has
committed. For `SequencesKeepAhead`, `setval` of a restore takes effect at once and is not undone, so
that step may leave a sequence below its committed rows; the rows the restore then publishes all lie
below the sequence (`RestoreOK`), since the exclusive lock on the table keeps everyone else from
another `setval`. `Numbered` says that ids have a greatest one, which a finite set of numbers has by the
least upper bound.

`RestoreInOrderRecovers` is about the six tables that restoring the files one after another would
leave (`RestoredInOrder`, a recursive function on `0 .. 6`); the proof gives the function explicitly
and shows by steps that a restore keeps what the ones before have brought back, since a table is
restored after those it refers to and the cascade only reaches later ones. What `add` does to
`first_loaded_at` is carried through the steps (`FromAvro`) and dropped at the end (`RestorableRows`).

### Migrations
`MigrationInv` says that at the head revision the tables are `Consistent`, that before it they are so but for the
missing columns, and that a session at rest has written nothing (so no statement is in the middle of a
migration), together with `OnlyBackfilledDisagree` itself. A downgrade leaves the versions, so each employee
still has one that is open; an upgrade gives every employee its hire facts for a current state. From then on
only a commit publishes anything, and it puts every employee it touches in sync whatever was there before
(`CommitSyncs`, which needs `Consistent` only) and leaves the others as they were.

### Admin tab
`TabImplementsServer`: every step of the page is a step of `BackupRestore` or a stutter, so all of its
theorems hold beside the page. `DownloadIsTheBackup` needs `BackupOK`: another backup of the table that
is at work has been noticed, and without one the file is what the handler of the click has made it.
`SixRestoresRecover` needs `RestoreInv`: while the restore that is next in order is at work, its
handler has read the file as it still is, and has written only its table and what it cascades to;
and the tables counted so far are as in their files, in every column but `first_loaded_at`. It includes that a restore of another table given up
earlier, and the setval of any, is noticed when it takes effect.

### Reports
`RInv` says that the views, the snapshot of every refresh that waits and the rows it has staged, are
those of a committed state since the last reset (`SinceReset`), or empty. A refresh that waits cannot
carry rows over a reset: the reset empties the tables that the snapshot would show. The same invariant
tells of each session that what it shows was read at its own load or later, unless a restore or reset
came in between; hence `LoadsAreShown`. `TransfersAreNotHires` shows that the two queries depend on
the hire facts and the names only, by the set of tables that agree on them, which no row of a
batch of known employees leads out of (`AfterRowsIn`).

`ReportsAgree` compares sums with sizes. The total of a function with natural values, a fold, is the
number of pairs of an argument and a number up to its value (`Heap`, `TotalIsSize`); the function
by which the fold is defined is shown to be that size by the least counterexample. Hence the counts of the parts
of a set add up to its size (`PartsAddUp`): the cells of a row to the hires of its department and job,
and the rows to all hires of the year, also when two departments or jobs share a name. With distinct names the
departments of the second report are those of the first, with the same counts and the same average
(`AgreementOfTables`).

### Only model-checked
- **Liveness** (`EveryRequestAnswered`, `EveryRunEnds`): TLAPS has no ENABLED.
- **The five runs that expect a violation** need no proof: TLC's trace is one.

Every invariant and every action property that a passing run checks is stated by a theorem. What the
theorems say of recursive functions and of folds (`AfterRows`, `NamesAfter`, `StaffAfter`, `RowsReported`,
`NonBlank`, `Total`) is what the properties need of them, by way of a least number (`LeastNumber`), since the
library's induction theorems take an operator as a parameter that no installed prover can instantiate.

## 5. What is not modelled

- The text of datetimes, the shape of JSON and the limit of a batch (422: the client never sends
  more than `MAX_BATCH_SIZE` rows), logging, settings, pooling: no state that the properties speak
  of.
- A COMMIT that takes effect although its answer is lost: the server would answer 500 with the batch
  committed. In the models a COMMIT either takes effect and succeeds or fails and leaves nothing.
- Row locks taken by foreign-key checks. In `IngestBatch` rows of the catalogs are never
  deleted, so a check cannot fail after validation; its locks can only add waits. In
  `BackupRestore` they are subsumed by the table locks.
- Several batches in `BackupRestore`'s ingestion, which is `IngestBatch`'s subject, and the
  statements of loads and restores in `ReportViews`, which are the subject of the two others.
- The readers: the GET endpoints of reports, loads and rejected records change nothing and
  answer from one SELECT each. `recent_stats` and `list_for_load` are called by tests only. The
  order of the rows and the layout of the pages are left out.
- The login of the Admin tab and its confirmations (they decide whether a button can be clicked),
  the exit codes of the command line, which runs the use cases of `BackupRestore` and keeps no state.
- The downgrades of revisions 0001 and 0002, which drop what their upgrades create, and the
  upgrades themselves except for the schema and the views they define.
- Which load a rejected record belongs to after files of different times were restored: no document
  says it, and `backup_set` shows that such files need not even be restorable.

## 6. Plan

Built: all of the modules above. `AdminTab` and the migrations are as complete as their
state allows; what is left of the partly modelled components are readers, parsers and
text.

Nothing that was planned is left. When the code changes, the map in `PROJECT.json` says which definitions
stand for which lines, and the theorems that no longer follow say what the change breaks.
