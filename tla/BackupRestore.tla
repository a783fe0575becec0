---------------------------- MODULE BackupRestore ----------------------------
(***************************************************************************)
(* The admin operations Backup, Restore and Reset                          *)
(* (src/app/application/backup.py, restore.py, reset.py) next to an        *)
(* ingestion, on the six tables and the files data/<table>.avro.           *)
(*                                                                         *)
(* One action is one file operation, or the SQL statements of a session up *)
(* to the next one that takes another table lock (the inserts of a restore *)
(* and its setval, the two REFRESHes of a reset, the statements of         *)
(* _persist_hire).  A TRUNCATE holds its tables exclusively and every other*)
(* statement holds its tables shared, until the session's transaction      *)
(* ends; a statement waits for conflicting locks and the deadlock detector *)
(* breaks circles.  How two ingestions interleave is the subject of        *)
(* IngestBatch: here one session posts batches of one row.                 *)
(*                                                                         *)
(* Rows keep what the operations depend on: keys, references, the tracked  *)
(* attributes and employees.first_loaded_at, the one column that a restore *)
(* does not write.  What the report views hold is not part of the state.   *)
(***************************************************************************)
EXTENDS Naturals, Sequences, FiniteSets

CONSTANTS
    Admins,       \* handlers of backup, restore and reset requests
    Ingester,     \* the handler of ingestion requests
    Uploads,      \* the one-row batches that may be posted
    Populated,    \* the rows loaded, and backed up, before the run begins
    NoFile,       \* data/<table>.avro does not exist
    Torn,         \* data/<table>.avro is opened for writing or was left incomplete
    MaxRequests,  \* bound: backup, restore and reset requests
    MaxIngests    \* bound: ingestion requests

Sessions == Admins \cup {Ingester}

\* TABLE_NAMES, the order of reference in which the docs have tables restored.
TableNames == << "departments", "jobs", "employees", "employee_versions",
                 "loads", "rejected_records" >>
Tables == {TableNames[i] : i \in 1 .. Len(TableNames)}
IdentityTables == {"employee_versions", "loads", "rejected_records"}
Reports == {"report_hires_by_quarter", "report_departments_above_average"}

\* The foreign keys of the schema.
References ==
    [t \in Tables |->
        CASE t = "employees" -> {"departments", "jobs"}
          [] t = "employee_versions" -> {"employees", "departments", "jobs"}
          [] t = "rejected_records" -> {"loads"}
          [] OTHER -> {}]

\* A mutant of Cascade: the parents go instead of the dependents.
CascadeUpwards(t) == {t} \cup References[t]

\* The tables that TRUNCATE t CASCADE empties.  The foreign keys are
\* transitively closed, so the direct dependents are all of them.
Cascade(t) == {t} \cup {u \in Tables : t \in References[u]}

\* The keys that a row of t refers to, by table.
Referred(t, row) ==
    CASE t = "employees" ->
           { << "departments", row.hired_as.department_id >>,
             << "departments", row.current.department_id >>,
             << "jobs", row.hired_as.job_id >>,
             << "jobs", row.current.job_id >> }
      [] t = "employee_versions" ->
           { << "employees", row.employee_id >>,
             << "departments", row.attributes.department_id >>,
             << "jobs", row.attributes.job_id >> }
      [] t = "rejected_records" -> { << "loads", row.load_id >> }
      [] OTHER -> {}

HasKey(d, t, id) == \E row \in d[t] : row.id = id
ReferencesFound(d, t) == \A row \in d[t] : \A r \in Referred(t, row) : HasKey(d, r[1], r[2])

\* The columns that the model keeps of a row of t.
KeyedRow(t, row) ==
    CASE t \in {"departments", "jobs"} -> DOMAIN row = {"id", "name"}
      [] t = "employees" -> DOMAIN row = {"id", "hired_as", "current", "first_loaded_at"}
      [] t = "employee_versions" -> DOMAIN row = {"id", "employee_id", "attributes", "is_current"}
      [] t = "loads" -> DOMAIN row = {"id", "accepted", "rejected"}
      [] t = "rejected_records" -> DOMAIN row = {"id", "load_id"}

\* No two rows of a table have the same key.
Keyed(t, rows) ==
    /\ \A row \in rows : KeyedRow(t, row)
    /\ \A row, other \in rows : row.id = other.id => row = other

ASSUME PopulatedAssumption ==
    /\ DOMAIN Populated = Tables
    /\ \A t \in Tables :
          IsFiniteSet(Populated[t]) /\ Keyed(t, Populated[t]) /\ ReferencesFound(Populated, t)
    /\ \A t \in IdentityTables : \A row \in Populated[t] : row.id \in Nat

\* TargetTable of the endpoints.
ASSUME UploadsAssumption ==
    \A u \in Uploads : u.target \in {"departments", "jobs", "hired_employees"}

ASSUME SessionsAssumption == Ingester \notin Admins

ASSUME BoundsAssumption == MaxRequests \in Nat /\ MaxIngests \in Nat

VARIABLES
    db,        \* the committed rows of each table
    nextId,    \* the next value of each identity sequence, which no rollback undoes
    clock,     \* the next value of now(), which moves on when a row is stamped with it
    files,     \* data/<table>.avro
    work,      \* per session, the uncommitted content of the tables it has changed
    locks,     \* per session, the tables and views it holds shared and exclusively
    pc,
    job,       \* per session, the request it handles
    answer,    \* per session, the HTTP status of its last request
    requests, ingests  \* how many requests were posted

vars == << db, nextId, clock, files, work, locks, pc, job, answer, requests, ingests >>
bounds == << requests, ingests >>

NoWrites == [t \in {} |-> {}]
NoLocks == [shared |-> {}, exclusive |-> {}]
NoUpload == [target |-> "departments", id |-> 0]
NoJob == [op |-> "none", table |-> "departments", rows |-> {}, step |-> 1,
          upload |-> NoUpload, load_id |-> 0, errors |-> 0, rejected |-> 0,
          committed |-> FALSE]

-----------------------------------------------------------------------------
(***************************************************************************)
(* PostgreSQL and the AVRO files as the code uses them.                    *)
(***************************************************************************)
Seen(s) == [t \in Tables |-> IF t \in DOMAIN work[s] THEN work[s][t] ELSE db[t]]
Write(s, d) ==
    work' = [work EXCEPT ![s] = [t \in {u \in Tables : d[u] # db[u]} |-> d[t]]]

Goto(s, label) == pc' = [pc EXCEPT ![s] = label]

CurrentOf(d, e) == {v \in d["employee_versions"] : v.employee_id = e /\ v.is_current}

\* TRUNCATE TABLE t CASCADE: the sequences keep their values.
Emptied(d, t) == [u \in Tables |-> IF u \in Cascade(t) THEN {} ELSE d[u]]

\* The rows that the repositories insert for those read from a file:
\* EmployeeRepository.add leaves first_loaded_at to the column's default.
FromAvro(t, rows, now) ==
    IF t = "employees" THEN {[e EXCEPT !.first_loaded_at = now] : e \in rows} ELSE rows

\* Timestamps are written to the millisecond; the clock counts half ones.
Millis(time) == time - (time % 2)
ToAvro(t, rows) ==
    IF t = "employees"
      THEN {[e EXCEPT !.first_loaded_at = Millis(@)] : e \in rows}
      ELSE rows

\* A mutant of Resynced: the sequence stays where it was.
NotResynced(t, rows) == nextId

\* setval(MAX(id) + 1, false), which restore_all skips when there is no row.
Resynced(t, rows) ==
    IF t \in IdentityTables /\ rows # {}
      THEN [nextId EXCEPT ![t] = (CHOOSE r \in rows : \A q \in rows : q.id <= r.id).id + 1]
      ELSE nextId

\* The locks that the next statement of s takes.
NextLocks(s) ==
    LET Take(shared, exclusive) == [shared |-> shared, exclusive |-> exclusive]
    IN  CASE pc[s] = "backup_select" -> Take({job[s].table}, {})
          [] pc[s] = "restore_truncate" -> Take({}, Cascade(job[s].table))
          [] pc[s] = "restore_insert" -> Take(References[job[s].table], {})
          [] pc[s] = "reset_truncate" -> Take({}, Cascade(TableNames[job[s].step]))
          [] pc[s] = "reset_refresh" -> Take({}, Reports)
          [] pc[s] = "ingest_create" -> Take({"loads"}, {})
          [] pc[s] = "ingest_upsert" -> Take({job[s].upload.target}, {})
          [] pc[s] = "ingest_check" -> Take({"departments", "jobs"}, {})
          [] pc[s] = "ingest_reject" -> Take({"rejected_records"}, {})
          [] pc[s] = "ingest_persist" -> Take({"employees", "employee_versions"}, {})
          [] pc[s] = "refresh_hires" ->
               Take({"departments", "jobs", "employees"}, {"report_hires_by_quarter"})
          [] pc[s] = "refresh_average" ->
               Take({"departments", "employees"}, {"report_departments_above_average"})
          [] OTHER -> NoLocks

\* The sessions whose locks conflict with those.
WaitsFor(s) ==
    {o \in Sessions \ {s} :
        \/ locks[o].exclusive \cap (NextLocks(s).shared \cup NextLocks(s).exclusive) # {}
        \/ locks[o].shared \cap NextLocks(s).exclusive # {}}

\* The statement runs when nobody is in its way, and keeps its locks.
Acquire(s) ==
    /\ WaitsFor(s) = {}
    /\ locks' = [locks EXCEPT ![s].shared = @ \cup NextLocks(s).shared,
                              ![s].exclusive = @ \cup NextLocks(s).exclusive]

\* A mutant of EndTransaction: the session goes back to the pool as it is.
KeepLocks(s) ==
    /\ work' = [work EXCEPT ![s] = NoWrites]
    /\ UNCHANGED locks

EndTransaction(s) ==
    /\ work' = [work EXCEPT ![s] = NoWrites]
    /\ locks' = [locks EXCEPT ![s] = NoLocks]

\* The request is answered and get_db closes the session.
Answer(s, status, committed) ==
    /\ EndTransaction(s)
    /\ Goto(s, "idle")
    /\ answer' = [answer EXCEPT ![s] = status]
    /\ job' = [job EXCEPT ![s] = [NoJob EXCEPT !.op = job[s].op, !.committed = committed]]

\* An exception leaves the handler.
Fail(s) == Answer(s, "500", job[s].committed) /\ UNCHANGED << db, clock, files, bounds >>

-----------------------------------------------------------------------------
(***************************************************************************)
(* Backup.run: list_all, then write_avro, which opens the file in place.   *)
(***************************************************************************)
PostBackup(s) ==
    /\ pc[s] = "idle" /\ requests < MaxRequests
    /\ requests' = requests + 1
    /\ \E t \in Tables : job' = [job EXCEPT ![s] = [NoJob EXCEPT !.op = "backup", !.table = t]]
    /\ Goto(s, "backup_select")
    /\ answer' = [answer EXCEPT ![s] = "none"]
    /\ UNCHANGED << db, nextId, clock, files, work, locks, ingests >>

BackupSelect(s) ==
    /\ pc[s] = "backup_select"
    /\ Acquire(s)
    /\ job' = [job EXCEPT ![s].rows = ToAvro(job[s].table, db[job[s].table])]
    /\ Goto(s, "backup_open")
    /\ UNCHANGED << db, nextId, clock, files, work, answer, bounds >>

BackupOpen(s) ==
    /\ pc[s] = "backup_open"
    /\ files' = [files EXCEPT ![job[s].table] = Torn]
    /\ Goto(s, "backup_close")
    /\ UNCHANGED << db, nextId, clock, work, locks, job, answer, bounds >>

\* When another handler has written the file since it was opened here, the
\* longer of the two contents may stick out behind the other.
BackupClose(s) ==
    LET t == job[s].table
    IN  /\ pc[s] = "backup_close"
        /\ \E content \in {job[s].rows} \cup (IF files[t] = Torn THEN {} ELSE {Torn}) :
             files' = [files EXCEPT ![t] = content]
        /\ Answer(s, "200", FALSE)
        /\ UNCHANGED << db, nextId, clock, bounds >>

-----------------------------------------------------------------------------
(***************************************************************************)
(* Restore.run: read the file, truncate, insert every row, commit.         *)
(***************************************************************************)
PostRestore(s) ==
    /\ pc[s] = "idle" /\ requests < MaxRequests
    /\ requests' = requests + 1
    /\ \E t \in Tables : job' = [job EXCEPT ![s] = [NoJob EXCEPT !.op = "restore", !.table = t]]
    /\ Goto(s, "restore_read")
    /\ answer' = [answer EXCEPT ![s] = "none"]
    /\ UNCHANGED << db, nextId, clock, files, work, locks, ingests >>

\* A missing file is answered with 404, an incomplete one is not an AVRO file.
RestoreRead(s) ==
    LET t == job[s].table
    IN  /\ pc[s] = "restore_read"
        /\ \/ /\ files[t] = NoFile /\ Answer(s, "404", FALSE)
              /\ UNCHANGED << db, clock, files, bounds >>
           \/ files[t] = Torn /\ Fail(s)
           \/ /\ files[t] \notin {NoFile, Torn}
              /\ job' = [job EXCEPT ![s].rows = files[t]]
              /\ Goto(s, "restore_truncate")
              /\ UNCHANGED << db, clock, files, work, locks, answer, bounds >>
        /\ UNCHANGED nextId

\* A mutant of RestoreTruncate: the rows of the file are merged into the table.
RestoreWithoutTruncate(s) ==
    /\ pc[s] = "restore_truncate"
    /\ Acquire(s)
    /\ Goto(s, "restore_insert")
    /\ UNCHANGED << db, nextId, clock, files, work, job, answer, bounds >>

RestoreTruncate(s) ==
    /\ pc[s] = "restore_truncate"
    /\ Acquire(s)
    /\ Write(s, Emptied(Seen(s), job[s].table))
    /\ Goto(s, "restore_insert")
    /\ UNCHANGED << db, nextId, clock, files, job, answer, bounds >>

\* The table after the inserts.
Loaded(d, t, rows, now) == [d EXCEPT ![t] = @ \cup FromAvro(t, rows, now)]

\* A row whose references are not there ends the request; with all rows in
\* place the sequence is set, at once and for good.
RestoreInsert(s) ==
    LET t == job[s].table
        loaded == Loaded(Seen(s), t, job[s].rows, clock)
    IN  /\ pc[s] = "restore_insert"
        /\ IF ReferencesFound(loaded, t)
             THEN /\ Acquire(s)
                  /\ Write(s, loaded)
                  /\ nextId' = Resynced(t, job[s].rows)
                  /\ clock' = IF t = "employees" THEN clock + 1 ELSE clock
                  /\ Goto(s, "restore_commit")
                  /\ UNCHANGED << db, files, job, answer, bounds >>
             ELSE /\ WaitsFor(s) = {}
                  /\ Fail(s)
                  /\ UNCHANGED nextId

\* session.commit: the transaction's tables become visible at once.
RestoreCommit(s) ==
    /\ pc[s] = "restore_commit"
    /\ db' = Seen(s)
    /\ Answer(s, "200", TRUE)
    /\ UNCHANGED << nextId, clock, files, bounds >>

-----------------------------------------------------------------------------
(***************************************************************************)
(* Reset.run: truncate the six tables, refresh the views, commit.          *)
(***************************************************************************)
PostReset(s) ==
    /\ pc[s] = "idle" /\ requests < MaxRequests
    /\ requests' = requests + 1
    /\ job' = [job EXCEPT ![s] = [NoJob EXCEPT !.op = "reset"]]
    /\ Goto(s, "reset_truncate")
    /\ answer' = [answer EXCEPT ![s] = "none"]
    /\ UNCHANGED << db, nextId, clock, files, work, locks, ingests >>

AfterTruncate(s) ==
    /\ Goto(s, IF job[s].step < Len(TableNames) THEN "reset_truncate" ELSE "reset_refresh")

ResetTruncate(s) ==
    /\ pc[s] = "reset_truncate"
    /\ Acquire(s)
    /\ Write(s, Emptied(Seen(s), TableNames[job[s].step]))
    /\ job' = [job EXCEPT ![s].step = @ + 1]
    /\ AfterTruncate(s)
    /\ UNCHANGED << db, nextId, clock, files, answer, bounds >>

\* A mutant of ResetRefresh: the tables are committed before the views are
\* refreshed, as an ingestion does.
ResetCommitThenRefresh(s) ==
    /\ pc[s] = "reset_refresh"
    /\ WaitsFor(s) = {}
    /\ db' = Seen(s)
    /\ EndTransaction(s)
    /\ job' = [job EXCEPT ![s].committed = TRUE]
    /\ Goto(s, "reset_commit")
    /\ UNCHANGED << nextId, clock, files, answer, bounds >>

\* The failure of a refresh is the failure of the reset (Abort).
ResetRefresh(s) ==
    /\ pc[s] = "reset_refresh"
    /\ Acquire(s)
    /\ Goto(s, "reset_commit")
    /\ UNCHANGED << db, nextId, clock, files, work, job, answer, bounds >>

ResetCommit(s) ==
    /\ pc[s] = "reset_commit"
    /\ db' = Seen(s)
    /\ Answer(s, "200", TRUE)
    /\ UNCHANGED << nextId, clock, files, bounds >>

-----------------------------------------------------------------------------
(***************************************************************************)
(* An ingestion (IngestBatch._run_batch) of one row, statement by          *)
(* statement.                                                              *)
(***************************************************************************)
PostUpload(s) ==
    /\ s = Ingester /\ pc[s] = "idle" /\ ingests < MaxIngests
    /\ ingests' = ingests + 1
    /\ \E u \in Uploads : job' = [job EXCEPT ![s] = [NoJob EXCEPT !.op = "ingest", !.upload = u]]
    /\ Goto(s, "ingest_create")
    /\ answer' = [answer EXCEPT ![s] = "none"]
    /\ UNCHANGED << db, nextId, clock, files, work, locks, requests >>

\* The row that an INSERT adds to table t of d.
With(d, t, row) == [d EXCEPT ![t] = @ \cup {row}]

\* INSERT INTO loads draws the id, and fails when the sequence is behind the rows.
IngestCreate(s) ==
    LET l == nextId["loads"]
    IN  /\ pc[s] = "ingest_create"
        /\ nextId' = [nextId EXCEPT !["loads"] = @ + 1]
        /\ IF HasKey(db, "loads", l)
             THEN WaitsFor(s) = {} /\ Fail(s)
             ELSE /\ Acquire(s)
                  /\ Write(s, With(db, "loads", [id |-> l, accepted |-> 0, rejected |-> 0]))
                  /\ job' = [job EXCEPT ![s].load_id = l]
                  /\ Goto(s, IF job[s].upload.target = "hired_employees"
                               THEN "ingest_check" ELSE "ingest_upsert")
                  /\ UNCHANGED << db, clock, files, answer, bounds >>

IngestUpsert(s) ==
    LET u == job[s].upload
        others == {r \in db[u.target] : r.id # u.id}
    IN  /\ pc[s] = "ingest_upsert"
        /\ Acquire(s)
        /\ Write(s, [Seen(s) EXCEPT ![u.target] = others \cup {[id |-> u.id, name |-> u.name]}])
        /\ Goto(s, "ingest_commit")
        /\ UNCHANGED << db, nextId, clock, files, job, answer, bounds >>

\* validate_hire: one error for each of the references that is not there.
IngestCheck(s) ==
    LET a == job[s].upload.attributes
        unknown == {t \in {"departments", "jobs"} :
                        ~ HasKey(db, t, IF t = "jobs" THEN a.job_id ELSE a.department_id)}
    IN  /\ pc[s] = "ingest_check"
        /\ Acquire(s)
        /\ job' = [job EXCEPT ![s].errors = Cardinality(unknown),
                              ![s].rejected = IF unknown = {} THEN 0 ELSE 1]
        /\ Goto(s, IF unknown = {} THEN "ingest_persist" ELSE "ingest_reject")
        /\ UNCHANGED << db, nextId, clock, files, work, answer, bounds >>

\* One INSERT INTO rejected_records per error.
IngestReject(s) ==
    LET r == nextId["rejected_records"]
    IN  /\ pc[s] = "ingest_reject"
        /\ nextId' = [nextId EXCEPT !["rejected_records"] = @ + 1]
        /\ IF HasKey(Seen(s), "rejected_records", r)
             THEN WaitsFor(s) = {} /\ Fail(s)
             ELSE /\ Acquire(s)
                  /\ Write(s, With(Seen(s), "rejected_records",
                                   [id |-> r, load_id |-> job[s].load_id]))
                  /\ job' = [job EXCEPT ![s].errors = @ - 1]
                  /\ Goto(s, IF job[s].errors = 1 THEN "ingest_commit" ELSE "ingest_reject")
                  /\ UNCHANGED << db, clock, files, answer, bounds >>

NewVersion(u, v) ==
    [id |-> v, employee_id |-> u.id, attributes |-> u.attributes, is_current |-> TRUE]

\* decide_scd_action asserts that an existing employee has a current version.
HasCurrentVersion(d, e) == CurrentOf(d, e) # {}

\* The tables after _persist_hire has stored the upload u, given the version
\* id and the time it would use.
Persisted(d, u, v, now) ==
    IF ~ HasKey(d, "employees", u.id)
      THEN [d EXCEPT !["employees"] = @ \cup {[id |-> u.id, hired_as |-> u.attributes,
                                               current |-> u.attributes,
                                               first_loaded_at |-> now]},
                     !["employee_versions"] = @ \cup {NewVersion(u, v)}]
      ELSE [d EXCEPT !["employees"] = {IF e.id = u.id THEN [e EXCEPT !.current = u.attributes]
                                                     ELSE e : e \in @},
                     !["employee_versions"] =
                        {IF c \in CurrentOf(d, u.id) THEN [c EXCEPT !.is_current = FALSE]
                                                    ELSE c : c \in @} \cup {NewVersion(u, v)}]

\* The row is stored, or it is the current state already, or the assertion or
\* the INSERT of the version fails.
IngestPersist(s) ==
    LET u == job[s].upload
        v == nextId["employee_versions"]
        exists == HasKey(db, "employees", u.id)
        asserted == exists => HasCurrentVersion(db, u.id)
        same == exists /\ \E c \in CurrentOf(db, u.id) : c.attributes = u.attributes
    IN  /\ pc[s] = "ingest_persist"
        /\ nextId' = IF asserted /\ ~ same
                       THEN [nextId EXCEPT !["employee_versions"] = @ + 1] ELSE nextId
        /\ IF ~ asserted \/ (~ same /\ HasKey(db, "employee_versions", v))
             THEN WaitsFor(s) = {} /\ Fail(s)
             ELSE /\ Acquire(s)
                  /\ IF same THEN UNCHANGED << work, clock >>
                             ELSE /\ Write(s, Persisted(Seen(s), u, v, clock))
                                  /\ clock' = clock + 1
                  /\ Goto(s, "ingest_commit")
                  /\ UNCHANGED << db, files, job, answer, bounds >>

\* mark_finished and the commit.
IngestCommit(s) ==
    LET finished == [id |-> job[s].load_id, accepted |-> 1 - job[s].rejected,
                     rejected |-> job[s].rejected]
        others == {l \in db["loads"] : l.id # job[s].load_id}
    IN  /\ pc[s] = "ingest_commit"
        /\ db' = [Seen(s) EXCEPT !["loads"] = others \cup {finished}]
        /\ job' = [job EXCEPT ![s].committed = TRUE]
        /\ EndTransaction(s)
        /\ Goto(s, "refresh_hires")
        /\ UNCHANGED << nextId, clock, files, answer, bounds >>

\* The two views are refreshed in a transaction of their own, which ends with
\* the answer 200 even when a statement of it fails (RefreshFails).
RefreshHires(s) ==
    /\ pc[s] = "refresh_hires"
    /\ Acquire(s)
    /\ Goto(s, "refresh_average")
    /\ UNCHANGED << db, nextId, clock, files, work, job, answer, bounds >>

RefreshAverage(s) ==
    /\ pc[s] = "refresh_average"
    /\ WaitsFor(s) = {}
    /\ Answer(s, "200", TRUE)
    /\ UNCHANGED << db, nextId, clock, files, bounds >>

Refreshing(s) == pc[s] \in {"refresh_hires", "refresh_average"}

RefreshFails(s) ==
    /\ Refreshing(s)
    /\ Answer(s, "200", TRUE)
    /\ UNCHANGED << db, nextId, clock, files, bounds >>

-----------------------------------------------------------------------------
\* A statement, a commit or a file operation fails, or the process is gone: a
\* file that was opened stays as it is.
Abort(s) ==
    /\ pc[s] # "idle" /\ ~ Refreshing(s)
    /\ Fail(s)
    /\ UNCHANGED nextId

\* Sessions that wait for one another in a circle.
InWaitCycle(s) ==
    /\ WaitsFor(s) # {}
    /\ \E D \in SUBSET Sessions :
        /\ s \in D
        /\ \A o \in D : WaitsFor(o) \cap D # {} /\ \E q \in D : o \in WaitsFor(q)

\* PostgreSQL's deadlock detector fails the statement of one of them.
DeadlockVictim(s) ==
    /\ InWaitCycle(s)
    /\ IF Refreshing(s) THEN RefreshFails(s) ELSE Fail(s) /\ UNCHANGED nextId

Empty == [t \in Tables |-> {}]
Backed == [t \in Tables |-> ToAvro(t, Populated[t])]

\* The run begins on a database that has been backed up, on a new one beside
\* the files of an old one, or before the first backup.
Init ==
    /\ \E start \in {<< Populated, Backed >>, << Empty, Backed >>,
                     << Populated, [t \in Tables |-> NoFile] >>} :
         db = start[1] /\ files = start[2]
    /\ nextId = [t \in IdentityTables |-> Cardinality(db[t]) + 1]
    /\ clock = 1
    /\ work = [s \in Sessions |-> NoWrites]
    /\ locks = [s \in Sessions |-> NoLocks]
    /\ pc = [s \in Sessions |-> "idle"]
    /\ job = [s \in Sessions |-> NoJob]
    /\ answer = [s \in Sessions |-> "none"]
    /\ requests = 0 /\ ingests = 0

Post(s) ==
    \/ s \in Admins /\ (PostBackup(s) \/ PostRestore(s) \/ PostReset(s))
    \/ PostUpload(s)

\* The next statement or file operation of the handler's own code.
Statement(s) ==
    \/ BackupSelect(s) \/ BackupOpen(s) \/ BackupClose(s)
    \/ RestoreRead(s) \/ RestoreTruncate(s) \/ RestoreInsert(s) \/ RestoreCommit(s)
    \/ ResetTruncate(s) \/ ResetRefresh(s) \/ ResetCommit(s)
    \/ IngestCreate(s) \/ IngestUpsert(s) \/ IngestCheck(s) \/ IngestReject(s)
    \/ IngestPersist(s) \/ IngestCommit(s) \/ RefreshHires(s) \/ RefreshAverage(s)

\* Every request of the bound has been answered.
Quiet ==
    /\ requests = MaxRequests /\ ingests = MaxIngests
    /\ \A s \in Sessions : pc[s] = "idle"
    /\ UNCHANGED vars

Next ==
    \/ \E s \in Sessions :
         Post(s) \/ Statement(s) \/ RefreshFails(s) \/ Abort(s) \/ DeadlockVictim(s)
    \/ Quiet

Spec == Init /\ [][Next]_vars

\* A handler that can run its next statement, or whose statement is in a circle
\* of waits that the deadlock detector breaks, does not stand still for ever.
FairSpec == Spec /\ \A s \in Sessions : WF_vars(Statement(s) \/ DeadlockVictim(s))

-----------------------------------------------------------------------------
(***************************************************************************)
(* Properties.                                                             *)
(***************************************************************************)
\* Every table, uncommitted table and complete file holds rows of its own
\* columns under distinct keys (models.py, avro/schemas.py), and the handlers
\* are where their code has statements.
TypeOK ==
    /\ \A t \in Tables : Keyed(t, db[t])
    /\ \A t \in Tables : files[t] \notin {NoFile, Torn} => Keyed(t, files[t])
    /\ \A s \in Sessions, t \in Tables : t \in DOMAIN work[s] => Keyed(t, work[s][t])
    /\ DOMAIN nextId = IdentityTables /\ \A t \in IdentityTables : nextId[t] \in Nat \ {0}
    /\ \A s \in Sessions : job[s].table \in Tables /\ job[s].step \in 1 .. Len(TableNames) + 1
    /\ answer \in [Sessions -> {"none", "200", "404", "500"}]

\* The tables after restoring the first n of them in the order of reference.
RestoredInOrder ==
    LET after[n \in 0 .. Len(TableNames)] ==
          IF n = 0 THEN db
                   ELSE Loaded(Emptied(after[n - 1], TableNames[n]), TableNames[n],
                               files[TableNames[n]], clock)
    IN  after

\* The six files are there and refer to nothing that is missing from them.
FilesAgree ==
    /\ \A t \in Tables : files[t] \notin {NoFile, Torn}
    /\ \A t \in Tables : ReferencesFound(files, t)

\* Every column but first_loaded_at (RestoredTableIsIdentical is about that one).
Restorable(t, rows) ==
    IF t = "employees" THEN {[e EXCEPT !.first_loaded_at = 0] : e \in rows} ELSE rows

\* Whatever the tables hold, restoring six files that agree in the documented
\* order (docs/BACKUP_RESTORE.md, "Restore") violates no foreign key and ends
\* with the rows of the files in every table, in every column but
\* first_loaded_at: no restore empties what an earlier one has brought back,
\* and nothing of the old rows is left.
RestoreInOrderRecovers ==
    FilesAgree =>
        LET after == RestoredInOrder
        IN  /\ \A n \in 1 .. Len(TableNames) : ReferencesFound(after[n], TableNames[n])
            /\ \A t \in Tables :
                 Restorable(t, after[Len(TableNames)][t]) = Restorable(t, files[t])

\* An answered request tells the operator what happened: after a 404 or a 500
\* nothing of the request is committed, after a 200 of a restore, a reset or
\* an ingestion all of it is.
AnswerTellsOutcome ==
    \A s \in Sessions :
        /\ answer[s] \in {"404", "500"} => ~ job[s].committed
        /\ answer[s] = "200" /\ job[s].op # "backup" => job[s].committed

\* The next INSERT into t may draw the id of a row that is there.
Behind(t) == \E row \in db[t] : row.id >= nextId[t]

\* Sequences keep ahead of their rows across restores that bring back any ids
\* (docs/BACKUP_RESTORE.md, "so the next normal insert doesn't collide with a
\* restored id"): a sequence falls behind at no other step than the setval of a
\* restore that has not committed yet, which its rollback would not undo, and
\* every restore that commits leaves the sequence ahead.
SequencesKeepAhead ==
    [][\A t \in IdentityTables :
          /\ Behind(t)' => \/ Behind(t)
                           \/ \E s \in Sessions : RestoreInsert(s) /\ job[s].table = t
          /\ \A s \in Sessions : RestoreCommit(s) /\ job[s].table = t => ~ Behind(t)']_vars

\* Every request is answered: its handler comes to rest again and again,
\* although a reset takes the tables in an order of its own and an ingestion
\* starts with loads. The deadlock detector breaks every circle of waits, also
\* those through the locks of the report views.
EveryRequestAnswered == \A s \in Sessions : []<>(pc[s] = "idle")

\* domain/employee.py asserts of the employee of a row "existing employee must
\* have a current version".
ExistingEmployeeHasVersion ==
    \A e \in db["employees"] :
        pc[Ingester] = "ingest_persist" /\ job[Ingester].upload.id = e.id
            => HasCurrentVersion(db, e.id)

\* docs/BACKUP_RESTORE.md says of a restore by full replace "The restored table
\* is identical to the backup": a commit leaves the rows that were read, with
\* all their columns, first_loaded_at among them.
RestoredTableIsIdentical ==
    [][\A s \in Sessions :
          RestoreCommit(s) => db'[job[s].table] = job[s].rows]_vars

\* docs/BACKUP_RESTORE.md says of the files "a backup is trusted, already-clean
\* data": a complete set of files would refer to nothing that is missing.
BackupSetIsClean == (\A t \in Tables : files[t] \notin {NoFile, Torn}) => FilesAgree
=============================================================================
