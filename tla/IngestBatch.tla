----------------------------- MODULE IngestBatch -----------------------------
(***************************************************************************)
(* IngestBatch.ingest_departments / ingest_jobs / ingest_hires             *)
(* (src/app/application/ingest_batch.py), run by concurrent request        *)
(* handlers.  Every session is one request handler with its own SQLAlchemy *)
(* session on PostgreSQL at READ COMMITTED: it reads committed rows        *)
(* overlaid with its own uncommitted writes, a write waits for another     *)
(* session's uncommitted write of the same row or index entry, and a       *)
(* commit publishes the session's writes at once.  One action is one SQL   *)
(* statement together with the Python code up to the next statement.       *)
(*                                                                         *)
(* The materialized views that the handler refreshes after its commit are  *)
(* not part of the state here: the refresh only decides what the handler   *)
(* answers.                                                                *)
(***************************************************************************)
EXTENDS Naturals, Sequences, Validation

CONSTANTS
    Sessions,          \* request handlers that may run at the same time
    EmployeeIds,       \* values of employees.employee_id that rows mention
    DimensionIds,      \* values of departments.id and jobs.id that rows mention
    OutOfRange,        \* ids that a PostgreSQL INTEGER column cannot hold
    Names,             \* names of employees, departments and jobs
    DepartmentBatches, \* batches a client may post to each of the endpoints
    JobBatches,
    HireBatches,
    InitialDimensions, \* departments and jobs loaded before
    StartTime,         \* the wall clock when the run begins
    NoRow,             \* the absence of a row
    MaxLoads,          \* bound: batches posted
    MaxVersions        \* bound: values drawn from the version_id sequence

DimensionTables == {"departments", "jobs"}
Hires == "hired_employees"
Targets == DimensionTables \cup {Hires}

LoadIds == 1 .. MaxLoads
VersionIds == 1 .. MaxVersions

DimensionRow == [id : DimensionIds \cup {Absent}, name : Names \cup {Absent}]
HireRow == [id : EmployeeIds \cup {Absent},
            name : Names \cup {Absent},
            datetime : Nat \cup {Absent, Malformed},
            department_id : DimensionIds \cup {Absent},
            job_id : DimensionIds \cup {Absent}]

\* The attributes SCD2 tracks, a row of employees and a row of employee_versions.
Attributes == [name : Names, department_id : DimensionIds, job_id : DimensionIds]
Employee == [hire_datetime : Nat, hired_as : Attributes, current : Attributes]
Version == [employee_id : EmployeeIds, attributes : Attributes,
            valid_from : Nat, valid_to : Nat \cup {NoRow}, is_current : BOOLEAN]

RejectedRecord == [raw_payload : DimensionRow \cup HireRow,
                   reason_code : ReasonCode, field : Field]
Load == [source : Targets, accepted : Nat, rejected : Nat]

ASSUME BatchesAssumption ==
    /\ DepartmentBatches \cup JobBatches \subseteq Seq(DimensionRow)
    /\ HireBatches \subseteq Seq(HireRow)

ASSUME DimensionsAssumption ==
    /\ InitialDimensions \in [DimensionTables -> [DimensionIds -> Names \cup {NoRow}]]
    /\ \A t \in DimensionTables, d \in DimensionIds \cap OutOfRange :
          InitialDimensions[t][d] = NoRow

ASSUME BoundsAssumption == MaxLoads \in Nat /\ MaxVersions \in Nat /\ StartTime \in Nat

ASSUME NoRowAssumption ==
    NoRow \notin Names \cup Employee \cup Version \cup Load \cup VersionIds \cup LoadIds \cup Nat

ASSUME SentinelAssumption ==
    /\ Absent \notin Names \cup EmployeeIds \cup DimensionIds \cup OutOfRange \cup Nat
    /\ Malformed \notin Nat \cup {Absent}

VARIABLES
    \* committed rows
    dimensions,  \* departments and jobs: the name of each id
    employees,
    versions,    \* employee_versions
    loads,
    rejected,    \* rejected_records, per load in the order of insertion
    \* what no transaction undoes
    loadSeq,     \* the last value drawn for loads.id
    versionSeq,  \* the last value drawn for employee_versions.version_id
    clock,       \* the next value of datetime.now(UTC)
    \* uncommitted writes of each session
    wDimensions, wEmployees, wVersions,
    \* the handler of each session
    pc,
    req,         \* the locals of _run_batch
    local,       \* what the statements of the current row have read
    answer       \* the HTTP status of the last request

tables == << dimensions, employees, versions, loads, rejected >>
writes == << wDimensions, wEmployees, wVersions >>
sequences == << loadSeq, versionSeq, clock >>
vars == << tables, sequences, writes, pc, req, local, answer >>

NoReads == [department_known |-> FALSE, found |-> NoRow, target |-> NoRow, valid_from |-> 0]
NoRequest == [target_table |-> Hires, rows |-> << >>, load_id |-> NoRow, row_index |-> 1,
              accepted |-> 0, rejected |-> 0, rejects |-> << >>]

NoDimensions == [t \in DimensionTables |-> [d \in DimensionIds |-> NoRow]]
NoEmployees == [e \in EmployeeIds |-> NoRow]
NoVersions == [v \in VersionIds |-> NoRow]

-----------------------------------------------------------------------------
(***************************************************************************)
(* PostgreSQL as the code uses it.                                         *)
(***************************************************************************)

\* A table as a transaction with the uncommitted writes w sees it.
Over(table, w) == [k \in DOMAIN table |-> IF w[k] = NoRow THEN table[k] ELSE w[k]]

DimensionsSeen(s, t) == Over(dimensions[t], wDimensions[s][t])
EmployeesSeen(s) == Over(employees, wEmployees[s])
VersionsSeen(s) == Over(versions, wVersions[s])

\* The rows of employee e that the partial unique index of a version table holds.
CurrentIn(table, e) ==
    {v \in VersionIds : /\ table[v] # NoRow
                        /\ table[v].employee_id = e
                        /\ table[v].is_current}

\* The sessions whose uncommitted writes the next write of s must wait for.
DimensionHolders(s, t, d) == {o \in Sessions \ {s} : wDimensions[o][t][d] # NoRow}
EmployeeHolders(s, e) == {o \in Sessions \ {s} : wEmployees[o][e] # NoRow}
VersionHolders(s, v) == {o \in Sessions \ {s} : wVersions[o][v] # NoRow}
IndexHolders(s, e) ==
    {o \in Sessions \ {s} :
        \E v \in VersionIds :
            /\ wVersions[o][v] # NoRow
            /\ v \in CurrentIn(wVersions[o], e) \cup CurrentIn(versions, e)}

-----------------------------------------------------------------------------
(***************************************************************************)
(* The row loop.                                                           *)
(***************************************************************************)

Row(s) == req[s].rows[req[s].row_index]
MoreRows(s) == req[s].row_index <= Len(req[s].rows)
RowAttributes(row) ==
    [name |-> row.name, department_id |-> row.department_id, job_id |-> row.job_id]

Goto(s, label) == pc' = [pc EXCEPT ![s] = label]

\* A valid row has been persisted: accepted += 1 and on to the next row.
Accept(s) ==
    /\ req' = [req EXCEPT ![s].row_index = @ + 1, ![s].accepted = @ + 1]
    /\ local' = [local EXCEPT ![s] = NoReads]
    /\ Goto(s, "row")

RejectedRecords(row, errors) ==
    [i \in 1 .. Len(errors) |->
        [raw_payload |-> row, reason_code |-> errors[i].reason_code, field |-> errors[i].field]]

\* A mutant of Reject: the row counts as often as it has errors.
RejectPerError(s, errors) ==
    /\ req' = [req EXCEPT ![s].row_index = @ + 1,
                          ![s].rejected = @ + Len(errors),
                          ![s].rejects = @ \o RejectedRecords(Row(s), errors)]
    /\ local' = [local EXCEPT ![s] = NoReads]
    /\ Goto(s, "row")

\* One rejected_records row per error, but the row counts once.
Reject(s, errors) ==
    /\ req' = [req EXCEPT ![s].row_index = @ + 1,
                          ![s].rejected = @ + 1,
                          ![s].rejects = @ \o RejectedRecords(Row(s), errors)]
    /\ local' = [local EXCEPT ![s] = NoReads]
    /\ Goto(s, "row")

DropWrites(s) ==
    /\ wDimensions' = [wDimensions EXCEPT ![s] = NoDimensions]
    /\ wEmployees' = [wEmployees EXCEPT ![s] = NoEmployees]
    /\ wVersions' = [wVersions EXCEPT ![s] = NoVersions]

\* A mutant of Rollback: the session is never closed and keeps its locks.
LeakSession(s) == UNCHANGED writes

\* get_db closes the session without a commit, which rolls the transaction back.
Rollback(s) == DropWrites(s)

\* An exception leaves the handler: the session is closed, the client is told 500.
Fail(s) ==
    /\ Rollback(s)
    /\ Goto(s, "idle")
    /\ local' = [local EXCEPT ![s] = NoReads]
    /\ answer' = [answer EXCEPT ![s] = "500"]
    /\ UNCHANGED << tables, loadSeq, clock, req >>

Batches(t) == CASE t = "departments" -> DepartmentBatches
                [] t = "jobs" -> JobBatches
                [] t = Hires -> HireBatches

\* A request arrives and _run_batch inserts its loads row.
Receive(s) ==
    /\ pc[s] = "idle"
    /\ loadSeq < MaxLoads
    /\ loadSeq' = loadSeq + 1
    /\ \E t \in Targets : \E rows \in Batches(t) :
         req' = [req EXCEPT ![s] = [NoRequest EXCEPT !.target_table = t,
                                                     !.rows = rows,
                                                     !.load_id = loadSeq + 1]]
    /\ Goto(s, "row")
    /\ answer' = [answer EXCEPT ![s] = "none"]
    /\ UNCHANGED << tables, versionSeq, clock, writes, local >>

\* The name column of departments is called department, that of jobs job.
NameKey(t) == IF t = "departments" THEN "department" ELSE "job"

\* The id by which the next statement selects a row: validation looks for the
\* department and then the job of every hire that has them, whatever its other
\* defects, while departments, jobs and employees are selected once they are valid.
LookUp(s) ==
    CASE pc[s] = "row" /\ MoreRows(s) ->
           IF req[s].target_table = Hires THEN Row(s).department_id
           ELSE IF DimensionErrors(Row(s), NameKey(req[s].target_table)) = << >>
                  THEN Row(s).id ELSE Absent
      [] pc[s] = "check_job" -> Row(s).job_id
      [] pc[s] = "exists" -> Row(s).id
      [] OTHER -> Absent

\* The driver binds an id as ::INTEGER, so that one out of range fails in the
\* SELECT: the handler never gets to reject or to insert the row.
ColumnHolds(id) == id \notin OutOfRange

OutOfRangeLookUp(s) ==
    /\ pc[s] \in {"row", "check_job", "exists"}
    /\ ~ ColumnHolds(LookUp(s))
    /\ Fail(s)
    /\ UNCHANGED versionSeq

-----------------------------------------------------------------------------
(***************************************************************************)
(* Rows of departments and jobs: validate_department / validate_job, then  *)
(* upsert, which reads the row by its key and inserts or updates it.       *)
(***************************************************************************)

AtDimensionRow(s) ==
    /\ pc[s] = "row" /\ MoreRows(s)
    /\ req[s].target_table \in DimensionTables

RejectDimension(s) ==
    /\ AtDimensionRow(s)
    /\ LET errors == DimensionErrors(Row(s), NameKey(req[s].target_table))
       IN  errors # << >> /\ Reject(s, errors)
    /\ UNCHANGED << tables, sequences, writes, answer >>

SelectDimension(s) ==
    /\ AtDimensionRow(s) /\ ColumnHolds(LookUp(s))
    /\ DimensionErrors(Row(s), NameKey(req[s].target_table)) = << >>
    /\ local' = [local EXCEPT ![s].found = DimensionsSeen(s, req[s].target_table)[Row(s).id]]
    /\ Goto(s, "upsert")
    /\ UNCHANGED << tables, sequences, writes, req, answer >>

WriteDimension(s, t, d, name) ==
    wDimensions' = [wDimensions EXCEPT ![s][t][d] = name]

\* No row was read: INSERT, which waits for another session's uncommitted
\* insert of the key and fails on a committed one.
InsertDimension(s) ==
    LET t == req[s].target_table
        d == Row(s).id
    IN  /\ pc[s] = "upsert" /\ local[s].found = NoRow
        /\ DimensionHolders(s, t, d) = {}
        /\ IF dimensions[t][d] # NoRow
             THEN Fail(s)
             ELSE /\ WriteDimension(s, t, d, Row(s).name)
                  /\ Accept(s)
                  /\ UNCHANGED << tables, loadSeq, clock, wEmployees, wVersions, answer >>
        /\ UNCHANGED versionSeq

\* A row was read: assigning the name it already had emits no statement.
UpdateDimension(s) ==
    LET t == req[s].target_table
        d == Row(s).id
    IN  /\ pc[s] = "upsert" /\ local[s].found # NoRow
        /\ IF local[s].found = Row(s).name
             THEN UNCHANGED wDimensions
             ELSE /\ DimensionHolders(s, t, d) = {}
                  /\ WriteDimension(s, t, d, Row(s).name)
        /\ Accept(s)
        /\ UNCHANGED << tables, sequences, wEmployees, wVersions, answer >>

-----------------------------------------------------------------------------
(***************************************************************************)
(* Rows of hired_employees: validate_hire, then _persist_hire.             *)
(***************************************************************************)

\* A mutant of Known: any integer passes for the id of a row.
KnownWhenPresent(s, t, id) == id # Absent

Known(s, t, id) == id # Absent /\ DimensionsSeen(s, t)[id] # NoRow

CheckDepartment(s) ==
    /\ pc[s] = "row" /\ MoreRows(s)
    /\ req[s].target_table = Hires
    /\ ColumnHolds(LookUp(s))
    /\ local' = [local EXCEPT ![s].department_known =
                    Known(s, "departments", Row(s).department_id)]
    /\ Goto(s, "check_job")
    /\ UNCHANGED << tables, sequences, writes, req, answer >>

\* The last check of validate_hire: the row is rejected with every error found.
CheckJob(s) ==
    LET errors == HireErrors(Row(s), local[s].department_known,
                             Known(s, "jobs", Row(s).job_id))
    IN  /\ pc[s] = "check_job" /\ ColumnHolds(LookUp(s))
        /\ IF errors # << >>
             THEN Reject(s, errors)
             ELSE Goto(s, "exists") /\ UNCHANGED << req, local >>
        /\ UNCHANGED << tables, sequences, writes, answer >>

Exists(s) ==
    /\ pc[s] = "exists" /\ ColumnHolds(LookUp(s))
    /\ Goto(s, IF EmployeesSeen(s)[Row(s).id] = NoRow THEN "add_employee" ELSE "get_current")
    /\ UNCHANGED << tables, sequences, writes, req, local, answer >>

NewEmployee(row) ==
    [hire_datetime |-> row.datetime,
     hired_as |-> RowAttributes(row),
     current |-> RowAttributes(row)]

\* NEW_EMPLOYEE: INSERT INTO employees waits for another session's uncommitted
\* row of the same key and fails on a committed one.
AddEmployee(s) ==
    LET e == Row(s).id
    IN  /\ pc[s] = "add_employee"
        /\ EmployeeHolders(s, e) = {}
        /\ IF employees[e] # NoRow
             THEN Fail(s)
             ELSE /\ wEmployees' = [wEmployees EXCEPT ![s][e] = NewEmployee(Row(s))]
                  /\ local' = [local EXCEPT ![s].valid_from = Row(s).datetime]
                  /\ Goto(s, "add_first_version")
                  /\ UNCHANGED << tables, loadSeq, clock, wDimensions, wVersions, req, answer >>
        /\ UNCHANGED versionSeq

\* A mutant of SameAttributes: only the name is compared.
SameName(version, row) == version.attributes.name = row.name

SameAttributes(version, row) == version.attributes = RowAttributes(row)

\* get_current, then decide_scd_action: the assertion fails without a current
\* version, an identical row is a NO_OP, and a different one a NEW_VERSION,
\* for which `now` is read before close_current runs its own SELECT.
GetCurrent(s) ==
    LET current == CurrentIn(VersionsSeen(s), Row(s).id)
    IN  /\ pc[s] = "get_current"
        /\ IF current = {}
             THEN Fail(s)
             ELSE \E v \in current :
                    /\ IF SameAttributes(VersionsSeen(s)[v], Row(s))
                         THEN Accept(s) /\ UNCHANGED clock
                         ELSE /\ local' = [local EXCEPT ![s].valid_from = clock]
                              /\ clock' = clock + 1
                              /\ Goto(s, "close_select")
                              /\ UNCHANGED req
                    /\ UNCHANGED << tables, loadSeq, writes, answer >>
        /\ UNCHANGED versionSeq

\* close_current selects the current version again.
CloseSelect(s) ==
    LET current == CurrentIn(VersionsSeen(s), Row(s).id)
    IN  /\ pc[s] = "close_select"
        /\ IF current = {}
             THEN Goto(s, "add_version") /\ UNCHANGED local
             ELSE \E v \in current : /\ local' = [local EXCEPT ![s].target = v]
                                     /\ Goto(s, "close_update")
        /\ UNCHANGED << tables, sequences, writes, req, answer >>

\* Mutants of Closed: the end is a second reading of the clock, and the wrong
\* column is set.
ClosedLater(version, now) == [version EXCEPT !.is_current = FALSE, !.valid_to = now + 1]
ClosedInWrongColumn(version, now) == [version EXCEPT !.is_current = FALSE, !.valid_from = now]

Closed(version, now) == [version EXCEPT !.is_current = FALSE, !.valid_to = now]

\* The UPDATE names the row by version_id, so it also hits a row that another
\* session has closed since the SELECT.
CloseUpdate(s) ==
    LET v == local[s].target
    IN  /\ pc[s] = "close_update"
        /\ VersionHolders(s, v) = {}
        /\ wVersions' = [wVersions EXCEPT ![s][v] =
                           Closed(VersionsSeen(s)[v], local[s].valid_from)]
        /\ Goto(s, "add_version")
        /\ UNCHANGED << tables, sequences, wDimensions, wEmployees, req, local, answer >>

\* A mutant of NewVersion: the version is not marked current.
NewClosedVersion(row, now) ==
    [employee_id |-> row.id, attributes |-> RowAttributes(row),
     valid_from |-> now, valid_to |-> NoRow, is_current |-> FALSE]

NewVersion(row, now) ==
    [employee_id |-> row.id, attributes |-> RowAttributes(row),
     valid_from |-> now, valid_to |-> NoRow, is_current |-> TRUE]

\* INSERT INTO employee_versions draws a version_id, waits for the sessions
\* that hold the employee's entry of the partial unique index, and fails when
\* the entry is taken.
InsertVersion(s) ==
    LET e == Row(s).id
        v == versionSeq + 1
    IN  /\ v \in VersionIds
        /\ IndexHolders(s, e) = {}
        /\ versionSeq' = v
        /\ IF CurrentIn(VersionsSeen(s), e) # {}
             THEN Fail(s)
             ELSE /\ wVersions' = [wVersions EXCEPT ![s][v] =
                                     NewVersion(Row(s), local[s].valid_from)]
                  /\ IF pc[s] = "add_first_version"
                       THEN Accept(s)
                       ELSE Goto(s, "update_current") /\ UNCHANGED << req, local >>
                  /\ UNCHANGED << tables, loadSeq, clock, wDimensions, wEmployees, answer >>

AddFirstVersion(s) == pc[s] = "add_first_version" /\ InsertVersion(s)
AddVersion(s) == pc[s] = "add_version" /\ InsertVersion(s)

\* Mutants of Transferred: the current columns stay, and the hire facts follow.
TransferForgotten(employee, attributes) == employee
TransferredSinceHire(employee, attributes) ==
    [employee EXCEPT !.current = attributes, !.hired_as = attributes]

Transferred(employee, attributes) == [employee EXCEPT !.current = attributes]

\* update_current reads the employee and writes the columns that differ.
UpdateCurrent(s) ==
    LET e == Row(s).id
        row == EmployeesSeen(s)[e]
    IN  /\ pc[s] = "update_current"
        /\ IF row = NoRow
             THEN Fail(s)
             ELSE /\ IF row.current = RowAttributes(Row(s))
                       THEN UNCHANGED wEmployees
                       ELSE /\ EmployeeHolders(s, e) = {}
                            /\ wEmployees' = [wEmployees EXCEPT ![s][e] =
                                                Transferred(row, RowAttributes(Row(s)))]
                  /\ Accept(s)
                  /\ UNCHANGED << tables, loadSeq, clock, wDimensions, wVersions, answer >>
        /\ UNCHANGED versionSeq

-----------------------------------------------------------------------------
(***************************************************************************)
(* The end of the batch.                                                   *)
(***************************************************************************)

\* mark_finished and the commit: the session's writes become visible at once.
Commit(s) ==
    /\ pc[s] = "row" /\ ~ MoreRows(s)
    /\ dimensions' = [t \in DimensionTables |-> DimensionsSeen(s, t)]
    /\ employees' = EmployeesSeen(s)
    /\ versions' = VersionsSeen(s)
    /\ loads' = [loads EXCEPT ![req[s].load_id] =
                    [source |-> req[s].target_table,
                     accepted |-> req[s].accepted,
                     rejected |-> req[s].rejected]]
    /\ rejected' = [rejected EXCEPT ![req[s].load_id] = req[s].rejects]
    /\ DropWrites(s)
    /\ Goto(s, "refresh")
    /\ UNCHANGED << sequences, req, local, answer >>

\* A mutant of StatusAfterRefresh: the failure of the refresh reaches the client.
StatusOfRefresh(refreshed) == IF refreshed THEN "200" ELSE "500"

StatusAfterRefresh(refreshed) == "200"

\* The views are refreshed in a transaction of their own; a failure is logged
\* and the answer is 200 all the same.
Refresh(s) ==
    /\ pc[s] = "refresh"
    /\ \E refreshed \in BOOLEAN :
         answer' = [answer EXCEPT ![s] = StatusAfterRefresh(refreshed)]
    /\ Goto(s, "idle")
    /\ UNCHANGED << tables, sequences, writes, req, local >>

\* Any statement of the transaction may fail: the connection is lost, the
\* server restarts, the commit is refused.
Abort(s) ==
    /\ pc[s] \notin {"idle", "refresh"}
    /\ Fail(s)
    /\ UNCHANGED versionSeq

\* The sessions that the statement session s is about to run must wait for.
WaitsFor(s) ==
    LET t == req[s].target_table
        row == Row(s)
    IN  CASE pc[s] = "upsert" ->
               IF local[s].found = row.name THEN {} ELSE DimensionHolders(s, t, row.id)
          [] pc[s] = "add_employee" -> EmployeeHolders(s, row.id)
          [] pc[s] = "close_update" -> VersionHolders(s, local[s].target)
          [] pc[s] \in {"add_first_version", "add_version"} -> IndexHolders(s, row.id)
          [] pc[s] = "update_current" -> EmployeeHolders(s, row.id)
          [] OTHER -> {}

\* Sessions that wait for one another in a circle.
InWaitCycle(s) ==
    \E D \in SUBSET Sessions :
        /\ s \in D
        /\ \A o \in D : WaitsFor(o) \cap D # {} /\ \E q \in D : o \in WaitsFor(q)

\* PostgreSQL's deadlock detector fails the statement of one of them.
DeadlockVictim(s) ==
    /\ InWaitCycle(s)
    /\ Fail(s)
    /\ UNCHANGED versionSeq

-----------------------------------------------------------------------------
Init ==
    /\ dimensions = InitialDimensions
    /\ employees = NoEmployees
    /\ versions = NoVersions
    /\ loads = [l \in LoadIds |-> NoRow]
    /\ rejected = [l \in LoadIds |-> << >>]
    /\ loadSeq = 0 /\ versionSeq = 0 /\ clock = StartTime
    /\ wDimensions = [s \in Sessions |-> NoDimensions]
    /\ wEmployees = [s \in Sessions |-> NoEmployees]
    /\ wVersions = [s \in Sessions |-> NoVersions]
    /\ pc = [s \in Sessions |-> "idle"]
    /\ req = [s \in Sessions |-> NoRequest]
    /\ local = [s \in Sessions |-> NoReads]
    /\ answer = [s \in Sessions |-> "none"]

\* The next statement of the handler's own code.
Statement(s) ==
    \/ RejectDimension(s) \/ SelectDimension(s) \/ InsertDimension(s) \/ UpdateDimension(s)
    \/ CheckDepartment(s) \/ CheckJob(s) \/ Exists(s) \/ OutOfRangeLookUp(s)
    \/ AddEmployee(s) \/ AddFirstVersion(s)
    \/ GetCurrent(s) \/ CloseSelect(s) \/ CloseUpdate(s) \/ AddVersion(s) \/ UpdateCurrent(s)
    \/ Commit(s) \/ Refresh(s)

\* Every batch of the bound has been answered.
Quiet ==
    /\ loadSeq = MaxLoads
    /\ \A s \in Sessions : pc[s] = "idle"
    /\ UNCHANGED vars

Next ==
    \/ \E s \in Sessions : Receive(s) \/ Statement(s) \/ Abort(s) \/ DeadlockVictim(s)
    \/ Quiet

Spec == Init /\ [][Next]_vars

\* A handler keeps running its statements, and the deadlock detector runs.
FairSpec ==
    /\ Spec
    /\ \A s \in Sessions : WF_vars(Statement(s)) /\ WF_vars(DeadlockVictim(s))

-----------------------------------------------------------------------------
(***************************************************************************)
(* Properties.                                                             *)
(***************************************************************************)
Labels == {"idle", "row", "upsert", "check_job", "exists", "add_employee",
           "add_first_version", "get_current", "close_select", "close_update",
           "add_version", "update_current", "refresh"}

Request == [target_table : Targets, rows : Seq(DimensionRow) \cup Seq(HireRow),
            load_id : LoadIds \cup {NoRow}, row_index : Nat \ {0},
            accepted : Nat, rejected : Nat, rejects : Seq(RejectedRecord)]
Reads == [department_known : BOOLEAN, found : Names \cup {NoRow},
          target : VersionIds \cup {NoRow}, valid_from : Nat]

\* Every variable has its type: what the tables, the sessions' uncommitted
\* writes and the locals of _run_batch may hold (models.py, ingest_batch.py).
TypeOK ==
    /\ dimensions \in [DimensionTables -> [DimensionIds -> Names \cup {NoRow}]]
    /\ employees \in [EmployeeIds -> Employee \cup {NoRow}]
    /\ versions \in [VersionIds -> Version \cup {NoRow}]
    /\ loads \in [LoadIds -> Load \cup {NoRow}]
    /\ rejected \in [LoadIds -> Seq(RejectedRecord)]
    /\ loadSeq \in 0 .. MaxLoads /\ versionSeq \in 0 .. MaxVersions /\ clock \in Nat
    /\ wDimensions \in [Sessions -> [DimensionTables -> [DimensionIds -> Names \cup {NoRow}]]]
    /\ wEmployees \in [Sessions -> [EmployeeIds -> Employee \cup {NoRow}]]
    /\ wVersions \in [Sessions -> [VersionIds -> Version \cup {NoRow}]]
    /\ pc \in [Sessions -> Labels]
    /\ req \in [Sessions -> Request]
    /\ local \in [Sessions -> Reads]
    /\ answer \in [Sessions -> {"none", "200", "500"}]

\* Employee e of an employees table agrees with a versions table: it has
\* exactly one current version, whose attributes are its current columns; an
\* unknown employee has no version at all.
InSync(empTable, verTable, e) ==
    IF empTable[e] = NoRow
      THEN \A v \in VersionIds : verTable[v] # NoRow => verTable[v].employee_id # e
      ELSE \E v \in VersionIds : /\ CurrentIn(verTable, e) = {v}
                                 /\ verTable[v].attributes = empTable[e].current

\* However handlers interleave, every committed employee has exactly one
\* current version and its name/department/job columns equal that version's
\* (domain/employee.py: "so they always equal the current version's
\* attributes, without a join").
CurrentStateInSync == \A e \in EmployeeIds : InSync(employees, versions, e)

\* The versions of an employee chain: a closed one ends where the next one,
\* in the order of version_id, begins, and only the last one is open.
VersionsChain ==
    \A v \in VersionIds : versions[v] # NoRow =>
        LET later == {w \in VersionIds : /\ versions[w] # NoRow
                                         /\ versions[w].employee_id = versions[v].employee_id
                                         /\ w > v}
        IN  IF later = {}
              THEN versions[v].is_current /\ versions[v].valid_to = NoRow
              ELSE /\ ~ versions[v].is_current
                   /\ \E w \in later : /\ \A u \in later : w <= u
                                       /\ versions[v].valid_to = versions[w].valid_from

\* An answered request tells the client what happened: after a 200 the load is
\* there and accounts for every row of the batch, each rejected row with a
\* reason; after a 500 nothing of the batch is there.
AnswerTellsOutcome ==
    \A s \in Sessions :
        LET l == req[s].load_id
        IN  /\ answer[s] = "200" =>
                 /\ loads[l] # NoRow
                 /\ loads[l].accepted + loads[l].rejected = Len(req[s].rows)
                 /\ loads[l].rejected <= Len(rejected[l])
                 /\ loads[l].rejected = 0 => rejected[l] = << >>
            /\ answer[s] = "500" => loads[l] = NoRow /\ rejected[l] = << >>

\* A hire is accepted only when its department and job are committed rows: the
\* check made before the insert still holds when the batch commits.
ReferencesKnown ==
    \A e \in EmployeeIds : employees[e] # NoRow =>
        \A a \in {employees[e].hired_as, employees[e].current} :
            /\ dimensions["departments"][a.department_id] # NoRow
            /\ dimensions["jobs"][a.job_id] # NoRow

\* Hire facts are immutable: no commit changes what an employee was hired as
\* or when, and no ingestion removes an employee (docs/DATA_MODEL.md,
\* "first load wins").
HireFactsKept ==
    \A e \in EmployeeIds : employees[e] # NoRow =>
        /\ employees'[e] # NoRow
        /\ employees'[e].hired_as = employees[e].hired_as
        /\ employees'[e].hire_datetime = employees[e].hire_datetime
HireFactsImmutable == [][HireFactsKept]_vars

\* History is append-only: a committed version keeps its employee, attributes
\* and beginning, and once closed it never changes again, although close_current
\* updates a row that another session may have closed in the meantime.
HistoryKept ==
    \A v \in VersionIds : versions[v] # NoRow =>
        /\ versions'[v] # NoRow
        /\ versions'[v].employee_id = versions[v].employee_id
        /\ versions'[v].attributes = versions[v].attributes
        /\ versions'[v].valid_from = versions[v].valid_from
        /\ ~ versions[v].is_current => versions'[v] = versions[v]
HistoryAppendOnly == [][HistoryKept]_vars

\* Every request is answered: handlers that wait for each other's rows are
\* told apart by the deadlock detector, the others get their turn.
EveryRequestAnswered == \A s \in Sessions : pc[s] # "idle" ~> pc[s] = "idle"

\* docs/DATA_MODEL.md says of a re-upload with the current attributes
\* "Identical: no-op (idempotent)": two consecutive versions of an employee
\* would then always differ.
IdenticalUploadIsNoOp ==
    \A v, w \in VersionIds :
        /\ versions[v] # NoRow /\ versions[w] # NoRow /\ v < w
        /\ versions[v].employee_id = versions[w].employee_id
        /\ versions[v].attributes = versions[w].attributes
        => \E u \in v + 1 .. w - 1 : /\ versions[u] # NoRow
                                     /\ versions[u].employee_id = versions[v].employee_id

\* docs/DECISIONS.md says of a batch "one bad row does not sink the batch": no
\* row makes a statement of a lone handler fail, so that a 500 comes from a
\* failure of the database or of the process only.  The SELECT that looks for an
\* id out of range (session.get, exists) is one that does.
BadRowDoesNotSinkBatch ==
    [][\A s \in Sessions : Statement(s) => answer'[s] # "500"]_vars
=============================================================================
