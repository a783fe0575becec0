----------------------------- MODULE ReportViews -----------------------------
(***************************************************************************)
(* The two reports: what the materialized views of migration 0002 compute, *)
(* and when they are refreshed.  Every load refreshes both in a transaction*)
(* of its own after its commit (_run_batch), a reset refreshes them in its *)
(* own transaction, a restore leaves them alone.                           *)
(*                                                                         *)
(* A load, a restore of one table and a reset commit in one action: how    *)
(* their statements interleave is the subject of IngestBatch and           *)
(* BackupRestore.  A REFRESH reads with the snapshot its statement began   *)
(* with and waits for the lock of the view after that.  TRUNCATE does not  *)
(* honour snapshots: an older one sees an empty table.                     *)
(***************************************************************************)
EXTENDS Naturals, FiniteSets, SequencesExt

CONSTANTS
    Sessions,      \* handlers of ingestion requests
    DepartmentIds, JobIds, EmployeeIds,
    Names,         \* names of departments and jobs
    NoRow,         \* no row has the key
    NoSnapshot,    \* no REFRESH is waiting for its lock
    Nobody,        \* no handler
    Batches,       \* the batches that may be posted
    InitialTables, \* the rows before the run begins
    Saved,         \* the backup that tables are restored from
    MaxLoads,      \* bound: loads
    MaxAdmin       \* bound: restores and resets

ReportYear == 2021
Quarters == 1 .. 4

ASSUME NobodyAssumption == Nobody \notin Sessions
ASSUME BoundsAssumption == MaxLoads \in Nat /\ MaxAdmin \in Nat

\* Keys are INTEGERs.
ASSUME FiniteAssumption == IsFiniteSet(EmployeeIds)

\* The hire facts of an employee, and its current department and job.
Employee == [year : {2021, 2022}, quarter : Quarters,
             hire_department_id : DepartmentIds, hire_job_id : JobIds,
             department_id : DepartmentIds, job_id : JobIds]

Tables == [departments : [DepartmentIds -> Names \cup {NoRow}],
           jobs : [JobIds -> Names \cup {NoRow}],
           employees : [EmployeeIds -> Employee \cup {NoRow}]]

ASSUME NoRowAssumption == NoRow \notin Names \cup Employee
ASSUME NoSnapshotAssumption == NoSnapshot \notin Tables

\* What validation lets through of a batch.
CatalogRow(table, ids) == [table : {table}, id : ids, name : Names]
Hire == [table : {"hired_employees"}, id : EmployeeIds, year : {2021, 2022},
         quarter : Quarters, department_id : DepartmentIds, job_id : JobIds]
Row == CatalogRow("departments", DepartmentIds) \cup CatalogRow("jobs", JobIds) \cup Hire

ASSUME BatchesAssumption == Batches \subseteq Seq(Row)

ReferencesFound(T) ==
    \A e \in EmployeeIds : T.employees[e] # NoRow =>
        /\ T.departments[T.employees[e].hire_department_id] # NoRow
        /\ T.departments[T.employees[e].department_id] # NoRow
        /\ T.jobs[T.employees[e].hire_job_id] # NoRow
        /\ T.jobs[T.employees[e].job_id] # NoRow

ASSUME TablesAssumption ==
    \A T \in {InitialTables, Saved} : T \in Tables /\ ReferencesFound(T)

VARIABLES
    tables,    \* the committed rows that the views are computed from
    views,     \* the committed rows of the views
    history,   \* every committed state of the tables, and what has committed it
    pc,
    seen,      \* per session, the tables as the snapshot of its REFRESH sees them
    staged,    \* per session, the uncommitted rows of the views
    own,       \* per session, where in the history its last load is
    holder,    \* the session that holds the lock of report_hires_by_quarter
    loads, admin  \* how many loads, and restores and resets, there were

vars == << tables, views, history, pc, seen, staged, own, holder, loads, admin >>

-----------------------------------------------------------------------------
(***************************************************************************)
(* The queries.                                                            *)
(***************************************************************************)
HiredIn(T, years) ==
    {e \in EmployeeIds : T.employees[e] # NoRow /\ T.employees[e].year \in years}

DepartmentOf(T, e) == T.departments[T.employees[e].hire_department_id]
JobOf(T, e) == T.jobs[T.employees[e].hire_job_id]

\* A mutant of HiresByQuarter: the current department and job are joined.
HiresByCurrentDepartment(T) ==
    LET Group(e) == << T.departments[T.employees[e].department_id],
                       T.jobs[T.employees[e].job_id] >>
        Count(g, q) == Cardinality({e \in HiredIn(T, {ReportYear}) :
                                        Group(e) = g /\ T.employees[e].quarter = q})
    IN  {[department |-> g[1], job |-> g[2], hired |-> [q \in Quarters |-> Count(g, q)]] :
            g \in {Group(e) : e \in HiredIn(T, {ReportYear})}}

\* report_hires_by_quarter: an inner join, grouped by the names.
HiresByQuarter(T) ==
    LET joined == {e \in HiredIn(T, {ReportYear}) :
                        DepartmentOf(T, e) # NoRow /\ JobOf(T, e) # NoRow}
        Count(g, q) ==
            Cardinality({e \in joined : /\ DepartmentOf(T, e) = g[1] /\ JobOf(T, e) = g[2]
                                        /\ T.employees[e].quarter = q})
    IN  {[department |-> g[1], job |-> g[2], hired |-> [q \in Quarters |-> Count(g, q)]] :
            g \in {<< DepartmentOf(T, e), JobOf(T, e) >> : e \in joined}}

HiredBy(T, d, years) ==
    Cardinality({e \in HiredIn(T, years) : T.employees[e].hire_department_id = d})

Total(f) == FoldFunction(+, 0, f)

AboveAverage(T, years) ==
    LET hiring == {d \in DepartmentIds : HiredBy(T, d, {ReportYear}) > 0}
        average_of == Total([d \in hiring |-> HiredBy(T, d, {ReportYear})])
    IN  {[id |-> d, department |-> T.departments[d], hired |-> HiredBy(T, d, years)] :
            d \in {h \in hiring : /\ T.departments[h] # NoRow
                                  /\ HiredBy(T, h, years) * Cardinality(hiring) > average_of}}

\* A mutant of DepartmentsAboveAverage: the hires of all years are compared
\* with the average of 2021.
DepartmentsEverAboveAverage(T) == AboveAverage(T, {2021, 2022})

\* report_departments_above_average: a department without hires in the year
\* is not in the average.
DepartmentsAboveAverage(T) == AboveAverage(T, {ReportYear})

ReportsOf(T) == [hires |-> HiresByQuarter(T), average |-> DepartmentsAboveAverage(T)]

-----------------------------------------------------------------------------
(***************************************************************************)
(* What commits.                                                           *)
(***************************************************************************)
Empty == [departments |-> [d \in DepartmentIds |-> NoRow],
          jobs |-> [j \in JobIds |-> NoRow],
          employees |-> [e \in EmployeeIds |-> NoRow]]

Goto(s, label) == pc' = [pc EXCEPT ![s] = label]

NewEmployee(row) ==
    [year |-> row.year, quarter |-> row.quarter,
     hire_department_id |-> row.department_id, hire_job_id |-> row.job_id,
     department_id |-> row.department_id, job_id |-> row.job_id]

\* A mutant of Transferred: the employee is stored as if it were hired again.
HiredAgain(employee, row) == NewEmployee(row)

Transferred(employee, row) ==
    [employee EXCEPT !.department_id = row.department_id, !.job_id = row.job_id]

\* The tables after a row: a catalog row is upserted, a hire is stored or, when
\* its department or job is unknown, rejected.
Stored(T, row) ==
    CASE row.table = "departments" -> [T EXCEPT !.departments[row.id] = row.name]
      [] row.table = "jobs" -> [T EXCEPT !.jobs[row.id] = row.name]
      [] OTHER ->
           IF T.departments[row.department_id] = NoRow \/ T.jobs[row.job_id] = NoRow THEN T
           ELSE [T EXCEPT !.employees[row.id] =
                    IF @ = NoRow THEN NewEmployee(row) ELSE Transferred(@, row)]

\* The tables after the rows of a batch, one after another.
AfterRows(T, batch) ==
    LET after[n \in 0 .. Len(batch)] ==
          IF n = 0 THEN T ELSE Stored(after[n - 1], batch[n])
    IN  after[Len(batch)]

Record(op, T) ==
    /\ tables' = T
    /\ history' = Append(history, [op |-> op, tables |-> T])

\* The commit of a batch.
CommitLoad(s) ==
    /\ pc[s] = "idle" /\ loads < MaxLoads
    /\ loads' = loads + 1
    /\ \E batch \in Batches : Record("load", AfterRows(tables, batch))
    /\ own' = [own EXCEPT ![s] = Len(history')]
    /\ Goto(s, "refresh_hires")
    /\ UNCHANGED << views, seen, staged, holder, admin >>

\* The first REFRESH has its snapshot.
BeginRefresh(s) ==
    /\ pc[s] = "refresh_hires"
    /\ seen' = [seen EXCEPT ![s] = tables]
    /\ Goto(s, "fill_hires")
    /\ UNCHANGED << tables, views, history, staged, own, holder, loads, admin >>

\* It holds the lock of the view, to the end of the transaction.
FillHires(s) ==
    /\ pc[s] = "fill_hires" /\ holder = Nobody
    /\ holder' = s
    /\ staged' = [staged EXCEPT ![s].hires = HiresByQuarter(seen[s])]
    /\ seen' = [seen EXCEPT ![s] = NoSnapshot]
    /\ Goto(s, "fill_average")
    /\ UNCHANGED << tables, views, history, own, loads, admin >>

\* The second REFRESH has a snapshot of its own, and nobody in its way.
FillAverage(s) ==
    /\ pc[s] = "fill_average"
    /\ staged' = [staged EXCEPT ![s].average = DepartmentsAboveAverage(tables)]
    /\ Goto(s, "publish")
    /\ UNCHANGED << tables, views, history, seen, own, holder, loads, admin >>

\* A mutant of Published: the second view was not refreshed.
PublishedOne(s) == [views EXCEPT !.hires = staged[s].hires]

Published(s) == staged[s]

EndRefresh(s) ==
    /\ staged' = [staged EXCEPT ![s] = ReportsOf(Empty)]
    /\ seen' = [seen EXCEPT ![s] = NoSnapshot]
    /\ holder' = IF holder = s THEN Nobody ELSE holder
    /\ Goto(s, "idle")
    /\ UNCHANGED << tables, history, own, loads, admin >>

Publish(s) ==
    /\ pc[s] = "publish"
    /\ views' = Published(s)
    /\ EndRefresh(s)

\* The failure is logged and the answer is 200 all the same.
RefreshFails(s) ==
    /\ pc[s] # "idle"
    /\ EndRefresh(s)
    /\ UNCHANGED views

\* A snapshot that a REFRESH is holding sees nothing in the truncated tables.
Truncate(names) ==
    seen' = [s \in Sessions |->
                IF pc[s] # "fill_hires" THEN NoSnapshot
                ELSE [t \in DOMAIN Empty |-> IF t \in names THEN Empty[t] ELSE seen[s][t]]]

\* A mutant of RestoredTables: employees are not emptied with a catalog.
RestoredAlone(t) == [tables EXCEPT ![t] = Saved[t]]

\* TRUNCATE t CASCADE, and the rows of the file.
RestoredTables(t) ==
    [u \in DOMAIN Empty |->
        IF u = t THEN Saved[t] ELSE IF u = "employees" THEN Empty[u] ELSE tables[u]]

\* Restore.run: the TRUNCATE waits for a REFRESH that has read the tables.
RestoreTable(t) ==
    /\ admin < MaxAdmin /\ holder = Nobody
    /\ t = "employees" => ReferencesFound(RestoredTables(t))
    /\ admin' = admin + 1
    /\ Record("restore", RestoredTables(t))
    /\ Truncate({t, "employees"})
    /\ UNCHANGED << views, pc, staged, own, holder, loads >>

\* A mutant of ViewsAfterReset: the views are left as they were.
ViewsKept == views

ViewsAfterReset == ReportsOf(Empty)

\* Reset.run
Reset ==
    /\ admin < MaxAdmin /\ holder = Nobody
    /\ admin' = admin + 1
    /\ Record("reset", Empty)
    /\ Truncate(DOMAIN Empty)
    /\ views' = ViewsAfterReset
    /\ UNCHANGED << pc, staged, own, holder, loads >>

Init ==
    /\ tables = InitialTables
    /\ views = ReportsOf(InitialTables)
    /\ history = << [op |-> "load", tables |-> InitialTables] >>
    /\ pc = [s \in Sessions |-> "idle"]
    /\ seen = [s \in Sessions |-> NoSnapshot]
    /\ staged = [s \in Sessions |-> ReportsOf(Empty)]
    /\ own = [s \in Sessions |-> 1]
    /\ holder = Nobody
    /\ loads = 0 /\ admin = 0

\* Every request of the bound has been answered.
Quiet ==
    /\ loads = MaxLoads /\ \A s \in Sessions : pc[s] = "idle"
    /\ UNCHANGED vars

Next ==
    \/ \E s \in Sessions :
         \/ CommitLoad(s) \/ BeginRefresh(s) \/ FillHires(s) \/ FillAverage(s)
         \/ Publish(s) \/ RefreshFails(s)
    \/ \E t \in DOMAIN Empty : RestoreTable(t)
    \/ Reset
    \/ Quiet

Spec == Init /\ [][Next]_vars

-----------------------------------------------------------------------------
(***************************************************************************)
(* Properties.                                                             *)
(***************************************************************************)
\* The tables keep their columns and the foreign keys of the employees, the
\* views hold reports, and the handlers are where their code has statements.
TypeOK ==
    /\ tables \in Tables /\ ReferencesFound(tables)
    /\ \A r \in views.hires : r.hired \in [Quarters -> 0 .. Cardinality(EmployeeIds)]
    /\ \A r \in views.average : r.id \in DepartmentIds /\ r.hired > 0
    /\ pc \in [Sessions -> {"idle", "refresh_hires", "fill_hires", "fill_average", "publish"}]
    /\ \A s \in Sessions : pc[s] \in {"fill_average", "publish"} <=> holder = s
    /\ \A s \in Sessions : (seen[s] # NoSnapshot) <=> pc[s] = "fill_hires"

\* The hires that rows of the first report count.
Counted(rows) == Total([r \in rows |-> Total(r.hired)])

DistinctNames(T) ==
    \A d, e \in DepartmentIds :
        T.departments[d] = T.departments[e] /\ T.departments[d] # NoRow => d = e

\* The departments that rows of the first report show above the average of the
\* departments they show.
ShownAboveAverage(T, rows) ==
    LET Shown(d) == Counted({r \in rows : r.department = T.departments[d]})
        shown == {r.department : r \in rows}
    IN  {[id |-> d, department |-> T.departments[d], hired |-> Shown(d)] :
            d \in {h \in DepartmentIds : Shown(h) * Cardinality(shown) > Counted(rows)}}

\* The two reports of any state the tables can be in tell the same story: the
\* quarters add up to all hires of 2021 ("sum of Q1..Q4 = 1643 (total valid
\* 2021 hires)"), also when names are shared, and the departments of the second
\* report are those that the first one shows above average, with the same counts.
ReportsAgree ==
    LET R == ReportsOf(tables)
    IN  /\ Counted(R.hires) = Cardinality(HiredIn(tables, {2021}))
        /\ DistinctNames(tables) => R.average = ShownAboveAverage(tables, R.hires)

\* A load that brings no new employee and renames nothing changes no report:
\* transfers are attributed to the department and job of the hire.
TransfersKeepReports ==
    [][ /\ \E s \in Sessions : CommitLoad(s)
        /\ \A e \in EmployeeIds : tables'.employees[e] # NoRow => tables.employees[e] # NoRow
        /\ tables'.departments = tables.departments /\ tables'.jobs = tables.jobs
        => ReportsOf(tables') = ReportsOf(tables)]_vars

Committed(k) == history[k].tables

\* When the refresh of a load succeeds, both views show the load, and possibly
\* later ones, but no state from before it, with however many refreshes it had
\* to wait for; only a restore or a reset may have taken the load away again.
LoadShowsInReports ==
    [][\A s \in Sessions : Publish(s) =>
          \/ \E k \in own[s] .. Len(history) : history[k].op # "load"
          \/ \E k, l \in own[s] .. Len(history) :
                views' = [hires |-> HiresByQuarter(Committed(k)),
                          average |-> DepartmentsAboveAverage(Committed(l))]]_vars

\* Neither view ever shows rows of before the last reset, nor rows that no
\* committed state of the tables has: a refresh that was on its way when the
\* tables were emptied does not bring the old report back.
ReportsForgetReset ==
    LET since == {k \in 1 .. Len(history) :
                    \A l \in k + 1 .. Len(history) : history[l].op # "reset"}
    IN  /\ views.hires = {} \/ \E k \in since : views.hires = HiresByQuarter(Committed(k))
        /\ \E k \in since : views.average = DepartmentsAboveAverage(Committed(k))
=============================================================================
