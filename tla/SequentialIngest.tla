-------------------------- MODULE SequentialIngest --------------------------
(***************************************************************************)
(* The ingestion of one handler at a time, as what EmployeeHistory promises*)
(* to a client that posts one batch after another.                         *)
(***************************************************************************)
EXTENDS IngestBatchInvariant, FiniteSets

\* One request is handled at a time.
OneHandler == \A s, o \in Sessions : s = o

-----------------------------------------------------------------------------
(***************************************************************************)
(* The rows of the tables as what is known of the employees.               *)
(***************************************************************************)

\* The member of a set that has one.
Only(set) == CHOOSE x \in set : TRUE

\* The versions that have so many versions of the set up to themselves.
AtPlace(ids, i) == {v \in ids : Cardinality({w \in ids : w <= v}) = i}

\* The attributes of an employee's versions in the order of version_id.
HistoryIn(table, e) ==
    [i \in 1 .. Cardinality(VersionsOf(table, e)) |->
        Only({table[v].attributes : v \in AtPlace(VersionsOf(table, e), i)})]

HistoriesIn(table) == [e \in EmployeeIds |-> HistoryIn(table, e)]

HireFacts == [datetime : Nat, attributes : Attributes]

ASSUME HireFactsAssumption == NoRow \notin HireFacts

HireFactsIn(table) ==
    [e \in EmployeeIds |->
        IF table[e] = NoRow THEN NoRow
        ELSE [datetime |-> table[e].hire_datetime, attributes |-> table[e].hired_as]]

History == INSTANCE EmployeeHistory WITH
    InitialCatalog <- InitialDimensions,
    NoName <- NoRow,
    NotHired <- NoRow,
    catalog <- dimensions,
    hiredAs <- HireFactsIn(employees),
    history <- HistoriesIn(versions)

-----------------------------------------------------------------------------
(***************************************************************************)
(* What the implementation rests on: between two rows the session sees     *)
(* what the rows it has gone through make of the committed tables.         *)
(***************************************************************************)
Catalogued(s) == History!NamesAfter(dimensions[req[s].target_table], req[s].rows)

StaffBefore == [hired |-> HireFactsIn(employees), past |-> HistoriesIn(versions)]

Employing(s) == History!StaffAfter(dimensions, StaffBefore, req[s].rows)

NothingWritten(s) ==
    wDimensions[s] = NoDimensions /\ wEmployees[s] = NoEmployees /\ wVersions[s] = NoVersions

CatalogProgress(s) ==
    LET t == req[s].target_table
    IN  /\ wEmployees[s] = NoEmployees /\ wVersions[s] = NoVersions
        /\ \A u \in DimensionTables \ {t} : DimensionsSeen(s, u) = dimensions[u]
        /\ DimensionsSeen(s, t) = Catalogued(s)[req[s].row_index - 1]
        /\ pc[s] = "upsert" => local[s].found = DimensionsSeen(s, t)[Row(s).id]

\* The row at work has its employee from add_employee on, and its version from
\* add_version on, which only follows when the last one differs.
StaffProgress(s) ==
    LET k == req[s].row_index
        past == HistoriesIn(VersionsSeen(s))[Row(s).id]
    IN  /\ HireFactsIn(EmployeesSeen(s)) =
             Employing(s)[IF pc[s] = "add_first_version" THEN k ELSE k - 1].hired
        /\ HistoriesIn(VersionsSeen(s)) =
             Employing(s)[IF pc[s] = "update_current" THEN k ELSE k - 1].past
        /\ pc[s] = "check_job" =>
             local[s].department_known = Known(s, "departments", Row(s).department_id)
        /\ pc[s] \in {"close_select", "close_update", "add_version"} =>
             past # << >> /\ past[Len(past)] # RowAttributes(Row(s))

Progress(s) ==
    IF pc[s] \in Resting THEN NothingWritten(s)
    ELSE /\ req[s].rows \in Batches(req[s].target_table)
         /\ req[s].row_index <= Len(req[s].rows) + 1
         /\ IF req[s].target_table = Hires THEN StaffProgress(s) ELSE CatalogProgress(s)

Progresses == \A s \in Sessions : Progress(s)

-----------------------------------------------------------------------------
(***************************************************************************)
(* Properties.                                                             *)
(***************************************************************************)
\* The tables implement the abstract ingestion: every commit applies one whole
\* batch in row order, with re-uploads as no-ops and first load wins for the
\* hire facts, and nothing else changes them (_run_batch, _persist_hire).
ImplementsHistory == History!Spec

\* The verdict on one field of a row, as docs/DATA_MODEL.md tabulates it.
Verdict(field, row) ==
    LET Unknown(t, id) == id # Absent /\ dimensions[t][id] = NoRow
    IN  CASE field = "id" /\ row.id = Absent -> "MISSING_ID"
          [] field \in {"name", "department", "job"} /\ row.name = Absent -> "MISSING_NAME"
          [] field = "datetime" /\ row.datetime = Absent -> "MISSING_DATETIME"
          [] field = "datetime" /\ row.datetime = Malformed -> "BAD_DATETIME_FORMAT"
          [] field = "department_id" /\ row.department_id = Absent -> "MISSING_DEPARTMENT"
          [] field = "department_id" /\ Unknown("departments", row.department_id) -> "UNKNOWN_DEPARTMENT"
          [] field = "job_id" /\ row.job_id = Absent -> "MISSING_JOB"
          [] field = "job_id" /\ Unknown("jobs", row.job_id) -> "UNKNOWN_JOB"
          [] OTHER -> "ok"

FieldsOf(t) == CASE t = "departments" -> {"id", "department"}
                 [] t = "jobs" -> {"id", "job"}
                 [] OTHER -> {"id", "name", "datetime", "department_id", "job_id"}

Defects(s) == {f \in FieldsOf(req[s].target_table) : Verdict(f, Row(s)) # "ok"}

\* A row leaves a record for every defect it has and each once, with the code
\* that the verdict on its field has: a reference of the wrong type is missing,
\* never unknown as well, and a row without a defect leaves none.
EveryErrorReportedOnce ==
    [][\A s \in Sessions :
         RejectDimension(s) \/ SelectDimension(s) \/ CheckJob(s) =>
            LET new == SubSeq(req'[s].rejects, Len(req[s].rejects) + 1, Len(req'[s].rejects))
            IN  /\ {new[i] : i \in DOMAIN new} =
                      {[raw_payload |-> Row(s), field |-> f,
                        reason_code |-> Verdict(f, Row(s))] : f \in Defects(s)}
                /\ Len(new) = Cardinality(Defects(s))]_vars
=============================================================================
