--------------------------- MODULE EmployeeHistory ---------------------------
(***************************************************************************)
(* What ingestion promises when batches are applied one after another: a   *)
(* batch takes effect as a whole and at once.  A batch of departments or   *)
(* jobs overwrites the names it carries.  A batch of hires processes its   *)
(* valid rows in order: the first row of an employee fixes the hire facts, *)
(* a row with the attributes the employee already has changes nothing, any *)
(* other row appends to the employee's history.                            *)
(***************************************************************************)
EXTENDS Naturals, Sequences

CONSTANTS
    EmployeeIds, DimensionIds, Names,
    DepartmentBatches, JobBatches, HireBatches,
    InitialCatalog,    \* the departments and jobs at the beginning
    NoName,            \* the absence of a department or job
    NotHired           \* the hire facts of an unknown employee

VARIABLES
    catalog,   \* the name of each department and job
    hiredAs,   \* per employee, the attributes and datetime of the first row
    history    \* per employee, the sequence of attributes

vars == << catalog, hiredAs, history >>

AttributesOf(row) ==
    [name |-> row.name, department_id |-> row.department_id, job_id |-> row.job_id]

Init ==
    /\ catalog = InitialCatalog
    /\ hiredAs = [e \in EmployeeIds |-> NotHired]
    /\ history = [e \in EmployeeIds |-> << >>]

ValidName(row) == row.id \in DimensionIds /\ row.name \in Names
ValidHire(known, row) ==
    /\ row.id \in EmployeeIds /\ row.name \in Names
    /\ row.datetime \in Nat
    /\ row.department_id \in DimensionIds /\ row.job_id \in DimensionIds
    /\ known["departments"][row.department_id] # NoName
    /\ known["jobs"][row.job_id] # NoName

Named(names, row) == IF ValidName(row) THEN [names EXCEPT ![row.id] = row.name] ELSE names

Hire(hired, row) ==
    IF hired[row.id] # NotHired THEN hired
    ELSE [hired EXCEPT ![row.id] = [datetime |-> row.datetime, attributes |-> AttributesOf(row)]]

Record(past, row) ==
    LET own == past[row.id]
    IN  IF own # << >> /\ own[Len(own)] = AttributesOf(row) THEN past
        ELSE [past EXCEPT ![row.id] = Append(own, AttributesOf(row))]

Employed(known, staff, row) ==
    IF ValidHire(known, row)
      THEN [hired |-> Hire(staff.hired, row), past |-> Record(staff.past, row)]
      ELSE staff

\* The names, and what is known of the employees, after each row of a batch.
NamesAfter(names, rows) ==
    LET after[n \in 0 .. Len(rows)] ==
          IF n = 0 THEN names ELSE Named(after[n - 1], rows[n])
    IN  after

StaffAfter(known, staff, rows) ==
    LET after[n \in 0 .. Len(rows)] ==
          IF n = 0 THEN staff ELSE Employed(known, after[n - 1], rows[n])
    IN  after

LoadCatalog(t, rows) ==
    /\ catalog' = [catalog EXCEPT ![t] = NamesAfter(@, rows)[Len(rows)]]
    /\ UNCHANGED << hiredAs, history >>

LoadHires(rows) ==
    LET staff == StaffAfter(catalog, [hired |-> hiredAs, past |-> history], rows)[Len(rows)]
    IN  /\ hiredAs' = staff.hired
        /\ history' = staff.past
        /\ UNCHANGED catalog

Next ==
    \/ \E rows \in DepartmentBatches : LoadCatalog("departments", rows)
    \/ \E rows \in JobBatches : LoadCatalog("jobs", rows)
    \/ \E rows \in HireBatches : LoadHires(rows)

Spec == Init /\ [][Next]_vars
==============================================================================
