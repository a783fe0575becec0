---------------------------- MODULE MCReportViews ----------------------------
(***************************************************************************)
(* Two loaders beside restores and a reset, on three departments and four  *)
(* employees.                                                              *)
(***************************************************************************)
EXTENDS ReportViews, TLC

CONSTANTS s1, s2, A, B, C

Hired(year, quarter, d, j) ==
    [year |-> year, quarter |-> quarter, hire_department_id |-> d, hire_job_id |-> j,
     department_id |-> d, job_id |-> j]

\* One hire in each of the first two departments, and one of the next year.
MCInitialTables ==
    [departments |-> << A, B, NoRow >>, jobs |-> << A, B >>,
     employees |-> << Hired(2021, 1, 1, 1), Hired(2021, 4, 2, 2),
                      Hired(2022, 1, 2, 1), NoRow >>]

\* The backup is of before the second department's hires.
MCSaved ==
    [MCInitialTables EXCEPT !.employees = << Hired(2021, 1, 1, 1), NoRow, NoRow, NoRow >>]

Catalog(table, id, name) == [table |-> table, id |-> id, name |-> name]
HireRow(id, year, quarter, d, j) ==
    [table |-> "hired_employees", id |-> id, year |-> year, quarter |-> quarter,
     department_id |-> d, job_id |-> j]

\* A new department, which may share its name; hires; a transfer.
MCBatches ==
    { << Catalog("departments", 3, C) >>, << Catalog("departments", 3, A) >>,
      << Catalog("jobs", 2, A), Catalog("jobs", 1, A) >>,
      << HireRow(4, 2021, 2, 2, 1) >>,
      << HireRow(4, 2021, 2, 3, 1), HireRow(1, 2021, 3, 2, 2) >> }

OneHandlerLikeAnother == Permutations(Sessions)
=============================================================================
