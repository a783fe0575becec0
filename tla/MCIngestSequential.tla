------------------------- MODULE MCIngestSequential -------------------------
(***************************************************************************)
(* One handler at a time ingests departments, jobs and hires, with failing *)
(* statements and failing refreshes: the tables implement EmployeeHistory. *)
(* One batch of each kind has a row for every combination of defects, and  *)
(* others have an id out of range at each of the places it is looked for.  *)
(***************************************************************************)
EXTENDS SequentialIngest, SequencesExt

CONSTANTS s1, ann, bob, A, B, d1, d2, d3

NamedRow(d, name) == [id |-> d, name |-> name]
HireRowOf(e, name, time, d, j) ==
    [id |-> e, name |-> name, datetime |-> time, department_id |-> d, job_id |-> j]

\* Only department d1 and job d1 are loaded.
MCDimensions ==
    [t \in DimensionTables |-> [d \in {d1, d2, d3} |-> IF d = d1 THEN A ELSE NoRow]]

EveryName == {NamedRow(d, name) : d \in {d2, Absent}, name \in {B, Absent}}
EveryHire ==
    {HireRowOf(e, name, time, d, j) :
        e \in {ann, Absent}, name \in {A, Absent}, time \in {1, Absent, Malformed},
        d \in {d1, d2, Absent}, j \in {d1, d2, Absent}}

AsBatch(rows) == FoldSet(LAMBDA row, batch : Append(batch, row), << >>, rows)

MCDepartmentBatches ==
    {<< NamedRow(d2, A), NamedRow(Absent, A), NamedRow(d2, B) >>, << NamedRow(d1, A), NamedRow(d1, Absent) >>,
     << NamedRow(d1, B), NamedRow(d3, Absent), NamedRow(d3, A) >>}
MCJobBatches == {<< NamedRow(d1, B), NamedRow(d2, B) >>, AsBatch(EveryName)}
MCHireBatches ==
    {<< HireRowOf(ann, A, 1, d1, d1), HireRowOf(ann, A, 2, d1, d1), HireRowOf(ann, B, 2, d1, d1) >>,
     << HireRowOf(ann, A, 1, d2, d2), HireRowOf(ann, B, 1, d1, d2), HireRowOf(Absent, A, 1, d3, d1) >>,
     << HireRowOf(ann, A, 1, d1, d1), HireRowOf(bob, Absent, 1, d1, d3) >>,
     << HireRowOf(bob, Absent, 1, d1, d1), HireRowOf(bob, A, 1, d1, d1) >>,
     AsBatch(EveryHire)}
=============================================================================
