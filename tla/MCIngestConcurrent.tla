------------------------- MODULE MCIngestConcurrent -------------------------
(***************************************************************************)
(* Two handlers with batches of hires that mention the same two employees  *)
(* in both orders, while the department that one of them refers to is      *)
(* inserted and others are renamed, in both orders, too.                   *)
(***************************************************************************)
EXTENDS IngestBatchInvariant, TLC

CONSTANTS s1, s2, ann, bob, A, B, d1, d2

NamedRow(d, name) == [id |-> d, name |-> name]
Hire(e, name, d) ==
    [id |-> e, name |-> name, datetime |-> 1, department_id |-> d, job_id |-> d1]

\* Department d1 and both jobs are loaded, department d2 is not.
MCDimensions ==
    [t \in DimensionTables |->
        [d \in {d1, d2} |-> IF t = "departments" /\ d = d2 THEN NoRow ELSE A]]

MCDepartmentBatches ==
    {<< NamedRow(d1, B), NamedRow(d2, B) >>, << NamedRow(d2, A), NamedRow(Absent, A), NamedRow(d1, A) >>}

\* A first load, a transfer, and transfers to a department that may be unknown.
MCHireBatches ==
    {<< Hire(ann, A, d1), Hire(bob, A, d1) >>,
     << Hire(bob, B, d1), Hire(ann, B, d1) >>,
     << Hire(ann, A, d2), Hire(bob, Absent, d2) >>}
=============================================================================
