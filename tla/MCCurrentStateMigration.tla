----------------------- MODULE MCCurrentStateMigration -----------------------
(***************************************************************************)
(* Two handlers hire, transfer and transfer back one employee, before and  *)
(* after a downgrade and an upgrade.                                       *)
(***************************************************************************)
EXTENDS CurrentStateMigration, TLC

CONSTANTS s1, s2, ann, A, d1, d2

Hire(d) == [id |-> ann, name |-> A, datetime |-> 1, department_id |-> d, job_id |-> d1]

MCDimensions == [t \in DimensionTables |-> [d \in {d1, d2} |-> A]]
MCHireBatches == {<< Hire(d1) >>, << Hire(d2) >>}
OneHandlerLikeAnother == Permutations(Sessions)
=============================================================================
