---------------------------- MODULE MCIngestHires ----------------------------
(***************************************************************************)
(* Two handlers ingest batches of hires that mention the same employees:   *)
(* first loads, transfers in both orders, and identical re-uploads.        *)
(***************************************************************************)
EXTENDS IngestBatchInvariant, TLC

CONSTANTS s1, s2, ann, bob, A, d1, d2

Hire(e, name, d, j) ==
    [id |-> e, name |-> name, datetime |-> 1, department_id |-> d, job_id |-> j]

MCDimensions == [t \in DimensionTables |-> [d \in {d1, d2} |-> A]]

FirstLoad == << Hire(ann, A, d1, d1), Hire(bob, A, d1, d1) >>
Transfers == << Hire(ann, A, d2, d1), Hire(bob, A, d2, d1) >>
TransfersBackwards == << Hire(bob, A, d2, d1), Hire(ann, A, d2, d1) >>

MCHireBatches == {FirstLoad, Transfers, TransfersBackwards}
==============================================================================
