-------------------------- MODULE MCHistoricalLoad --------------------------
(***************************************************************************)
(* Two runs of the historical load on a server with two handlers, of which *)
(* one may still be busy with an upload the client has given up.           *)
(***************************************************************************)
EXTENDS HistoricalLoad

CONSTANTS s1, s2, ann, A, B, d1

\* The texts of the files, of which "-" is no integer.
MCIntOf == [text \in {"1", "11"} |-> IF text = "1" THEN d1 ELSE ann]

Named(id, name) == [id |-> id, name |-> name]
Hired(id, name) ==
    [id |-> id, name |-> name, datetime |-> 1, department_id |-> "1", job_id |-> "1"]

\* Job 1 is loaded already.
MCDimensions ==
    [t \in DimensionTables |-> [d \in {d1} |-> IF t = "jobs" THEN A ELSE NoRow]]

\* Files that fit together.
Complete ==
    [t \in Targets |->
        CASE t = "departments" -> << Named("1", A) >>
          [] t = "jobs" -> NoUpload
          [] t = Hires -> << Hired("11", A) >>]

\* Only hires: one contradicts the one of before, two have an id that is no
\* integer, and one line is empty.
Corrected ==
    [t \in Targets |->
        CASE t = "departments" -> NoUpload
          [] t = "jobs" -> NotAscii
          [] t = Hires -> << Hired("11", B), Hired("-", A), Blank, Hired("-", B) >>]

Amended == [Corrected EXCEPT ![Hires] = << Hired("11", B) >>]
Uneven == [Corrected EXCEPT ![Hires] = << Hired("11", A), Ragged >>]

MCUploads == {Complete, Corrected, Amended, Uneven}

BatchesOver(t) ==
    UNION {{b.rows : b \in ToSet(TableBatches(u, t))} : u \in {Complete, Corrected, Amended}}
MCDepartmentBatches == BatchesOver("departments")
MCJobBatches == BatchesOver("jobs")
MCHireBatches == BatchesOver(Hires)
=============================================================================
