--------------------------- MODULE HistoricalLoad ---------------------------
(***************************************************************************)
(* The historical load (src/app/interface/ui/historical_load.py, driven by *)
(* streamlit_app.py): an operator uploads up to three headerless CSV files,*)
(* run_historical_load cuts their rows into batches and posts them one     *)
(* after another in TABLE_ORDER to the ingestion endpoints (IngestBatch).  *)
(* The client gives up on an upload after 30 seconds, but the handler of   *)
(* the upload runs on beside those of the next batches and of later runs.  *)
(***************************************************************************)
EXTENDS IngestBatch, SequencesExt

CONSTANTS
    Uploads,      \* what an operator may choose: a file or none for each table
    NoUpload,     \* no file was chosen for the table
    NotAscii,     \* a file that does not decode
    Blank,        \* an empty line of a file
    Ragged,       \* a line with another number of fields than the table has columns
    IntOf,        \* the integer of each text that int() takes
    MaxBatchSize, \* MAX_BATCH_SIZE of ingest_constants.py
    Nobody,       \* no handler
    NoSummary,    \* no run has ended yet
    MaxRuns       \* bound: runs of the load

TableOrder == << "departments", "jobs", Hires >>

ASSUME BatchSizeAssumption == MaxBatchSize \in Nat \ {0}
ASSUME NobodyAssumption == Nobody \notin Sessions
ASSUME RunsAssumption == MaxRuns \in Nat

\* A file that decodes is a sequence of lines.
ASSUME UploadsAssumption ==
    \A u \in Uploads : \A t \in Targets :
        u[t] \in {NoUpload, NotAscii} \/ u[t] \in Seq(ToSet(u[t]))

VARIABLES
    phase,      \* whether run_historical_load is running
    upload,     \* the files of the present or last run
    alone,      \* no upload of an earlier run was being handled when it began
    remaining,  \* the batches it has yet to report, the one it waits for included
    posting,    \* the handler whose answer the client waits for
    outcomes, rejectedRows,  \* the locals of run_historical_load
    summary,    \* last_summary of the Streamlit session
    started,    \* the uploads of all runs so far
    runs,       \* how many runs there were
    response    \* per handler, the row_index of each entry of its rejected_rows

client == << phase, upload, alone, remaining, posting, outcomes, rejectedRows,
             summary, started, runs >>
loadVars == << vars, client, response >>

-----------------------------------------------------------------------------
(***************************************************************************)
(* From the files to the batches.                                          *)
(***************************************************************************)

\* _coerce_field: a text that int() refuses stays a string, which the API
\* takes for a missing value.
CoerceField(text) == IF text \in DOMAIN IntOf THEN IntOf[text] ELSE Absent

ParseRow(t, line) ==
    IF t = Hires
      THEN [id |-> CoerceField(line.id), name |-> line.name, datetime |-> line.datetime,
            department_id |-> CoerceField(line.department_id),
            job_id |-> CoerceField(line.job_id)]
      ELSE [id |-> CoerceField(line.id), name |-> line.name]

\* [row for row in reader if row]
NonBlank(file) ==
    LET lines[n \in 0 .. Len(file)] ==
          IF n = 0 THEN << >>
          ELSE IF file[n] = Blank THEN lines[n - 1] ELSE Append(lines[n - 1], file[n])
    IN  lines[Len(file)]

\* The rows of a file, without its empty lines.
ReadHeaderlessCsv(t, file) ==
    LET lines == NonBlank(file)
    IN  [i \in 1 .. Len(lines) |-> ParseRow(t, lines[i])]

\* A table without a readable file is skipped.
RowsOf(u, t) == IF u[t] \in {NoUpload, NotAscii} THEN << >> ELSE ReadHeaderlessCsv(t, u[t])

\* zip(strict=True) raises on a line with a field too many or too few, and
\* nothing catches it.
Unreadable(u) == \E t \in Targets : u[t] \notin {NoUpload, NotAscii} /\ Contains(u[t], Ragged)

\* A mutant of ChunkRows: a last batch that is not full is left out.
FullChunks(rows) ==
    [k \in 1 .. Len(rows) \div MaxBatchSize |->
        SubSeq(rows, (k - 1) * MaxBatchSize + 1, k * MaxBatchSize)]

ChunkRows(rows) ==
    [k \in 1 .. (Len(rows) + MaxBatchSize - 1) \div MaxBatchSize |->
        SubSeq(rows, (k - 1) * MaxBatchSize + 1,
               IF k * MaxBatchSize < Len(rows) THEN k * MaxBatchSize ELSE Len(rows))]

TableBatches(u, t) ==
    LET chunks == ChunkRows(RowsOf(u, t))
    IN  [k \in 1 .. Len(chunks) |-> [table |-> t, batch_index |-> k - 1, rows |-> chunks[k]]]

\* A mutant of BatchesOf: the tables are posted in the reverse order.
BatchesBackwards(u) ==
    TableBatches(u, Hires) \o TableBatches(u, "jobs") \o TableBatches(u, "departments")

\* What the two loops of run_historical_load post, in their order.
BatchesOf(u) ==
    TableBatches(u, TableOrder[1]) \o TableBatches(u, TableOrder[2])
        \o TableBatches(u, TableOrder[3])

-----------------------------------------------------------------------------
(***************************************************************************)
(* From the answer to the outcome.                                         *)
(***************************************************************************)
FailedOutcome(b) ==
    [table |-> b.table, batch_index |-> b.batch_index, row_count |-> Len(b.rows),
     success |-> FALSE, accepted |-> 0, rejected |-> 0, load_id |-> NoRow]

StoredOutcome(b, s) ==
    [FailedOutcome(b) EXCEPT !.success = TRUE, !.accepted = req[s].accepted,
                             !.rejected = req[s].rejected, !.load_id = req[s].load_id]

\* A mutant of OutcomeOf: any answer of the server counts as a success.
AnsweredOutcome(b, s) == StoredOutcome(b, s)

OutcomeOf(b, s) == IF answer[s] = "200" THEN StoredOutcome(b, s) ELSE FailedOutcome(b)

\* A mutant of FileRow: the batches before are taken to be as long as this one.
FileRowByLength(b, row_index) == b.batch_index * Len(b.rows) + row_index + 1

FileRow(b, row_index) == b.batch_index * MaxBatchSize + row_index + 1

RejectedRowsOf(b, s) ==
    IF answer[s] # "200" THEN << >>
    ELSE [i \in 1 .. Len(response[s]) |->
            [table |-> b.table, batch_index |-> b.batch_index,
             row_index |-> response[s][i],
             reason_code |-> req[s].rejects[i].reason_code,
             field |-> req[s].rejects[i].field,
             file_row |-> FileRow(b, response[s][i]),
             raw_payload |-> b.rows[response[s][i] + 1]]]

\* LoadSummary.reference_table_failed
ReferenceTableFailed(outs) ==
    \E i \in DOMAIN outs : ~ outs[i].success /\ outs[i].table \in DimensionTables

-----------------------------------------------------------------------------
(***************************************************************************)
(* The run.                                                                *)
(***************************************************************************)
Ready == phase = "ready"
Running == phase = "running"
Between == Running /\ posting = Nobody

\* The button: the files are read and the loops begin.
StartRun ==
    /\ Ready /\ runs < MaxRuns
    /\ runs' = runs + 1
    /\ \E u \in Uploads :
         /\ upload' = u
         /\ IF Unreadable(u)
              THEN UNCHANGED << phase, remaining, started >>
              ELSE /\ phase' = "running" /\ remaining' = BatchesOf(u)
                   /\ started' = started \cup {u}
    /\ alone' = \A s \in Sessions : pc[s] = "idle"
    /\ outcomes' = << >> /\ rejectedRows' = << >>
    /\ UNCHANGED << vars, posting, summary, response >>

\* post_fn: the request reaches a handler of the server.
PostBatch(s) ==
    /\ Between /\ remaining # << >>
    /\ Receive(s)
    /\ req'[s].target_table = Head(remaining).table
    /\ req'[s].rows = Head(remaining).rows
    /\ posting' = s
    /\ response' = [response EXCEPT ![s] = << >>]
    /\ UNCHANGED << phase, upload, alone, remaining, outcomes, rejectedRows,
                    summary, started, runs >>

\* A mutant of Report: the client keeps waiting for the batch it has reported.
ReportAndWait(outcome, rows) ==
    /\ outcomes' = Append(outcomes, outcome)
    /\ rejectedRows' = rejectedRows \o rows
    /\ remaining' = Tail(remaining)
    /\ UNCHANGED << vars, phase, upload, alone, posting, summary, started, runs, response >>

Report(outcome, rows) ==
    /\ outcomes' = Append(outcomes, outcome)
    /\ rejectedRows' = rejectedRows \o rows
    /\ remaining' = Tail(remaining)
    /\ posting' = Nobody
    /\ UNCHANGED << vars, phase, upload, alone, summary, started, runs, response >>

\* The connection is refused, and no handler sees the request.
Refused ==
    /\ Between /\ remaining # << >>
    /\ Report(FailedOutcome(Head(remaining)), << >>)

TakeAnswer(s) ==
    /\ Running /\ posting = s /\ pc[s] = "idle"
    /\ Report(OutcomeOf(Head(remaining), s), RejectedRowsOf(Head(remaining), s))

\* A mutant of TimedOut: the client waits for as long as the handler takes.
NeverTimesOut(s) == FALSE

\* httpx gives up on the answer, lost or not there yet; the handler goes on.
TimedOut(s) == Running /\ posting = s

GiveUp(s) ==
    /\ TimedOut(s)
    /\ Report(FailedOutcome(Head(remaining)), << >>)

\* The page is used while the load is running: the script ends at the next
\* widget call, which is in on_progress, and the summary of before stays.
Interrupt ==
    /\ Between /\ outcomes # << >>
    /\ phase' = "ready" /\ remaining' = << >>
    /\ UNCHANGED << vars, upload, alone, posting, outcomes, rejectedRows, summary,
                    started, runs, response >>

FinishRun ==
    /\ Between /\ remaining = << >>
    /\ phase' = "ready"
    /\ summary' = [outcomes |-> outcomes, rejected_rows |-> rejectedRows,
                   upload |-> upload, alone |-> alone, run |-> runs]
    /\ UNCHANGED << vars, upload, alone, remaining, posting, outcomes, rejectedRows,
                    started, runs, response >>

\* The entries that a rejected row adds to the response carry its index.
NoteRejected(s) ==
    response' = [response EXCEPT ![s] =
                    @ \o [i \in 1 .. Len(req'[s].rejects) - Len(req[s].rejects) |->
                            req[s].row_index - 1]]

ServerStep(s) ==
    /\ Statement(s) \/ Abort(s) \/ DeadlockVictim(s)
    /\ NoteRejected(s)
    /\ UNCHANGED client

ClientStep ==
    \/ Refused \/ FinishRun
    \/ \E s \in Sessions : PostBatch(s) \/ TakeAnswer(s) \/ GiveUp(s)

\* Every run of the bound has ended, and so have its uploads.
LoadQuiet ==
    /\ Ready /\ runs = MaxRuns
    /\ \A s \in Sessions : pc[s] = "idle"
    /\ UNCHANGED loadVars

LoadInit ==
    /\ Init
    /\ phase = "ready" /\ upload = [t \in Targets |-> NoUpload] /\ alone = TRUE
    /\ remaining = << >> /\ posting = Nobody
    /\ outcomes = << >> /\ rejectedRows = << >>
    /\ summary = NoSummary /\ started = {} /\ runs = 0
    /\ response = [s \in Sessions |-> << >>]

LoadNext ==
    \/ StartRun \/ ClientStep \/ Interrupt
    \/ \E s \in Sessions : ServerStep(s)
    \/ LoadQuiet

LoadSpec == LoadInit /\ [][LoadNext]_loadVars

\* The client goes on as long as it can; nothing is assumed of the server.
FairLoadSpec == LoadSpec /\ WF_loadVars(ClientStep)
-----------------------------------------------------------------------------
(***************************************************************************)
(* Properties.                                                             *)
(***************************************************************************)
BatchOutcome == [table : Targets, batch_index : Nat, row_count : 1 .. MaxBatchSize,
                 success : BOOLEAN, accepted : Nat, rejected : Nat,
                 load_id : LoadIds \cup {NoRow}]

\* The locals of run_historical_load have their types, and the handler that the
\* client waits for was given the batch that is reported next.
LoadTypeOK ==
    /\ phase \in {"ready", "running"} /\ runs \in 0 .. MaxRuns
    /\ posting \in Sessions \cup {Nobody}
    /\ \A i \in DOMAIN outcomes : outcomes[i] \in BatchOutcome
    /\ \A i \in DOMAIN remaining : Len(remaining[i].rows) \in 1 .. MaxBatchSize
    /\ posting # Nobody =>
         /\ remaining # << >>
         /\ req[posting].target_table = Head(remaining).table
         /\ req[posting].rows = Head(remaining).rows

\* What a batch that is reported as a success says of its load is what the
\* database holds, also when handlers of abandoned uploads run beside it.
ReportedLoadsCommitted ==
    \A i \in DOMAIN outcomes : outcomes[i].success =>
        /\ loads[outcomes[i].load_id] = [source |-> outcomes[i].table,
                                        accepted |-> outcomes[i].accepted,
                                        rejected |-> outcomes[i].rejected]
        /\ outcomes[i].accepted + outcomes[i].rejected = outcomes[i].row_count

RowsReported(t) ==
    LET sum[n \in 0 .. Len(summary.outcomes)] ==
          IF n = 0 THEN 0
          ELSE IF summary.outcomes[n].table = t THEN sum[n - 1] + summary.outcomes[n].row_count
          ELSE sum[n - 1]
    IN  sum[Len(summary.outcomes)]

RowsRejectedIn(o) ==
    {r.row_index : r \in {q \in ToSet(summary.rejected_rows) :
                            q.table = o.table /\ q.batch_index = o.batch_index}}

\* The summary of a run accounts for its files: the batches make up all rows of
\* each table, as many rows are listed as rejected as the API has counted, and
\* file_row and raw_payload name the row that was rejected, in whichever batch
\* of whichever length it was. file_row counts the rows that were parsed: the
\* lines of the file that are empty are not among them, although
\* ui/historical_load.py calls it the row number "within the original source
\* file".
SummaryAccountsForFiles ==
    summary # NoSummary =>
        /\ \A t \in Targets : RowsReported(t) = Len(RowsOf(summary.upload, t))
        /\ \A o \in ToSet(summary.outcomes) : Cardinality(RowsRejectedIn(o)) = o.rejected
        /\ \A r \in ToSet(summary.rejected_rows) :
             LET rows == RowsOf(summary.upload, r.table)
             IN  r.file_row \in DOMAIN rows /\ rows[r.file_row] = r.raw_payload

\* Every department and job that a hire of the upload refers to is in the
\* upload, or was loaded before the first run.
SelfContained(u) ==
    LET Loaded(t, id) == \/ InitialDimensions[t][id] # NoRow
                         \/ \E row \in ToSet(RowsOf(u, t)) : row.id = id /\ row.name # Absent
    IN  \A row \in ToSet(RowsOf(u, Hires)) :
            /\ row.department_id # Absent => Loaded("departments", row.department_id)
            /\ row.job_id # Absent => Loaded("jobs", row.job_id)

\* A hire of files that fit together is rejected for an unknown department or
\* job only when the summary says that a reference table failed
\* (LoadSummary.reference_table_failed): the operator is never left to look
\* for the fault in the hires.
CascadeIsFlagged ==
    summary # NoSummary /\ SelfContained(summary.upload) =>
        \/ ReferenceTableFailed(summary.outcomes)
        \/ \A r \in ToSet(summary.rejected_rows) :
               r.reason_code \notin {"UNKNOWN_DEPARTMENT", "UNKNOWN_JOB"}

\* Two uploads that say the same of whatever both mention.
Agree(u, w) ==
    \A t \in Targets : \A row \in ToSet(RowsOf(u, t)), other \in ToSet(RowsOf(w, t)) :
        row.id = other.id => row = other

Stored(u) ==
    /\ \A t \in DimensionTables : \A row \in ToSet(RowsOf(u, t)) : dimensions[t][row.id] = row.name
    /\ \A row \in ToSet(RowsOf(u, Hires)) :
         /\ employees[row.id] # NoRow
         /\ employees[row.id].current = RowAttributes(row)

\* A run that reports no failed batch and no rejected row has brought the
\* database to what its files say, whatever failed, timed out or was
\* interrupted in earlier runs: for good when all runs loaded files that agree,
\* and otherwise, if its files do not contradict themselves, when no upload of
\* an earlier run was being handled any more when it began ("re-run the
\* historical load once the issue is resolved").
CompleteRunLoadsFiles ==
    /\ summary # NoSummary
    /\ \A o \in ToSet(summary.outcomes) : o.success /\ o.rejected = 0
    /\ \/ \A u \in started : Agree(u, summary.upload)
       \/ /\ summary.alone /\ Ready /\ summary.run = runs
          /\ Agree(summary.upload, summary.upload)
    => Stored(summary.upload)

\* A run comes to its end although the server may hang in any request: the
\* client waits for no answer longer than its time limit.
EveryRunEnds == Running ~> Ready
=============================================================================
