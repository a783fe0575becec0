------------------------ MODULE HistoricalLoadProofs ------------------------
(***************************************************************************)
(* The historical load uses the server of IngestBatch as any client may,   *)
(* so what is proved there holds beside it; what it reports of a batch is  *)
(* what the database holds; its summary accounts for every row of the      *)
(* files and shows where a fault is; and a run without failures leaves in  *)
(* the tables what the files say, for every set of files.                  *)
(***************************************************************************)
EXTENDS HistoricalLoad, IngestOutcomeProofs

LEMMA ServerNext ==
    ASSUME [LoadNext]_loadVars
    PROVE  [Next]_vars
<1>1. CASE UNCHANGED loadVars \/ LoadQuiet
  BY <1>1 DEF LoadQuiet, loadVars
<1>2. CASE StartRun \/ Interrupt
  BY <1>2 DEF StartRun, Interrupt
<1>3. CASE ClientStep
  <2>1. CASE Refused
    BY <2>1 DEF Refused, Report
  <2>2. CASE FinishRun
    BY <2>2 DEF FinishRun
  <2>3. ASSUME NEW s \in Sessions, PostBatch(s) PROVE Next
    BY <2>3 DEF PostBatch, Next
  <2>4. ASSUME NEW s \in Sessions, TakeAnswer(s) \/ GiveUp(s) PROVE UNCHANGED vars
    BY <2>4 DEF TakeAnswer, GiveUp, Report
  <2> QED
    BY <1>3, <2>1, <2>2, <2>3, <2>4 DEF ClientStep
<1>4. ASSUME NEW s \in Sessions, ServerStep(s) PROVE Next
  BY <1>4 DEF ServerStep, Next
<1> QED
  BY <1>1, <1>2, <1>3, <1>4 DEF LoadNext

\* A database that only the historical load uses is one that clients of the
\* API use: no step of run_historical_load, and no upload it has given up,
\* takes the server where other requests would not.
THEOREM LoadImplementsIngest == LoadSpec => Spec
<1>1. LoadInit => Init
  BY DEF LoadInit
<1> QED
  BY <1>1, ServerNext, PTL DEF LoadSpec, Spec

\* However the runs of the historical load are timed out, interrupted and
\* repeated, every employee agrees with its one current version.
THEOREM LoadKeepsSync == LoadSpec => []CurrentStateInSync
BY LoadImplementsIngest, InSyncAlways, PTL

-----------------------------------------------------------------------------
(***************************************************************************)
(* What is reported of a batch.                                            *)
(***************************************************************************)

\* The handler that the client waits for was given the batch it reports next.
AwaitedBatch ==
    posting # Nobody =>
        /\ Running
        /\ posting \in Sessions
        /\ req[posting].target_table = Head(remaining).table
        /\ req[posting].rows = Head(remaining).rows

OutcomeRight(o) ==
    o.success =>
        /\ o.load_id \in LoadIds
        /\ loads[o.load_id] # NoRow
        /\ loads[o.load_id] = [source |-> o.table, accepted |-> o.accepted,
                               rejected |-> o.rejected]
        /\ o.accepted + o.rejected = o.row_count

OutcomesRight ==
    /\ \E S : outcomes \in Seq(S)
    /\ \A i \in DOMAIN outcomes : OutcomeRight(outcomes[i])

ReportInv == AwaitedBatch /\ OutcomesRight

\* A load that is committed is never written again.
LEMMA LoadsStay ==
    ASSUME TypeInv, Accounts, [Next]_vars, NEW l \in LoadIds, loads[l] # NoRow
    PROVE  loads'[l] = loads[l]
<1>1. CASE UNCHANGED vars \/ Quiet
  BY <1>1 DEF Quiet, vars, tables
<1>2. ASSUME NEW s \in Sessions, Receive(s) PROVE loads' = loads
  BY <1>2 DEF Receive, tables
<1>3. ASSUME NEW s \in Sessions, Statement(s) \/ Abort(s) \/ DeadlockVictim(s)
      PROVE  loads'[l] = loads[l]
  <2>1. CASE Works(s) \/ Fails(s) \/ Refresh(s)
    BY <2>1 DEF Works, Fails, Fail, Refresh, tables
  <2>2. CASE Commit(s)
    BY <2>2, CommitRecords DEF NotRecorded
  <2> QED
    BY <1>3, <2>1, <2>2, StepKinds
<1> QED
  BY <1>1, <1>2, <1>3 DEF Next

\* A statement leaves the batch of every handler as it is.
LEMMA BatchStays ==
    ASSUME TypeInv, NEW s \in Sessions, Statement(s) \/ Abort(s) \/ DeadlockVictim(s),
           NEW o \in Sessions
    PROVE  req'[o].target_table = req[o].target_table /\ req'[o].rows = req[o].rows
<1>0. req[s] \in Request
  BY DEF TypeInv, TypeOK
<1>1. CASE Works(s)
  <2>1. CASE o # s
    BY <1>1, <2>1 DEF Works, Bystander
  <2>2. CASE o = s /\ req' = req
    BY <2>2
  <2>3. CASE o = s /\ Accept(s)
    BY <1>0, <2>3 DEF Accept, TypeInv, TypeOK, Request
  <2>4. CASE o = s /\ \E errors \in Seq(ErrorRecord) : Reject(s, errors)
    BY <1>0, <2>4 DEF Reject, TypeInv, TypeOK, Request
  <2> QED
    BY <1>1, <2>1, <2>2, <2>3, <2>4 DEF Works
<1>2. CASE Fails(s) \/ Commit(s) \/ Refresh(s)
  BY <1>2 DEF Fails, Fail, Commit, Refresh
<1> QED
  BY <1>1, <1>2, StepKinds

LEMMA AwaitedStep ==
    ASSUME TypeInv, AwaitedBatch, [LoadNext]_loadVars
    PROVE  AwaitedBatch'
<1> USE DEF AwaitedBatch, Running, Ready, Between
<1>1. CASE UNCHANGED loadVars \/ LoadQuiet
  BY <1>1 DEF LoadQuiet, loadVars, client, vars
<1>2. CASE StartRun
  <2>1. UNCHANGED posting /\ posting = Nobody
    BY <1>2 DEF StartRun
  <2> QED
    BY <2>1
<1>3. CASE Interrupt \/ FinishRun
  BY <1>3 DEF Interrupt, FinishRun
<1>4. CASE Refused \/ \E s \in Sessions : TakeAnswer(s) \/ GiveUp(s)
  <2>1. posting' = Nobody
    BY <1>4 DEF Refused, TakeAnswer, GiveUp, Report
  <2> QED
    BY <2>1
<1>5. ASSUME NEW s \in Sessions, PostBatch(s) PROVE AwaitedBatch'
  BY <1>5 DEF PostBatch
<1>6. ASSUME NEW s \in Sessions, ServerStep(s) PROVE AwaitedBatch'
  <2>1. /\ UNCHANGED << phase, posting, remaining >>
        /\ Statement(s) \/ Abort(s) \/ DeadlockVictim(s)
    BY <1>6 DEF ServerStep, client
  <2> QED
    BY <2>1, BatchStays
<1> QED
  BY <1>1, <1>2, <1>3, <1>4, <1>5, <1>6 DEF LoadNext, ClientStep

\* An outcome that is right when it is reported stays right.
LEMMA OutcomesStay ==
    ASSUME TypeInv, Accounts, [Next]_vars, UNCHANGED outcomes, OutcomesRight
    PROVE  OutcomesRight'
<1>1. \E S : outcomes' \in Seq(S)
  BY DEF OutcomesRight
<1>2. ASSUME NEW o, OutcomeRight(o)
      PROVE  o.success =>
                /\ o.load_id \in LoadIds
                /\ loads'[o.load_id] # NoRow
                /\ loads'[o.load_id] = [source |-> o.table, accepted |-> o.accepted,
                                        rejected |-> o.rejected]
                /\ o.accepted + o.rejected = o.row_count
  <2> SUFFICES ASSUME o.success
               PROVE  /\ o.load_id \in LoadIds
                      /\ loads'[o.load_id] = loads[o.load_id]
    BY <1>2 DEF OutcomeRight
  <2>1. o.load_id \in LoadIds /\ loads[o.load_id] # NoRow
    BY <1>2 DEF OutcomeRight
  <2> QED
    BY <2>1, LoadsStay
<1> QED
  BY <1>1, <1>2 DEF OutcomesRight, OutcomeRight

LEMMA OutcomeAdded ==
    ASSUME OutcomesRight, UNCHANGED vars, NEW o, outcomes' = Append(outcomes, o),
           OutcomeRight(o)
    PROVE  OutcomesRight'
<1>1. PICK S : outcomes \in Seq(S)
  BY DEF OutcomesRight
<1>2. outcomes \in Seq(S \cup {o})
  BY <1>1
<1>3. outcomes' \in Seq(S \cup {o})
  BY <1>2
<1>4. \A i \in DOMAIN outcomes' : \/ i \in DOMAIN outcomes /\ outcomes'[i] = outcomes[i]
                                \/ outcomes'[i] = o
  BY <1>2
<1>5. UNCHANGED loads
  BY DEF vars, tables
<1> QED
  BY <1>3, <1>4, <1>5 DEF OutcomesRight, OutcomeRight

LEMMA TakenOutcomeRight ==
    ASSUME TypeInv, Accounts, AwaitedBatch, NEW s \in Sessions, posting = s
    PROVE  OutcomeRight(OutcomeOf(Head(remaining), s))
<1> DEFINE b == Head(remaining)
<1>1. posting # Nobody
  BY NobodyAssumption
<1>2. req[s].target_table = b.table /\ req[s].rows = b.rows
  BY <1>1 DEF AwaitedBatch
<1>3. req[s] \in Request
  BY DEF TypeInv, TypeOK
<1> HIDE DEF b
<1>4. CASE answer[s] = "200"
  <2>1. Recorded(s) /\ req[s].load_id \in LoadIds
    BY <1>3, <1>4 DEF Accounts, AccountInv, Request
  <2>2. [source |-> req[s].target_table, accepted |-> req[s].accepted,
         rejected |-> req[s].rejected] \in Load
    BY <1>3 DEF Request, Load
  <2>3. OutcomeOf(b, s) =
          [table |-> b.table, batch_index |-> b.batch_index, row_count |-> Len(b.rows),
           success |-> TRUE, accepted |-> req[s].accepted, rejected |-> req[s].rejected,
           load_id |-> req[s].load_id]
    BY <1>4 DEF OutcomeOf, StoredOutcome, FailedOutcome
  <2>4. loads[req[s].load_id] # NoRow
    BY <2>1, <2>2, NoRowAssumption DEF Recorded
  <2> QED
    BY <1>2, <2>1, <2>3, <2>4 DEF OutcomeRight, Recorded, b
<1>5. CASE answer[s] # "200"
  <2>1. OutcomeOf(b, s).success = FALSE
    BY <1>5 DEF OutcomeOf, FailedOutcome
  <2> QED
    BY <2>1 DEF OutcomeRight, b
<1> QED
  BY <1>4, <1>5

LEMMA ReportStep == TypeInv /\ Accounts /\ ReportInv /\ [LoadNext]_loadVars => ReportInv'
<1> SUFFICES ASSUME TypeInv, Accounts, ReportInv, [LoadNext]_loadVars PROVE ReportInv'
  OBVIOUS
<1>1. AwaitedBatch'
  BY AwaitedStep DEF ReportInv
<1>2. CASE UNCHANGED outcomes
  <2>1. [Next]_vars
    BY ServerNext
  <2>2. OutcomesRight'
    BY <1>2, <2>1, OutcomesStay DEF ReportInv
  <2> QED
    BY <1>1, <2>2 DEF ReportInv
<1>3. CASE StartRun
  <2>1. outcomes' = << >>
    BY <1>3 DEF StartRun
  <2>2. << >> \in Seq({}) /\ DOMAIN << >> = {}
    OBVIOUS
  <2> QED
    BY <1>1, <2>1, <2>2 DEF ReportInv, OutcomesRight
<1>4. ASSUME NEW b, NEW rows, Report(FailedOutcome(b), rows) PROVE ReportInv'
  <2>1. OutcomeRight(FailedOutcome(b))
    BY DEF OutcomeRight, FailedOutcome
  <2> QED
    BY <1>1, <1>4, <2>1, OutcomeAdded DEF Report, ReportInv
<1>5. ASSUME NEW s \in Sessions, TakeAnswer(s) PROVE ReportInv'
  <2>1. OutcomeRight(OutcomeOf(Head(remaining), s))
    BY <1>5, TakenOutcomeRight DEF TakeAnswer, ReportInv
  <2> QED
    BY <1>1, <1>5, <2>1, OutcomeAdded DEF TakeAnswer, Report, ReportInv
<1>6. ASSUME NEW s \in Sessions, PostBatch(s) \/ ServerStep(s) PROVE UNCHANGED outcomes
  BY <1>6 DEF PostBatch, ServerStep, client
<1>7. CASE Refused \/ \E s \in Sessions : GiveUp(s)
  BY <1>4, <1>7 DEF Refused, GiveUp
<1>8. CASE Interrupt \/ FinishRun \/ LoadQuiet \/ UNCHANGED loadVars
  BY <1>2, <1>8 DEF Interrupt, FinishRun, LoadQuiet, loadVars, client
<1> QED
  BY <1>2, <1>3, <1>5, <1>6, <1>7, <1>8 DEF LoadNext, ClientStep

LEMMA ReportInit == LoadInit => ReportInv
<1> SUFFICES ASSUME LoadInit PROVE ReportInv
  OBVIOUS
<1>1. posting = Nobody /\ outcomes = << >>
  BY DEF LoadInit
<1>2. << >> \in Seq({}) /\ DOMAIN << >> = {}
  OBVIOUS
<1> QED
  BY <1>1, <1>2 DEF ReportInv, OutcomesRight, AwaitedBatch

\* A batch reported as a success is committed with the counts that are
\* reported, and they add up to its rows: whichever answers were lost before,
\* and whichever handlers are still at work on uploads that were given up.
THEOREM ReportedLoadsAlwaysCommitted == LoadSpec => []ReportedLoadsCommitted
<1>1. ReportInv => ReportedLoadsCommitted
  BY DEF ReportInv, OutcomesRight, OutcomeRight, ReportedLoadsCommitted
<1>2. Consistent => TypeInv
  BY DEF Consistent
<1> QED
  BY <1>1, <1>2, ReportInit, ReportStep, LoadImplementsIngest, ConsistentAlways, AccountsKept, PTL
  DEF LoadSpec

-----------------------------------------------------------------------------
(***************************************************************************)
(* From the files to the batches.                                          *)
(***************************************************************************)
LEMMA Quotient ==
    ASSUME NEW l \in Nat, NEW m \in Nat \ {0}
    PROVE  LET n == (l + m - 1) \div m
           IN  n \in Nat /\ n * m >= l /\ (n > 0 => (n - 1) * m < l)
OBVIOUS

LEMMA QuotientOf ==
    ASSUME NEW j \in Nat \ {0}, NEW m \in Nat \ {0}
    PROVE  LET k == (j - 1) \div m + 1
           IN  k \in Nat \ {0} /\ (k - 1) * m < j /\ j <= k * m
OBVIOUS

LEMMA TimesMonotone ==
    ASSUME NEW a \in Int, NEW b \in Int, NEW m \in Nat, a <= b
    PROVE  a * m <= b * m
OBVIOUS

LEMMA NextTimes ==
    ASSUME NEW a \in Int, NEW m \in Nat
    PROVE  a * m \in Int /\ a * m = (a - 1) * m + m
OBVIOUS

\* The loop that reads a file ends with a sequence of its lines.
LEMMA LinesAreLines ==
    ASSUME NEW S, NEW file \in Seq(S)
    PROVE  NonBlank(file) \in Seq(S)
<1> DEFINE N == Len(file)
           Kept(x, line) == IF line = Blank THEN x ELSE Append(x, line)
           step == [n \in 1 .. N |-> [x \in Seq(S) |-> Kept(x, file[n])]]
           Body(f) == [n \in 0 .. N |->
                         IF n = 0 THEN << >>
                         ELSE IF file[n] = Blank THEN f[n - 1] ELSE Append(f[n - 1], file[n])]
           lines == CHOOSE f : f = Body(f)
<1>1. N \in Nat
  OBVIOUS
<1>2. ASSUME NEW n \in 1 .. N, NEW x \in Seq(S)
      PROVE  step[n][x] \in Seq(S) /\ step[n][x] = Kept(x, file[n])
  OBVIOUS
<1>3. PICK f \in [0 .. N -> Seq(S)] :
        f[0] = << >> /\ \A n \in 1 .. N : f[n] = step[n][f[n - 1]]
  <2>1. StaysIn(Seq(S), N, step)
    BY <1>2 DEF StaysIn
  <2>2. << >> \in Seq(S)
    OBVIOUS
  <2> HIDE DEF step, N
  <2>3. \E f : Runs(Seq(S), N, << >>, step, f)
    BY <1>1, <2>1, <2>2, Iterates
  <2> QED
    BY <2>3 DEF Runs
<1>4. \A n \in 1 .. N : f[n] = Kept(f[n - 1], file[n])
  <2>1. \A n \in 1 .. N : f[n - 1] \in Seq(S)
    BY <1>1, <1>3
  <2> HIDE DEF step, N, Kept
  <2> QED
    BY <1>2, <1>3, <2>1
<1>5. f = Body(f)
  <2>1. ASSUME NEW n \in 0 .. N
        PROVE  f[n] = IF n = 0 THEN << >>
                      ELSE IF file[n] = Blank THEN f[n - 1] ELSE Append(f[n - 1], file[n])
    <3> HIDE DEF N, step
    <3>1. CASE n = 0
      BY <1>3, <3>1
    <3>2. CASE n # 0
      <4>1. n \in 1 .. N
        BY <1>1, <3>2
      <4>2. f[n] = Kept(f[n - 1], file[n])
        <5> HIDE DEF Kept
        <5> QED
          BY <1>4, <4>1
      <4> QED
        BY <3>2, <4>2
    <3> QED
      BY <3>1, <3>2
  <2> HIDE DEF N
  <2> QED
    BY <1>3, <2>1
<1>6. lines = Body(lines)
  <2> HIDE DEF Body
  <2> QED
    BY <1>5
<1>7. lines[0] = << >> /\ \A n \in 1 .. N : lines[n] = Kept(lines[n - 1], file[n])
  <2> HIDE DEF lines, N
  <2>1. lines[0] = << >>
    BY <1>1, <1>6
  <2>2. ASSUME NEW n \in 1 .. N PROVE lines[n] = Kept(lines[n - 1], file[n])
    <3>1. n \in 0 .. N /\ n # 0
      BY <1>1
    <3> QED
      BY <1>6, <3>1
  <2> QED
    BY <2>1, <2>2
<1>8. 0 .. N \subseteq {n \in 0 .. N : lines[n] \in Seq(S)}
  <2> DEFINE T == {n \in 0 .. N : lines[n] \in Seq(S)}
  <2>1. 0 \in T
    <3>1. << >> \in Seq(S)
      OBVIOUS
    <3> HIDE DEF lines, N
    <3>2. lines[0] \in Seq(S)
      <4> HIDE DEF T
      <4> QED
        BY <1>7, <3>1
    <3> QED
      BY <1>1, <3>2
  <2>2. ASSUME NEW n \in 1 .. N, n - 1 \in T PROVE n \in T
    <3>1. lines[n - 1] \in Seq(S) /\ file[n] \in S /\ n \in 0 .. N
      BY <2>2
    <3>2. Kept(lines[n - 1], file[n]) \in Seq(S)
      BY <3>1
    <3> HIDE DEF lines, Kept, N
    <3> QED
      BY <1>7, <3>1, <3>2
  <2> HIDE DEF T
  <2>3. 0 .. N \subseteq T
    BY <1>1, <2>1, <2>2, UpTo
  <2> QED
    BY <2>3 DEF T
<1>9. lines[N] \in Seq(S)
  <2> HIDE DEF lines, N
  <2> QED
    BY <1>1, <1>8
<1> QED
  BY <1>9 DEF NonBlank

IsSequence(s) == s \in Seq(ToSet(s))

LEMMA Sequences ==
    ASSUME NEW S, NEW s \in Seq(S)
    PROVE  IsSequence(s)
BY DEF IsSequence, ToSet

LEMMA RowsAreRows ==
    ASSUME NEW u \in Uploads, NEW t \in Targets
    PROVE  IsSequence(RowsOf(u, t))
<1>1. CASE u[t] \in {NoUpload, NotAscii}
  <2>1. RowsOf(u, t) = << >>
    BY <1>1 DEF RowsOf
  <2>2. << >> \in Seq({})
    OBVIOUS
  <2> QED
    BY <2>1, <2>2, Sequences
<1>2. CASE u[t] \notin {NoUpload, NotAscii}
  <2> DEFINE lines == NonBlank(u[t])
             S == {ParseRow(t, lines[i]) : i \in 1 .. Len(lines)}
  <2>1. lines \in Seq(ToSet(u[t]))
    BY <1>2, UploadsAssumption, LinesAreLines
  <2>2. RowsOf(u, t) = [i \in 1 .. Len(lines) |-> ParseRow(t, lines[i])]
    BY <1>2 DEF RowsOf, ReadHeaderlessCsv
  <2>3. Len(lines) \in Nat
    <3> HIDE DEF lines
    <3> QED
      BY <2>1
  <2> HIDE DEF lines
  <2>4. RowsOf(u, t) \in Seq(S)
    BY <2>2, <2>3
  <2> QED
    BY <2>4, Sequences
<1> QED
  BY <1>1, <1>2

\* Chunk k of a file begins after k - 1 full ones.
Before(k) == (k - 1) * MaxBatchSize

LEMMA Befores ==
    ASSUME NEW k \in Nat \ {0}
    PROVE  /\ Before(k) \in Nat /\ Before(k + 1) = Before(k) + MaxBatchSize
           /\ k * MaxBatchSize = Before(k + 1)
           /\ \A j \in Nat \ {0} : k <= j => Before(k) <= Before(j)
<1>1. Before(k) \in Nat
  BY BatchSizeAssumption DEF Before
<1>2. k * MaxBatchSize = Before(k + 1) /\ Before(k + 1) = Before(k) + MaxBatchSize
  BY BatchSizeAssumption, NextTimes DEF Before
<1>3. ASSUME NEW j \in Nat \ {0}, k <= j PROVE Before(k) <= Before(j)
  BY <1>3, BatchSizeAssumption, TimesMonotone DEF Before
<1> QED
  BY <1>1, <1>2, <1>3

\* How many chunks there are.
LEMMA HowManyChunks ==
    ASSUME NEW l \in Nat
    PROVE  \E n \in Nat : /\ n = (l + MaxBatchSize - 1) \div MaxBatchSize
                          /\ l <= Before(n + 1)
                          /\ n > 0 => Before(n) < l
<1> DEFINE n == (l + MaxBatchSize - 1) \div MaxBatchSize
<1>1. n \in Nat /\ n * MaxBatchSize >= l /\ (n > 0 => (n - 1) * MaxBatchSize < l)
  BY BatchSizeAssumption, Quotient
<1>2. n * MaxBatchSize = Before(n + 1)
  <2> HIDE DEF n
  <2> QED
    BY <1>1 DEF Before
<1> HIDE DEF n
<1>3. n \in Nat /\ l <= Before(n + 1) /\ (n > 0 => Before(n) < l)
  BY <1>1, <1>2, BatchSizeAssumption DEF Before
<1> QED
  BY <1>3 DEF n

\* chunk is the part of rows that follows the first `before` ones.
PartOf(rows, before, chunk) ==
    /\ IsSequence(chunk)
    /\ before + Len(chunk) <= Len(rows)
    /\ \A j \in 1 .. Len(chunk) : chunk[j] = rows[before + j]

Chunked(rows, chunks) ==
    /\ IsSequence(chunks)
    /\ \A k \in DOMAIN chunks :
         /\ PartOf(rows, Before(k), chunks[k])
         /\ Len(chunks[k]) \in 1 .. MaxBatchSize
         /\ k < Len(chunks) => Before(k + 1) = Before(k) + Len(chunks[k])
         /\ k = Len(chunks) => Len(rows) = Before(k) + Len(chunks[k])
    /\ chunks = << >> => Len(rows) = 0

LEMMA ChunksChunk ==
    ASSUME NEW rows, IsSequence(rows)
    PROVE  Chunked(rows, ChunkRows(rows))
<1> DEFINE l == Len(rows)
           End(k) == IF k * MaxBatchSize < l THEN k * MaxBatchSize ELSE l
           Chunk(k) == SubSeq(rows, Before(k) + 1, End(k))
<1>1. l \in Nat /\ rows \in Seq(ToSet(rows))
  BY DEF IsSequence
<1> HIDE DEF l
<1>2. PICK n \in Nat : /\ n = (l + MaxBatchSize - 1) \div MaxBatchSize
                       /\ l <= Before(n + 1)
                       /\ n > 0 => Before(n) < l
  BY <1>1, HowManyChunks
<1>3. ChunkRows(rows) = [k \in 1 .. n |-> Chunk(k)]
  BY <1>2 DEF ChunkRows, Before, l
<1>4. ASSUME NEW k \in 1 .. n
      PROVE  /\ Before(k) \in Nat /\ Before(k) < l
             /\ Before(k + 1) = Before(k) + MaxBatchSize
             /\ k < n => End(k) = Before(k + 1)
             /\ k = n => End(k) = l
             /\ End(k) \in Before(k) + 1 .. l
             /\ End(k) - Before(k) \in 1 .. MaxBatchSize
  <2>1. /\ k \in Nat \ {0} /\ k + 1 \in Nat \ {0} /\ n \in Nat \ {0} /\ k <= n
        /\ n + 1 \in Nat \ {0} /\ (k < n => k + 1 <= n)
    OBVIOUS
  <2>2. /\ Before(k) \in Nat /\ Before(k + 1) = Before(k) + MaxBatchSize
        /\ k * MaxBatchSize = Before(k + 1)
        /\ Before(k) <= Before(n) /\ Before(n) \in Nat
    BY <2>1, Befores
  <2>3. k < n => Before(k + 1) <= Before(n)
    BY <2>1, Befores
  <2>4. k < n => Before(k + 1) < l
    BY <1>1, <1>2, <2>1, <2>2, <2>3, BatchSizeAssumption
  <2>5. k = n => l <= Before(k + 1)
    BY <1>2
  <2>6. l \in Nat /\ MaxBatchSize \in Nat \ {0} /\ Before(k + 1) \in Nat
    BY <1>1, <1>2, <2>2, BatchSizeAssumption
  <2>7. k < n => End(k) = Before(k + 1)
    BY <2>2, <2>4, <2>6
  <2>8. k = n => End(k) = l
    BY <2>2, <2>5, <2>6
  <2>9. Before(k) < l
    BY <1>2, <2>1, <2>2, <2>6
  <2> HIDE DEF End
  <2>10. End(k) <= l /\ End(k) <= Before(k + 1) /\ End(k) \in Nat
    BY <2>1, <2>4, <2>5, <2>6, <2>7, <2>8
  <2>11. Before(k) < End(k)
    BY <2>1, <2>2, <2>6, <2>7, <2>8, <2>9
  <2> QED
    BY <2>2, <2>6, <2>7, <2>8, <2>9, <2>10, <2>11
<1>5. ASSUME NEW k \in 1 .. n
      PROVE  PartOf(rows, Before(k), Chunk(k)) /\ Len(Chunk(k)) = End(k) - Before(k)
  <2> DEFINE b == Before(k)
             c == End(k)
  <2>1. b \in Nat /\ c \in b + 1 .. l
    BY <1>4
  <2> HIDE DEF b, c
  <2>2. /\ SubSeq(rows, b + 1, c) \in Seq(ToSet(rows))
        /\ Len(SubSeq(rows, b + 1, c)) = c - b
        /\ \A j \in 1 .. c - b : SubSeq(rows, b + 1, c)[j] = rows[b + j]
    BY <1>1, <2>1 DEF l
  <2>3. IsSequence(SubSeq(rows, b + 1, c))
    BY <2>2, Sequences
  <2>4. b + Len(SubSeq(rows, b + 1, c)) <= l
    BY <1>1, <2>1, <2>2
  <2> QED
    BY <2>2, <2>3, <2>4 DEF PartOf, b, c, l
<1> DEFINE chunks == [k \in 1 .. n |-> Chunk(k)]
<1> HIDE DEF Chunk, End
<1>6. IsSequence(chunks) /\ Len(chunks) = n
  <2>1. chunks \in Seq({Chunk(k) : k \in 1 .. n}) /\ Len(chunks) = n
    OBVIOUS
  <2> HIDE DEF chunks
  <2> QED
    BY <2>1, Sequences
<1>7. chunks = << >> => l = 0
  <2> SUFFICES ASSUME chunks = << >> PROVE l = 0
    OBVIOUS
  <2>1. n = 0
    BY <1>6
  <2> QED
    BY <1>1, <1>2, <2>1, BatchSizeAssumption DEF Before
<1>8. ASSUME NEW k \in 1 .. n
      PROVE  /\ PartOf(rows, Before(k), chunks[k])
             /\ Len(chunks[k]) \in 1 .. MaxBatchSize
             /\ k < Len(chunks) => Before(k + 1) = Before(k) + Len(chunks[k])
             /\ k = Len(chunks) => l = Before(k) + Len(chunks[k])
  <2>1. chunks[k] = Chunk(k)
    OBVIOUS
  <2> HIDE DEF chunks
  <2> QED
    BY <1>1, <1>4, <1>5, <1>6, <2>1
<1>9. DOMAIN chunks = 1 .. n
  OBVIOUS
<1> QED
  <2> HIDE DEF chunks
  <2>1. Chunked(rows, chunks)
    BY <1>6, <1>7, <1>8, <1>9 DEF Chunked, l
  <2> QED
    BY <1>3, <2>1 DEF chunks

\* Every row of a file is in one of its chunks.
LEMMA ChunksCover ==
    ASSUME NEW rows, NEW chunks, IsSequence(rows), Chunked(rows, chunks), NEW row \in ToSet(rows)
    PROVE  \E k \in DOMAIN chunks : row \in ToSet(chunks[k])
<1> DEFINE l == Len(rows)
           n == Len(chunks)
<1>1. l \in Nat /\ n \in Nat /\ DOMAIN rows = 1 .. l /\ DOMAIN chunks = 1 .. n
  BY DEF IsSequence, Chunked
<1> HIDE DEF l, n
<1>2. PICK j \in 1 .. l : row = rows[j]
  BY <1>1 DEF ToSet
<1>3. PICK k \in Nat \ {0} : (k - 1) * MaxBatchSize < j /\ j <= k * MaxBatchSize
  <2>1. j \in Nat \ {0} /\ MaxBatchSize \in Nat \ {0}
    BY <1>1, <1>2, BatchSizeAssumption
  <2>2. LET k == (j - 1) \div MaxBatchSize + 1
        IN  k \in Nat \ {0} /\ (k - 1) * MaxBatchSize < j /\ j <= k * MaxBatchSize
    BY <2>1, QuotientOf
  <2> QED
    BY <2>2
<1>4. Before(k) \in Nat /\ Before(k) < j /\ j <= Before(k + 1)
  BY <1>1, <1>2, <1>3, Befores DEF Before
<1>5. n > 0 /\ l <= Before(n + 1) /\ n \in DOMAIN chunks /\ l = Before(n) + Len(chunks[n])
  <2>1. n > 0
    <3>1. n = 0 => chunks = << >>
      BY <1>1 DEF Chunked, IsSequence, n
    <3> QED
      BY <1>1, <1>2, <3>1 DEF Chunked, l
  <2>2. n \in DOMAIN chunks
    BY <1>1, <2>1
  <2>3. l = Before(n) + Len(chunks[n]) /\ Len(chunks[n]) \in 1 .. MaxBatchSize
    BY <2>2 DEF Chunked, l, n
  <2>4. Before(n) \in Nat /\ Before(n + 1) = Before(n) + MaxBatchSize
    BY <1>1, <2>1, Befores
  <2> QED
    BY <2>1, <2>2, <2>3, <2>4, BatchSizeAssumption
<1>6. k <= n
  <2> SUFFICES ASSUME n + 1 <= k PROVE FALSE
    BY <1>1
  <2>1. Before(n + 1) <= Before(k) /\ Before(n + 1) \in Nat
    <3>1. PICK i \in Nat \ {0} : i = n + 1
      BY <1>1
    <3>2. i <= k
      BY <3>1
    <3>3. Before(i) <= Before(k) /\ Before(i) \in Nat
      BY <3>2, Befores
    <3> QED
      BY <3>1, <3>3
  <2> QED
    BY <1>1, <1>2, <1>4, <1>5, <2>1
<1>7. k \in DOMAIN chunks
  BY <1>1, <1>6
<1>8. /\ PartOf(rows, Before(k), chunks[k])
      /\ Len(chunks[k]) \in Nat /\ j <= Before(k) + Len(chunks[k])
  <2>1. /\ PartOf(rows, Before(k), chunks[k])
        /\ Len(chunks[k]) \in 1 .. MaxBatchSize
        /\ k < n => Before(k + 1) = Before(k) + Len(chunks[k])
    BY <1>7 DEF Chunked, n
  <2> QED
    BY <1>1, <1>2, <1>4, <1>5, <1>6, <2>1, BatchSizeAssumption
<1>9. PICK i \in 1 .. Len(chunks[k]) : j = Before(k) + i
  <2>1. j - Before(k) \in 1 .. Len(chunks[k])
    BY <1>1, <1>2, <1>4, <1>8
  <2> QED
    BY <1>4, <2>1
<1>10. chunks[k][i] = row /\ i \in DOMAIN chunks[k]
  BY <1>2, <1>8, <1>9 DEF PartOf, IsSequence
<1> QED
  BY <1>7, <1>10 DEF ToSet

\* Batch b is a piece of the file of its table.
BatchOfFile(u, b) ==
    /\ b.table \in Targets /\ b.batch_index \in Nat
    /\ Len(b.rows) \in 1 .. MaxBatchSize
    /\ PartOf(RowsOf(u, b.table), Before(b.batch_index + 1), b.rows)

\* The batches of one table are the chunks of its file.
TablePlan(u, t, bs) ==
    /\ IsSequence(bs)
    /\ \A k \in DOMAIN bs : bs[k].table = t /\ bs[k].batch_index = k - 1 /\ BatchOfFile(u, bs[k])
    /\ \A row \in ToSet(RowsOf(u, t)) : \E k \in DOMAIN bs : row \in ToSet(bs[k].rows)

\* The batches of table t among bs have that many rows.
RowCount(t, bs, total) ==
    \E count \in [0 .. Len(bs) -> Nat] :
        /\ count[0] = 0 /\ count[Len(bs)] = total
        /\ \A i \in 1 .. Len(bs) :
             count[i] = IF bs[i].table = t THEN count[i - 1] + Len(bs[i].rows) ELSE count[i - 1]

LEMMA TablePlanned ==
    ASSUME NEW u \in Uploads, NEW t \in Targets, NEW bs, bs = TableBatches(u, t)
    PROVE  /\ TablePlan(u, t, bs)
           /\ RowCount(t, bs, Len(RowsOf(u, t)))
           /\ \A o \in Targets \ {t} : RowCount(o, bs, 0)
<1>1. PICK rows : rows = RowsOf(u, t)
  OBVIOUS
<1>2. PICK chunks : chunks = ChunkRows(rows)
  OBVIOUS
<1>3. IsSequence(rows) /\ Chunked(rows, chunks)
  BY <1>1, <1>2, RowsAreRows, ChunksChunk
<1>4. PICK n \in Nat : n = Len(chunks) /\ DOMAIN chunks = 1 .. n
  BY <1>3 DEF Chunked, IsSequence
<1>5. bs = [k \in 1 .. n |-> [table |-> t, batch_index |-> k - 1, rows |-> chunks[k]]]
  BY <1>1, <1>2, <1>4 DEF TableBatches
<1>6. IsSequence(bs) /\ Len(bs) = n /\ DOMAIN bs = 1 .. n
  <2> DEFINE batch(k) == [table |-> t, batch_index |-> k - 1, rows |-> chunks[k]]
  <2>1. bs = [k \in 1 .. n |-> batch(k)]
    BY <1>5
  <2> HIDE DEF batch
  <2>2. bs \in Seq({batch(k) : k \in 1 .. n}) /\ Len(bs) = n /\ DOMAIN bs = 1 .. n
    BY <2>1
  <2> QED
    BY <2>2, Sequences
<1>7. \A k \in 1 .. n : bs[k].table = t /\ bs[k].batch_index = k - 1 /\ bs[k].rows = chunks[k]
  BY <1>5
<1>8. ASSUME NEW k \in 1 .. n PROVE BatchOfFile(u, bs[k])
  <2>1. PartOf(rows, Before(k), chunks[k]) /\ Len(chunks[k]) \in 1 .. MaxBatchSize
    BY <1>3, <1>4 DEF Chunked
  <2>2. k - 1 \in Nat /\ (k - 1) + 1 = k
    OBVIOUS
  <2> QED
    BY <1>1, <1>7, <2>1, <2>2 DEF BatchOfFile
<1>9. TablePlan(u, t, bs)
  <2>1. \A row \in ToSet(RowsOf(u, t)) : \E k \in 1 .. n : row \in ToSet(bs[k].rows)
    BY <1>1, <1>3, <1>4, <1>7, ChunksCover
  <2> QED
    BY <1>6, <1>7, <1>8, <2>1 DEF TablePlan
<1>10. RowCount(t, bs, Len(RowsOf(u, t)))
  <2> DEFINE count == [k \in 0 .. n |-> IF k < n THEN Before(k + 1) ELSE Len(rows)]
  <2>1. Len(rows) \in Nat
    BY <1>3 DEF IsSequence
  <2>2. \A k \in 0 .. n : k < n => Before(k + 1) \in Nat
    BY Befores
  <2>3. count \in [0 .. n -> Nat]
    BY <2>1, <2>2
  <2>4. count[0] = 0 /\ count[n] = Len(rows)
    <3>1. n = 0 => Len(rows) = 0
      BY <1>3, <1>4 DEF Chunked, IsSequence
    <3>2. Before(0 + 1) = 0
      BY BatchSizeAssumption DEF Before
    <3> QED
      BY <3>1, <3>2
  <2>5. ASSUME NEW k \in 1 .. n PROVE count[k] = count[k - 1] + Len(bs[k].rows)
    <3>1. count[k - 1] = Before(k)
      OBVIOUS
    <3>2. /\ k < n => Before(k + 1) = Before(k) + Len(chunks[k])
          /\ k = n => Len(rows) = Before(k) + Len(chunks[k])
      BY <1>3, <1>4 DEF Chunked
    <3>3. count[k] = Before(k) + Len(chunks[k])
      BY <3>2
    <3> HIDE DEF count
    <3> QED
      BY <1>7, <3>1, <3>3
  <2> HIDE DEF count
  <2> QED
    BY <1>1, <1>6, <1>7, <2>3, <2>4, <2>5 DEF RowCount
<1>11. ASSUME NEW o \in Targets, o # t PROVE RowCount(o, bs, 0)
  <2> DEFINE count == [k \in 0 .. n |-> 0]
  <2>1. /\ count \in [0 .. n -> Nat] /\ count[0] = 0 /\ count[n] = 0
        /\ \A k \in 1 .. n : count[k] = count[k - 1]
    OBVIOUS
  <2> HIDE DEF count
  <2> QED
    BY <1>6, <1>7, <1>11, <2>1 DEF RowCount
<1> QED
  BY <1>9, <1>10, <1>11

LEMMA RowCountsAdd ==
    ASSUME NEW t, NEW first, NEW second, IsSequence(first), IsSequence(second),
           \A i \in DOMAIN second : Len(second[i].rows) \in Nat,
           NEW x \in Nat, NEW y \in Nat, RowCount(t, first, x), RowCount(t, second, y)
    PROVE  RowCount(t, first \o second, x + y)
<1>1. PICK m \in Nat, n \in Nat : m = Len(first) /\ n = Len(second)
  BY DEF IsSequence
<1>2. /\ Len(first \o second) = m + n
      /\ \A i \in 1 .. m : (first \o second)[i] = first[i]
      /\ \A i \in m + 1 .. m + n : (first \o second)[i] = second[i - m]
  BY <1>1 DEF IsSequence
<1>3. PICK c \in [0 .. m -> Nat] :
        /\ c[0] = 0 /\ c[m] = x
        /\ \A i \in 1 .. m :
             c[i] = IF first[i].table = t THEN c[i - 1] + Len(first[i].rows) ELSE c[i - 1]
  BY <1>1 DEF RowCount
<1>4. PICK d \in [0 .. n -> Nat] :
        /\ d[0] = 0 /\ d[n] = y
        /\ \A i \in 1 .. n :
             d[i] = IF second[i].table = t THEN d[i - 1] + Len(second[i].rows) ELSE d[i - 1]
  BY <1>1 DEF RowCount
<1> DEFINE count == [i \in 0 .. m + n |-> IF i <= m THEN c[i] ELSE x + d[i - m]]
<1>5. count \in [0 .. m + n -> Nat]
  OBVIOUS
<1>6. count[0] = 0 /\ count[m + n] = x + y
  BY <1>3, <1>4
<1>7. ASSUME NEW i \in 1 .. m + n, NEW b, b = (first \o second)[i]
      PROVE  count[i] = IF b.table = t THEN count[i - 1] + Len(b.rows) ELSE count[i - 1]
  <2>1. CASE i <= m
    <3>0. i \in 1 .. m
      BY <1>7, <2>1
    <3>1. i \in 1 .. m /\ b = first[i]
      BY <1>2, <1>7, <3>0
    <3>2. count[i] = c[i] /\ count[i - 1] = c[i - 1]
      BY <2>1
    <3> HIDE DEF count
    <3> QED
      BY <1>3, <3>1, <3>2
  <2>2. CASE i > m
    <3>1. i - m \in 1 .. n /\ b = second[i - m]
      <4>1. i \in m + 1 .. m + n /\ i - m \in 1 .. n
        BY <2>2
      <4> QED
        BY <1>2, <1>7, <4>1
    <3>2. count[i] = x + d[i - m]
      BY <2>2
    <3>3. count[i - 1] = x + d[i - m - 1]
      <4>1. CASE i - 1 = m
        BY <1>3, <1>4, <4>1
      <4>2. CASE i - 1 # m
        <5>1. i - 1 > m /\ i - 1 - m = i - m - 1
          BY <2>2, <4>2
        <5> QED
          BY <5>1
      <4> QED
        BY <4>1, <4>2
    <3>4. d[i - m] = IF b.table = t THEN d[i - m - 1] + Len(b.rows) ELSE d[i - m - 1]
      BY <1>4, <3>1
    <3> HIDE DEF count
    <3>5. d[i - m - 1] \in Nat /\ d[i - m] \in Nat /\ Len(b.rows) \in Nat
      <4>1. DOMAIN second = 1 .. n
        BY <1>1 DEF IsSequence
      <4> QED
        BY <1>4, <3>1, <4>1
    <3>6. CASE b.table = t
      <4>1. d[i - m] = d[i - m - 1] + Len(b.rows)
        BY <3>4, <3>6
      <4>2. PICK before \in Nat, more \in Nat, after \in Nat :
              before = d[i - m - 1] /\ more = Len(b.rows) /\ after = d[i - m]
        BY <3>5
      <4>3. x + after = x + before + more
        <5>1. after = before + more
          BY <4>1, <4>2
        <5> QED
          BY <5>1
      <4>4. x + d[i - m] = x + d[i - m - 1] + Len(b.rows)
        BY <4>2, <4>3
      <4> QED
        BY <3>2, <3>3, <3>6, <4>4
    <3> QED
      BY <3>2, <3>3, <3>4, <3>6
  <2> QED
    BY <2>1, <2>2
<1> HIDE DEF count
<1> DEFINE both == first \o second
<1>8. \A i \in 1 .. m + n :
         count[i] = IF both[i].table = t THEN count[i - 1] + Len(both[i].rows) ELSE count[i - 1]
  BY <1>7
<1>9. Len(both) = m + n
  BY <1>2
<1> HIDE DEF both
<1>10. RowCount(t, both, x + y)
  <2>1. PICK total : total = x + y
    OBVIOUS
  <2>2. count \in [0 .. Len(both) -> Nat] /\ count[0] = 0 /\ count[Len(both)] = total
    BY <1>5, <1>6, <1>9, <2>1
  <2>3. \A i \in 1 .. Len(both) :
          count[i] = IF both[i].table = t THEN count[i - 1] + Len(both[i].rows) ELSE count[i - 1]
    BY <1>8, <1>9
  <2>4. RowCount(t, both, total)
    BY <2>2, <2>3 DEF RowCount
  <2> QED
    BY <2>1, <2>4
<1> QED
  BY <1>10 DEF both

\* The batches of the tables T of an upload: every row of their files is in one
\* of them, no two have the same table and number, and the hires come last.
Plan(u, T, bs) ==
    /\ IsSequence(bs)
    /\ \A i \in DOMAIN bs : bs[i].table \in T /\ BatchOfFile(u, bs[i])
    /\ \A i, j \in DOMAIN bs :
         bs[i].table = bs[j].table /\ bs[i].batch_index = bs[j].batch_index => i = j
    /\ \A i, j \in DOMAIN bs : i < j /\ bs[i].table = Hires => bs[j].table = Hires
    /\ \A t \in T : \A row \in ToSet(RowsOf(u, t)) :
         \E i \in DOMAIN bs : bs[i].table = t /\ row \in ToSet(bs[i].rows)
    /\ \A t \in T : RowCount(t, bs, Len(RowsOf(u, t)))
    /\ \A t \in Targets \ T : RowCount(t, bs, 0)

LEMMA TableIsPlan ==
    ASSUME NEW u \in Uploads, NEW t \in Targets, NEW bs, bs = TableBatches(u, t)
    PROVE  Plan(u, {t}, bs)
<1>1. /\ TablePlan(u, t, bs)
      /\ RowCount(t, bs, Len(RowsOf(u, t)))
      /\ \A o \in Targets \ {t} : RowCount(o, bs, 0)
  BY TablePlanned
<1>2. DOMAIN bs \subseteq Nat
  BY <1>1 DEF TablePlan, IsSequence
<1>3. \A i, j \in DOMAIN bs :
         bs[i].table = bs[j].table /\ bs[i].batch_index = bs[j].batch_index => i = j
  BY <1>1, <1>2 DEF TablePlan
<1> QED
  BY <1>1, <1>3 DEF TablePlan, Plan

LEMMA PlansJoin ==
    ASSUME NEW u \in Uploads, NEW T, NEW U, T \subseteq Targets, U \subseteq Targets,
           T \cap U = {}, Hires \notin T, NEW first, NEW second,
           Plan(u, T, first), Plan(u, U, second)
    PROVE  Plan(u, T \cup U, first \o second)
<1>1. PICK m \in Nat, n \in Nat : m = Len(first) /\ n = Len(second)
  BY DEF Plan, IsSequence
<1>2. DOMAIN first = 1 .. m /\ DOMAIN second = 1 .. n
  BY <1>1 DEF Plan, IsSequence
<1> DEFINE S == ToSet(first) \cup ToSet(second)
<1>3. first \in Seq(S) /\ second \in Seq(S)
  BY DEF Plan, IsSequence
<1> HIDE DEF S
<1>4. PICK both \in Seq(S) :
         /\ both = first \o second
         /\ DOMAIN both = 1 .. m + n
         /\ \A i \in 1 .. m : both[i] = first[i]
         /\ \A i \in 1 .. n : both[m + i] = second[i]
  <2>1. /\ first \o second \in Seq(S)
        /\ DOMAIN (first \o second) = 1 .. m + n
        /\ \A i \in 1 .. m : (first \o second)[i] = first[i]
    BY <1>1, <1>3
  <2>2. ASSUME NEW i \in 1 .. n PROVE (first \o second)[m + i] = second[i]
    <3>1. m + i \in m + 1 .. m + n /\ (m + i) - m = i
      OBVIOUS
    <3> QED
      BY <1>1, <1>3, <3>1
  <2> QED
    BY <2>1, <2>2
<1>5. ASSUME NEW i \in 1 .. m + n
      PROVE  \/ i \in 1 .. m /\ both[i] = first[i] /\ both[i].table \in T
             \/ /\ i - m \in 1 .. n /\ i > m
                /\ both[i] = second[i - m] /\ both[i].table \in U
  <2>1. CASE i <= m
    <3>1. i \in 1 .. m
      BY <2>1
    <3> QED
      BY <1>2, <1>4, <3>1 DEF Plan
  <2>2. CASE i > m
    <3>1. i - m \in 1 .. n /\ m + (i - m) = i
      BY <2>2
    <3>2. both[i] = second[i - m]
      BY <1>4, <3>1
    <3> QED
      BY <1>2, <2>2, <3>1, <3>2 DEF Plan
  <2> QED
    BY <2>1, <2>2
<1>6. ASSUME NEW i \in 1 .. m + n PROVE both[i].table \in T \cup U /\ BatchOfFile(u, both[i])
  <2>1. CASE i \in 1 .. m /\ both[i] = first[i] /\ both[i].table \in T
    BY <1>2, <2>1 DEF Plan
  <2>2. CASE i - m \in 1 .. n /\ both[i] = second[i - m] /\ both[i].table \in U
    BY <1>2, <2>2 DEF Plan
  <2> QED
    BY <1>5, <2>1, <2>2
<1>7. ASSUME NEW i \in 1 .. m + n, NEW j \in 1 .. m + n,
             both[i].table = both[j].table, both[i].batch_index = both[j].batch_index
      PROVE  i = j
  <2>1. CASE i \in 1 .. m /\ j \in 1 .. m
    <3>1. both[i] = first[i] /\ both[j] = first[j]
      BY <1>4, <2>1
    <3> QED
      BY <1>2, <1>7, <2>1, <3>1 DEF Plan
  <2>2. CASE i - m \in 1 .. n /\ j - m \in 1 .. n /\ i > m /\ j > m
    <3>1. both[i] = second[i - m] /\ both[j] = second[j - m]
      BY <1>5, <2>2
    <3>2. PICK k \in 1 .. n, l \in 1 .. n : k = i - m /\ l = j - m
      BY <2>2
    <3>3. second[k].table = second[l].table /\ second[k].batch_index = second[l].batch_index
      BY <1>7, <3>1, <3>2
    <3>4. k = l
      BY <1>2, <3>2, <3>3 DEF Plan
    <3> QED
      BY <3>2, <3>4
  <2> QED
    BY <1>5, <1>7, <2>1, <2>2
<1>8. ASSUME NEW i \in 1 .. m + n, NEW j \in 1 .. m + n, i < j, both[i].table = Hires
      PROVE  both[j].table = Hires
  <2>1. /\ i - m \in 1 .. n /\ i > m /\ both[i] = second[i - m]
    BY <1>5, <1>8
  <2>2. j - m \in 1 .. n /\ i - m < j - m /\ j > m
    BY <1>8, <2>1
  <2>3. both[j] = second[j - m]
    BY <1>5, <2>2
  <2> QED
    BY <1>2, <1>8, <2>1, <2>2, <2>3 DEF Plan
<1>9. ASSUME NEW t \in T \cup U, NEW row \in ToSet(RowsOf(u, t))
      PROVE  \E i \in 1 .. m + n : both[i].table = t /\ row \in ToSet(both[i].rows)
  <2>1. CASE t \in T
    <3>1. PICK i \in 1 .. m : first[i].table = t /\ row \in ToSet(first[i].rows)
      BY <1>2, <2>1 DEF Plan
    <3>2. i \in 1 .. m + n /\ both[i] = first[i]
      BY <1>4
    <3> QED
      BY <3>1, <3>2
  <2>2. CASE t \in U
    <3>1. PICK i \in 1 .. n : second[i].table = t /\ row \in ToSet(second[i].rows)
      BY <1>2, <2>2 DEF Plan
    <3>2. m + i \in 1 .. m + n /\ both[m + i] = second[i]
      <4>1. m + i \in 1 .. m + n
        OBVIOUS
      <4> QED
        BY <1>4, <4>1
    <3> QED
      BY <3>1, <3>2
  <2> QED
    BY <2>1, <2>2
<1>10. \A i \in DOMAIN second : Len(second[i].rows) \in Nat
  BY BatchSizeAssumption DEF Plan, BatchOfFile
<1>11. ASSUME NEW t, NEW x \in Nat, NEW y \in Nat, RowCount(t, first, x), RowCount(t, second, y)
       PROVE  RowCount(t, both, x + y)
  <2>1. IsSequence(first) /\ IsSequence(second)
    BY DEF Plan
  <2> QED
    BY <1>4, <1>10, <1>11, <2>1, RowCountsAdd
<1>12. ASSUME NEW t \in Targets PROVE Len(RowsOf(u, t)) \in Nat
  BY RowsAreRows DEF IsSequence
<1>13. ASSUME NEW t \in T PROVE RowCount(t, both, Len(RowsOf(u, t)))
  <2>1. RowCount(t, first, Len(RowsOf(u, t))) /\ RowCount(t, second, 0)
    BY DEF Plan
  <2>2. RowCount(t, both, Len(RowsOf(u, t)) + 0)
    BY <1>11, <1>12, <2>1
  <2> QED
    BY <1>12, <2>2
<1>14. ASSUME NEW t \in U PROVE RowCount(t, both, Len(RowsOf(u, t)))
  <2>1. RowCount(t, first, 0) /\ RowCount(t, second, Len(RowsOf(u, t)))
    BY DEF Plan
  <2>2. RowCount(t, both, 0 + Len(RowsOf(u, t)))
    BY <1>11, <1>12, <2>1
  <2> QED
    BY <1>12, <2>2
<1>15. ASSUME NEW t \in Targets \ (T \cup U) PROVE RowCount(t, both, 0)
  <2>1. RowCount(t, first, 0) /\ RowCount(t, second, 0)
    BY DEF Plan
  <2>2. RowCount(t, both, 0 + 0)
    BY <1>11, <2>1
  <2> QED
    BY <2>2
<1>16. IsSequence(both)
  BY <1>4, Sequences
<1>17. Plan(u, T \cup U, both)
  <2>1. DOMAIN both = 1 .. m + n
    BY <1>4
  <2>2. \A t \in T \cup U : RowCount(t, both, Len(RowsOf(u, t)))
    BY <1>13, <1>14
  <2>3. \A i, j \in DOMAIN both :
           both[i].table = both[j].table /\ both[i].batch_index = both[j].batch_index => i = j
    BY <1>7, <2>1
  <2>4. \A i, j \in DOMAIN both : i < j /\ both[i].table = Hires => both[j].table = Hires
    BY <1>8, <2>1
  <2> QED
    BY <1>6, <1>9, <1>15, <1>16, <2>1, <2>2, <2>3, <2>4 DEF Plan
<1> QED
  BY <1>4, <1>17

\* The loops over TABLE_ORDER post every row of the files, the hires last.
LEMMA UploadIsPlanned ==
    ASSUME NEW u \in Uploads
    PROVE  Plan(u, Targets, BatchesOf(u))
<1>1. PICK d, j, h : /\ d = TableBatches(u, "departments")
                     /\ j = TableBatches(u, "jobs")
                     /\ h = TableBatches(u, Hires)
  OBVIOUS
<1>2. /\ "departments" \in Targets /\ "jobs" \in Targets /\ Hires \in Targets
      /\ Hires \notin {"departments"} \cup {"jobs"}
      /\ Targets = ({"departments"} \cup {"jobs"}) \cup {Hires}
      /\ {"departments"} \cap {"jobs"} = {} /\ ({"departments"} \cup {"jobs"}) \cap {Hires} = {}
  BY DEF Targets, DimensionTables, Hires
<1>3. Plan(u, {"departments"}, d) /\ Plan(u, {"jobs"}, j) /\ Plan(u, {Hires}, h)
  BY <1>1, <1>2, TableIsPlan
<1>4. Plan(u, {"departments"} \cup {"jobs"}, d \o j)
  BY <1>2, <1>3, PlansJoin
<1>5. Plan(u, ({"departments"} \cup {"jobs"}) \cup {Hires}, (d \o j) \o h)
  BY <1>2, <1>3, <1>4, PlansJoin
<1>6. BatchesOf(u) = (d \o j) \o h
  BY <1>1 DEF BatchesOf, TableOrder
<1> QED
  BY <1>2, <1>5, <1>6

-----------------------------------------------------------------------------
(***************************************************************************)
(* How far a run has come.                                                 *)
(***************************************************************************)
ReportsOn(o, b) ==
    o.table = b.table /\ o.batch_index = b.batch_index /\ o.row_count = Len(b.rows)

\* outs report on the first batches of upload u, and rem are the other ones.
Progress(u, outs, rem) ==
    /\ outs \in Seq(BatchOutcome) /\ IsSequence(rem)
    /\ Len(outs) + Len(rem) = Len(BatchesOf(u))
    /\ \A i \in DOMAIN outs : ReportsOn(outs[i], BatchesOf(u)[i])
    /\ \A i \in DOMAIN rem : rem[i] = BatchesOf(u)[Len(outs) + i]

\* Rejected row r names a row of a file of upload u.
InFile(u, r) ==
    /\ r.file_row \in DOMAIN RowsOf(u, r.table)
    /\ RowsOf(u, r.table)[r.file_row] = r.raw_payload

\* r belongs to the batch that outcome o reports on.
BelongsTo(r, o) == r.table = o.table /\ r.batch_index = o.batch_index

RejectedIn(rejs, o) == {r.row_index : r \in {q \in ToSet(rejs) : BelongsTo(q, o)}}

\* rows are the rejected rows of the batch that o reports on.
RowsFit(u, o, rows) ==
    /\ IsSequence(rows)
    /\ \A r \in ToSet(rows) : BelongsTo(r, o) /\ InFile(u, r)
    /\ Cardinality({r.row_index : r \in ToSet(rows)}) = o.rejected

\* rejs are the rejected rows of the batches that outs report on.
Accounted(u, outs, rejs) ==
    /\ IsSequence(rejs)
    /\ \A r \in ToSet(rejs) : InFile(u, r) /\ \E i \in DOMAIN outs : BelongsTo(r, outs[i])
    /\ \A i \in DOMAIN outs : Cardinality(RejectedIn(rejs, outs[i])) = outs[i].rejected

LEMMA BatchesAreBatches ==
    ASSUME NEW u \in Uploads
    PROVE  /\ Len(BatchesOf(u)) \in Nat
           /\ DOMAIN BatchesOf(u) = 1 .. Len(BatchesOf(u))
           /\ BatchesOf(u) \in Seq(ToSet(BatchesOf(u)))
           /\ \A i \in DOMAIN BatchesOf(u) : BatchOfFile(u, BatchesOf(u)[i])
<1>1. Plan(u, Targets, BatchesOf(u))
  BY UploadIsPlanned
<1> QED
  BY <1>1 DEF Plan, IsSequence

LEMMA RunBegins ==
    ASSUME NEW u \in Uploads
    PROVE  Progress(u, << >>, BatchesOf(u)) /\ Accounted(u, << >>, << >>)
<1>1. PICK B : B = BatchesOf(u)
  OBVIOUS
<1>2. Len(B) \in Nat /\ DOMAIN B = 1 .. Len(B) /\ IsSequence(B)
  BY <1>1, BatchesAreBatches DEF IsSequence
<1>3. /\ << >> \in Seq(BatchOutcome) /\ Len(<< >>) = 0 /\ DOMAIN << >> = {}
      /\ ToSet(<< >>) = {}
  BY DEF ToSet
<1>4. IsSequence(<< >>)
  BY DEF IsSequence
<1>5. Progress(u, << >>, B)
  BY <1>1, <1>2, <1>3 DEF Progress
<1>6. Accounted(u, << >>, << >>)
  BY <1>3, <1>4 DEF Accounted
<1> QED
  BY <1>1, <1>5, <1>6

LEMMA NextBatch ==
    ASSUME NEW u \in Uploads, NEW outs, NEW rem, Progress(u, outs, rem), rem # << >>
    PROVE  /\ Len(outs) + 1 \in DOMAIN BatchesOf(u)
           /\ Head(rem) = BatchesOf(u)[Len(outs) + 1]
           /\ BatchOfFile(u, Head(rem))
<1>1. PICK B : B = BatchesOf(u)
  OBVIOUS
<1>2. Len(B) \in Nat /\ DOMAIN B = 1 .. Len(B) /\ \A i \in DOMAIN B : BatchOfFile(u, B[i])
  BY <1>1, BatchesAreBatches
<1>3. /\ Len(outs) \in Nat /\ Len(rem) \in Nat /\ Len(rem) > 0
      /\ 1 \in DOMAIN rem /\ Head(rem) = rem[1]
  BY DEF Progress, IsSequence
<1>4. Len(outs) + Len(rem) = Len(B) /\ rem[1] = B[Len(outs) + 1]
  BY <1>1, <1>3 DEF Progress
<1>5. Len(outs) + 1 \in DOMAIN B
  BY <1>2, <1>3, <1>4
<1> QED
  BY <1>1, <1>2, <1>3, <1>4, <1>5

LEMMA NextReported ==
    ASSUME NEW u \in Uploads, NEW outs, NEW rem, Progress(u, outs, rem), rem # << >>,
           NEW o \in BatchOutcome, ReportsOn(o, Head(rem))
    PROVE  Progress(u, Append(outs, o), Tail(rem))
<1>1. PICK B : B = BatchesOf(u)
  OBVIOUS
<1>2. Head(rem) = B[Len(outs) + 1]
  BY <1>1, NextBatch
<1>3. PICK m \in Nat, n \in Nat : m = Len(outs) /\ n = Len(rem)
  BY DEF Progress, IsSequence
<1>4. n > 0 /\ m + n = Len(B)
  BY <1>1, <1>3 DEF Progress, IsSequence
<1>5. PICK outs1 : outs1 = Append(outs, o)
  OBVIOUS
<1>6. /\ outs1 \in Seq(BatchOutcome) /\ Len(outs1) = m + 1 /\ DOMAIN outs1 = 1 .. m + 1
      /\ outs1[m + 1] = o /\ \A i \in 1 .. m : outs1[i] = outs[i]
  BY <1>3, <1>5 DEF Progress
<1>7. PICK rem1 : rem1 = Tail(rem)
  OBVIOUS
<1>8. /\ rem1 \in Seq(ToSet(rem)) /\ Len(rem1) = n - 1 /\ DOMAIN rem1 = 1 .. n - 1
      /\ \A i \in 1 .. n - 1 : rem1[i] = rem[i + 1]
  BY <1>3, <1>4, <1>7 DEF Progress, IsSequence
<1>9. ASSUME NEW i \in 1 .. m + 1 PROVE ReportsOn(outs1[i], B[i])
  <2>1. CASE i = m + 1
    BY <1>2, <1>3, <1>6, <2>1
  <2>2. CASE i # m + 1
    <3>1. i \in 1 .. m
      BY <2>2
    <3>2. DOMAIN outs = 1 .. m
      BY <1>3 DEF Progress
    <3> QED
      BY <1>1, <1>6, <3>1, <3>2 DEF Progress
  <2> QED
    BY <2>1, <2>2
<1>10. ASSUME NEW i \in 1 .. n - 1 PROVE rem1[i] = B[(m + 1) + i]
  <2>1. i + 1 \in DOMAIN rem /\ m + (i + 1) = (m + 1) + i
    BY <1>3 DEF Progress, IsSequence
  <2>2. rem[i + 1] = B[m + (i + 1)]
    BY <1>1, <1>3, <2>1 DEF Progress
  <2> QED
    BY <1>8, <2>1, <2>2
<1>11. IsSequence(rem1) /\ (m + 1) + (n - 1) = Len(B)
  <2>1. IsSequence(rem1)
    BY <1>8, Sequences
  <2>2. (m + 1) + (n - 1) = m + n
    OBVIOUS
  <2> QED
    BY <1>4, <2>1, <2>2
<1>12. Progress(u, outs1, rem1)
  BY <1>1, <1>6, <1>8, <1>9, <1>10, <1>11 DEF Progress
<1> QED
  BY <1>5, <1>7, <1>12

\* No two outcomes are about the same batch.
LEMMA OutcomesApart ==
    ASSUME NEW u \in Uploads, NEW outs, NEW rem, Progress(u, outs, rem),
           NEW i \in DOMAIN outs, NEW j \in DOMAIN outs,
           outs[i].table = outs[j].table, outs[i].batch_index = outs[j].batch_index
    PROVE  i = j
<1>1. PICK B : B = BatchesOf(u)
  OBVIOUS
<1>2. Plan(u, Targets, B)
  BY <1>1, UploadIsPlanned
<1>3. DOMAIN outs \subseteq DOMAIN B
  <2>1. /\ DOMAIN outs = 1 .. Len(outs) /\ DOMAIN B = 1 .. Len(B)
        /\ Len(outs) \in Nat /\ Len(rem) \in Nat /\ Len(B) \in Nat
    BY <1>2 DEF Progress, Plan, IsSequence
  <2>2. Len(outs) + Len(rem) = Len(B)
    BY <1>1 DEF Progress
  <2> QED
    BY <2>1, <2>2
<1>4. ReportsOn(outs[i], B[i]) /\ ReportsOn(outs[j], B[j])
  BY <1>1 DEF Progress
<1>5. B[i].table = B[j].table /\ B[i].batch_index = B[j].batch_index
  BY <1>4 DEF ReportsOn
<1> QED
  BY <1>2, <1>3, <1>5 DEF Plan

LEMMA RowsAccounted ==
    ASSUME NEW u \in Uploads, NEW outs, NEW rem, Progress(u, outs, rem),
           NEW rejs, Accounted(u, outs, rejs), rem # << >>,
           NEW o \in BatchOutcome, ReportsOn(o, Head(rem)), NEW rows, RowsFit(u, o, rows)
    PROVE  Accounted(u, Append(outs, o), rejs \o rows)
<1>1. PICK outs1 : outs1 = Append(outs, o)
  OBVIOUS
<1>2. Progress(u, outs1, Tail(rem))
  BY <1>1, NextReported
<1>3. PICK m \in Nat : m = Len(outs)
  BY DEF Progress
<1>4. /\ DOMAIN outs1 = 1 .. m + 1 /\ DOMAIN outs = 1 .. m
      /\ outs1[m + 1] = o /\ \A i \in 1 .. m : outs1[i] = outs[i]
  BY <1>1, <1>3 DEF Progress
<1>5. PICK all : all = rejs \o rows
  OBVIOUS
<1>6. IsSequence(all) /\ ToSet(all) = ToSet(rejs) \cup ToSet(rows)
  <2> DEFINE S == ToSet(rejs) \cup ToSet(rows)
  <2>1. rejs \in Seq(S) /\ rows \in Seq(S)
    BY DEF Accounted, RowsFit, IsSequence
  <2> HIDE DEF S
  <2>2. all \in Seq(S)
    BY <1>5, <2>1
  <2>3. ToSet(rejs \o rows) = ToSet(rejs) \cup ToSet(rows)
    <3>1. ASSUME NEW x \in ToSet(rejs \o rows) PROVE x \in ToSet(rejs) \cup ToSet(rows)
      BY <2>1, <3>1 DEF ToSet
    <3>2. ASSUME NEW x \in ToSet(rejs) PROVE x \in ToSet(rejs \o rows)
      BY <2>1, <3>2 DEF ToSet
    <3>3. ASSUME NEW x \in ToSet(rows) PROVE x \in ToSet(rejs \o rows)
      <4>1. PICK i \in 1 .. Len(rows) : x = rows[i]
        BY <2>1, <3>3 DEF ToSet
      <4>2. /\ Len(rejs) + i \in DOMAIN (rejs \o rows)
            /\ (rejs \o rows)[Len(rejs) + i] = rows[i]
        BY <2>1
      <4> QED
        BY <4>1, <4>2 DEF ToSet
    <3> QED
      BY <3>1, <3>2, <3>3
  <2> QED
    BY <1>5, <2>2, <2>3, Sequences
<1>7. ASSUME NEW r \in ToSet(all)
      PROVE  InFile(u, r) /\ \E i \in 1 .. m + 1 : BelongsTo(r, outs1[i])
  <2>1. CASE r \in ToSet(rows)
    BY <1>4, <2>1 DEF RowsFit
  <2>2. CASE r \in ToSet(rejs)
    <3>1. PICK i \in 1 .. m : BelongsTo(r, outs[i])
      BY <1>4, <2>2 DEF Accounted
    <3>2. i \in 1 .. m + 1 /\ outs1[i] = outs[i]
      BY <1>4
    <3> QED
      BY <2>2, <3>1, <3>2 DEF Accounted
  <2> QED
    BY <1>6, <2>1, <2>2
<1>8. ASSUME NEW i \in 1 .. m PROVE Cardinality(RejectedIn(all, outs1[i])) = outs1[i].rejected
  <2>1. ASSUME NEW r \in ToSet(rows) PROVE ~ BelongsTo(r, outs1[i])
    <3>1. i \in DOMAIN outs1 /\ m + 1 \in DOMAIN outs1 /\ i # m + 1
      BY <1>4
    <3>2. ~ (outs1[i].table = outs1[m + 1].table /\ outs1[i].batch_index = outs1[m + 1].batch_index)
      BY <1>2, <3>1, OutcomesApart
    <3> QED
      BY <1>4, <3>2 DEF RowsFit, BelongsTo
  <2>2. RejectedIn(all, outs1[i]) = RejectedIn(rejs, outs1[i])
    BY <1>6, <2>1 DEF RejectedIn
  <2> QED
    BY <1>4, <2>2 DEF Accounted
<1>9. Cardinality(RejectedIn(all, o)) = o.rejected
  <2>1. ASSUME NEW r \in ToSet(rejs) PROVE ~ BelongsTo(r, o)
    <3>1. PICK i \in 1 .. m : BelongsTo(r, outs[i])
      BY <1>4 DEF Accounted
    <3>2. i \in DOMAIN outs1 /\ m + 1 \in DOMAIN outs1 /\ i # m + 1 /\ outs1[i] = outs[i]
      BY <1>4
    <3>3. ~ (outs1[i].table = outs1[m + 1].table /\ outs1[i].batch_index = outs1[m + 1].batch_index)
      BY <1>2, <3>2, OutcomesApart
    <3> QED
      BY <1>4, <3>1, <3>2, <3>3 DEF BelongsTo
  <2>2. RejectedIn(all, o) = {r.row_index : r \in ToSet(rows)}
    BY <1>6, <2>1 DEF RejectedIn, RowsFit
  <2> QED
    BY <2>2 DEF RowsFit
<1>10. \A i \in 1 .. m + 1 : Cardinality(RejectedIn(all, outs1[i])) = outs1[i].rejected
  <2>1. \A i \in 1 .. m + 1 : i \in 1 .. m \/ i = m + 1
    OBVIOUS
  <2> QED
    BY <1>4, <1>8, <1>9, <2>1
<1>11. Accounted(u, outs1, all)
  BY <1>4, <1>6, <1>7, <1>10 DEF Accounted
<1> QED
  BY <1>1, <1>5, <1>11

-----------------------------------------------------------------------------
(***************************************************************************)
(* What a response says of the rejected rows.                              *)
(***************************************************************************)

\* rejected_rows of the response has an entry for each rejected record, with
\* the index of its row: as many different ones as the handler has counted.
ResponseInv(s) ==
    /\ response[s] \in Seq(Nat)
    /\ Len(response[s]) = Len(req[s].rejects)
    /\ \A i \in DOMAIN response[s] :
         response[s][i] + 1 < req[s].row_index /\ response[s][i] < Len(req[s].rows)
    /\ Cardinality(ToSet(response[s])) = req[s].rejected

Responses ==
    /\ response \in [Sessions -> Seq(Nat)]
    /\ \A s \in Sessions : ResponseInv(s)

LEMMA ResponsesInit == LoadInit => Responses
<1> SUFFICES ASSUME LoadInit PROVE Responses
  OBVIOUS
<1>1. response = [s \in Sessions |-> << >>] /\ req = [s \in Sessions |-> NoRequest]
  BY DEF LoadInit, Init
<1>2. << >> \in Seq(Nat) /\ Len(<< >>) = 0 /\ DOMAIN << >> = {} /\ ToSet(<< >>) = {}
  BY DEF ToSet
<1>3. ASSUME NEW s \in Sessions PROVE ResponseInv(s)
  <2>1. response[s] = << >> /\ req[s].rejects = << >> /\ req[s].rejected = 0
    BY <1>1 DEF NoRequest
  <2>2. Cardinality({}) = 0
    BY FS_EmptySet
  <2> QED
    BY <1>2, <2>1, <2>2 DEF ResponseInv
<1> QED
  BY <1>1, <1>2, <1>3 DEF Responses

\* n further entries with the index of one row.
LEMMA EntriesAdded ==
    ASSUME NEW indexes \in Seq(Nat), NEW n \in Nat \ {0}, NEW index \in Nat,
           \A i \in DOMAIN indexes : indexes[i] < index
    PROVE  LET all == indexes \o [i \in 1 .. n |-> index]
           IN  /\ all \in Seq(Nat) /\ Len(all) = Len(indexes) + n
               /\ \A i \in DOMAIN all : all[i] <= index
               /\ Cardinality(ToSet(all)) = Cardinality(ToSet(indexes)) + 1
               /\ Cardinality(ToSet(indexes)) \in Nat
<1> DEFINE more == [i \in 1 .. n |-> index]
<1>1. more \in Seq(Nat) /\ Len(more) = n /\ \A i \in 1 .. n : more[i] = index
  OBVIOUS
<1> HIDE DEF more
<1>2. PICK all \in Seq(Nat) :
         /\ all = indexes \o more /\ Len(all) = Len(indexes) + n
         /\ \A i \in 1 .. Len(indexes) : all[i] = indexes[i]
         /\ \A i \in Len(indexes) + 1 .. Len(indexes) + n : all[i] = more[i - Len(indexes)]
  <2>1. indexes \o more \in Seq(Nat) /\ Len(indexes \o more) = Len(indexes) + n
    <3>1. indexes \o more \in Seq(Nat)
      BY <1>1
    <3>2. Len(indexes \o more) = Len(indexes) + n
      BY <1>1
    <3> QED
      BY <3>1, <3>2
  <2>2. \A i \in 1 .. Len(indexes) : (indexes \o more)[i] = indexes[i]
    BY <1>1
  <2>3. \A i \in Len(indexes) + 1 .. Len(indexes) + n :
           (indexes \o more)[i] = more[i - Len(indexes)]
    BY <1>1
  <2> QED
    BY <2>1, <2>2, <2>3
<1>3. ASSUME NEW i \in DOMAIN all
      PROVE  \/ i \in DOMAIN indexes /\ all[i] = indexes[i]
             \/ i \notin DOMAIN indexes /\ all[i] = index
  <2>1. CASE i <= Len(indexes)
    BY <1>2, <2>1
  <2>2. CASE i > Len(indexes)
    <3>1. i - Len(indexes) \in 1 .. n /\ i \in Len(indexes) + 1 .. Len(indexes) + n
      BY <1>2, <2>2
    <3> QED
      BY <1>1, <1>2, <2>2, <3>1
  <2> QED
    BY <1>2, <2>1, <2>2
<1>4. \A i \in DOMAIN all : all[i] <= index
  BY <1>3
<1>5. ToSet(all) = ToSet(indexes) \cup {index}
  <2>1. ASSUME NEW x \in ToSet(all) PROVE x \in ToSet(indexes) \cup {index}
    BY <1>3, <2>1 DEF ToSet
  <2>2. ASSUME NEW x \in ToSet(indexes) PROVE x \in ToSet(all)
    <3>1. PICK i \in 1 .. Len(indexes) : x = indexes[i]
      BY <2>2 DEF ToSet
    <3>2. i \in DOMAIN all /\ all[i] = x
      BY <1>2, <3>1
    <3> QED
      BY <3>2 DEF ToSet
  <2>3. index \in ToSet(all)
    <3>1. Len(indexes) + 1 \in DOMAIN all /\ Len(indexes) + 1 \notin DOMAIN indexes
      BY <1>2
    <3> QED
      BY <1>3, <3>1 DEF ToSet
  <2> QED
    BY <2>1, <2>2, <2>3
<1>6. index \notin ToSet(indexes)
  BY DEF ToSet
<1>7. IsFiniteSet(ToSet(indexes))
  <2>1. ToSet(indexes) \in SUBSET Nat /\ \A x \in ToSet(indexes) : x <= index
    BY DEF ToSet
  <2> QED
    BY <2>1, FS_BoundedSetOfNaturals
<1>8. /\ Cardinality(ToSet(all)) = Cardinality(ToSet(indexes)) + 1
      /\ Cardinality(ToSet(indexes)) \in Nat
  BY <1>5, <1>6, <1>7, FS_AddElement, FS_CardinalityType
<1> QED
  BY <1>2, <1>4, <1>8 DEF more

LEMMA NothingAdded ==
    ASSUME NEW S, NEW first \in Seq(S)
    PROVE  first \o << >> = first
<1>1. PICK all : all = first \o << >>
  OBVIOUS
<1>2. << >> \in Seq(S) /\ Len(<< >>) = 0
  OBVIOUS
<1>3. all \in Seq(S) /\ Len(all) = Len(first) /\ \A i \in 1 .. Len(first) : all[i] = first[i]
  BY <1>1, <1>2
<1>4. all = first
  BY <1>3
<1> QED
  BY <1>1, <1>4

LEMMA ServerResponses ==
    ASSUME TypeInv, Responses, NEW s \in Sessions,
           Statement(s) \/ Abort(s) \/ DeadlockVictim(s), NoteRejected(s)
    PROVE  Responses'
<1>1. PICK n : n = Len(req'[s].rejects) - Len(req[s].rejects)
  OBVIOUS
<1>2. PICK index : index = req[s].row_index - 1
  OBVIOUS
<1>3. response' = [response EXCEPT ![s] = response[s] \o [i \in 1 .. n |-> index]]
  BY <1>1, <1>2 DEF NoteRejected
<1>4. req[s] \in Request /\ index \in Nat /\ Len(req[s].rejects) \in Nat
      /\ req[s].row_index \in Nat /\ req[s].row_index = index + 1
  BY <1>2 DEF TypeInv, TypeOK, Request
<1>5. response[s] \in Seq(Nat) /\ ResponseInv(s)
  BY DEF Responses
<1>6. PICK all : all = response[s] \o [i \in 1 .. n |-> index]
  OBVIOUS
<1>7. ASSUME all \in Seq(Nat)
      PROVE  /\ response' \in [Sessions -> Seq(Nat)] /\ response'[s] = all
             /\ \A o \in Sessions \ {s} : response'[o] = response[o]
  BY <1>3, <1>6, <1>7 DEF Responses
<1>8. CASE req' = req
  <2>1. n = 0
    BY <1>1, <1>4, <1>8
  <2>2. [i \in 1 .. n |-> index] = << >>
    BY <2>1
  <2>3. all = response[s]
    BY <1>5, <1>6, <2>2, NothingAdded
  <2> QED
    BY <1>5, <1>7, <1>8, <2>3 DEF Responses, ResponseInv
<1>9. ASSUME Works(s), req' # req PROVE Responses'
  <2>1. MoreRows(s) /\ \A o \in Sessions \ {s} : req'[o] = req[o]
    BY <1>9 DEF Works, Bystander
  <2>2. index < Len(req[s].rows) /\ Len(req[s].rows) \in Nat
    <3>1. Len(req[s].rows) \in Nat
      BY <1>4 DEF Request
    <3> QED
      BY <1>4, <2>1, <3>1 DEF MoreRows
  <2>3. \A i \in DOMAIN response[s] :
           /\ response[s][i] \in Nat
           /\ response[s][i] + 1 < req[s].row_index
           /\ response[s][i] < Len(req[s].rows)
    BY <1>5 DEF ResponseInv
  <2>4. CASE Accept(s)
    <3>1. /\ req'[s].rejects = req[s].rejects /\ req'[s].rejected = req[s].rejected
          /\ req'[s].rows = req[s].rows /\ req'[s].row_index = req[s].row_index + 1
      BY <1>4, <2>4 DEF Accept, TypeInv, TypeOK, Request
    <3>2. n = 0
      BY <1>1, <1>4, <3>1
    <3>3. [i \in 1 .. n |-> index] = << >>
      BY <3>2
    <3>4. all = response[s]
      BY <1>5, <1>6, <3>3, NothingAdded
    <3>5. response' \in [Sessions -> Seq(Nat)] /\ response'[s] = response[s]
          /\ \A o \in Sessions \ {s} : response'[o] = response[o]
      BY <1>5, <1>7, <3>4
    <3>6. ASSUME NEW i \in DOMAIN response[s] PROVE response[s][i] + 1 < req'[s].row_index
      BY <1>4, <2>3, <3>1
    <3>7. ResponseInv(s)'
      BY <1>5, <3>1, <3>5, <3>6 DEF ResponseInv
    <3>8. ASSUME NEW o \in Sessions \ {s} PROVE ResponseInv(o)'
      BY <2>1, <3>5 DEF Responses, ResponseInv
    <3> QED
      BY <3>5, <3>7, <3>8 DEF Responses
  <2>5. ASSUME NEW errors \in Seq(ErrorRecord), errors # << >>, Reject(s, errors)
        PROVE  Responses'
    <3>1. /\ req'[s].rows = req[s].rows
          /\ req'[s].row_index = req[s].row_index + 1
          /\ req'[s].rejected = req[s].rejected + 1
          /\ Len(req'[s].rejects) > Len(req[s].rejects)
      BY <2>1, <2>5, RejectAccount
    <3>2. Len(req'[s].rejects) \in Nat
      <4>1. req' \in [Sessions -> Request]
        BY <2>1, <2>5, RejectType
      <4> QED
        BY <4>1 DEF Request
    <3>3. n \in Nat \ {0} /\ Len(req'[s].rejects) = Len(req[s].rejects) + n
      BY <1>1, <1>4, <3>1, <3>2
    <3>4. \A i \in DOMAIN response[s] : response[s][i] < index
      BY <1>4, <2>3
    <3>5. /\ all \in Seq(Nat) /\ Len(all) = Len(response[s]) + n
          /\ \A i \in DOMAIN all : all[i] <= index
          /\ Cardinality(ToSet(all)) = Cardinality(ToSet(response[s])) + 1
      BY <1>4, <1>5, <1>6, <3>3, <3>4, EntriesAdded
    <3>6. response' \in [Sessions -> Seq(Nat)] /\ response'[s] = all
          /\ \A o \in Sessions \ {s} : response'[o] = response[o]
      BY <1>7, <3>5
    <3>7. ASSUME NEW i \in DOMAIN all
          PROVE  all[i] + 1 < req'[s].row_index /\ all[i] < Len(req'[s].rows)
      <4>1. all[i] \in Nat /\ all[i] <= index
        BY <3>5
      <4> QED
        BY <1>4, <2>2, <3>1, <4>1
    <3>8. ResponseInv(s)'
      <4>1. /\ Len(response[s]) = Len(req[s].rejects)
            /\ Cardinality(ToSet(response[s])) = req[s].rejected
        BY <1>5 DEF ResponseInv
      <4>2. Len(all) = Len(req'[s].rejects) /\ Cardinality(ToSet(all)) = req'[s].rejected
        BY <3>1, <3>3, <3>5, <4>1
      <4> QED
        BY <3>5, <3>6, <3>7, <4>2 DEF ResponseInv
    <3>9. ASSUME NEW o \in Sessions \ {s} PROVE ResponseInv(o)'
      BY <2>1, <3>6 DEF Responses, ResponseInv
    <3> QED
      BY <3>6, <3>8, <3>9 DEF Responses
  <2> QED
    BY <1>9, <2>4, <2>5 DEF Works
<1>10. Fails(s) \/ Commit(s) \/ Refresh(s) => req' = req
  BY DEF Fails, Fail, Commit, Refresh
<1> QED
  BY <1>8, <1>9, <1>10, StepKinds

LEMMA PostResponses ==
    ASSUME TypeInv, Responses, NEW s \in Sessions, PostBatch(s)
    PROVE  Responses'
<1>1. PICK t \in Targets : \E rows \in Batches(t) :
        req' = [req EXCEPT ![s] = [NoRequest EXCEPT !.target_table = t,
                                                    !.rows = rows,
                                                    !.load_id = loadSeq + 1]]
  BY DEF PostBatch, Receive
<1>2. /\ req'[s].rejects = << >> /\ req'[s].rejected = 0
      /\ \A o \in Sessions \ {s} : req'[o] = req[o]
  BY <1>1 DEF TypeInv, TypeOK, NoRequest
<1>3. /\ << >> \in Seq(Nat) /\ Len(<< >>) = 0 /\ DOMAIN << >> = {} /\ ToSet(<< >>) = {}
      /\ Cardinality({}) = 0
  BY FS_EmptySet DEF ToSet
<1>4. /\ response' \in [Sessions -> Seq(Nat)] /\ response'[s] = << >>
      /\ \A o \in Sessions \ {s} : response'[o] = response[o]
  BY <1>3 DEF PostBatch, Responses
<1>5. ResponseInv(s)'
  BY <1>2, <1>3, <1>4 DEF ResponseInv
<1>6. ASSUME NEW o \in Sessions \ {s} PROVE ResponseInv(o)'
  BY <1>2, <1>4 DEF Responses, ResponseInv
<1> QED
  BY <1>4, <1>5, <1>6 DEF Responses

LEMMA ResponsesStep == TypeInv /\ Responses /\ [LoadNext]_loadVars => Responses'
<1> SUFFICES ASSUME TypeInv, Responses, [LoadNext]_loadVars PROVE Responses'
  OBVIOUS
<1>1. CASE UNCHANGED << response, req >>
  BY <1>1 DEF Responses, ResponseInv
<1>2. StartRun \/ Interrupt \/ LoadQuiet \/ UNCHANGED loadVars => UNCHANGED << response, req >>
  BY DEF StartRun, Interrupt, LoadQuiet, loadVars, vars
<1>3. Refused \/ FinishRun => UNCHANGED << response, req >>
  BY DEF Refused, Report, FinishRun, vars
<1>4. ASSUME NEW s \in Sessions, TakeAnswer(s) \/ GiveUp(s)
      PROVE  UNCHANGED << response, req >>
  BY <1>4 DEF TakeAnswer, GiveUp, Report, vars
<1>5. ASSUME NEW s \in Sessions, PostBatch(s) PROVE Responses'
  BY <1>5, PostResponses
<1>6. ASSUME NEW s \in Sessions, ServerStep(s) PROVE Responses'
  BY <1>6, ServerResponses DEF ServerStep
<1> QED
  BY <1>1, <1>2, <1>3, <1>4, <1>5, <1>6 DEF LoadNext, ClientStep

-----------------------------------------------------------------------------
(***************************************************************************)
(* The run and its summary account for the files.                          *)
(***************************************************************************)
LEMMA OutcomeTyped ==
    ASSUME TypeInv, NEW s \in Sessions, NEW u \in Uploads, NEW b, BatchOfFile(u, b)
    PROVE  /\ OutcomeOf(b, s) \in BatchOutcome /\ ReportsOn(OutcomeOf(b, s), b)
           /\ FailedOutcome(b) \in BatchOutcome /\ ReportsOn(FailedOutcome(b), b)
<1>1. b.table \in Targets /\ b.batch_index \in Nat /\ Len(b.rows) \in 1 .. MaxBatchSize
  BY DEF BatchOfFile
<1>2. /\ req[s].accepted \in Nat /\ req[s].rejected \in Nat
      /\ req[s].load_id \in LoadIds \cup {NoRow}
  BY DEF TypeInv, TypeOK, Request
<1>3. FailedOutcome(b) \in BatchOutcome /\ ReportsOn(FailedOutcome(b), b)
  BY <1>1 DEF FailedOutcome, BatchOutcome, ReportsOn
<1>4. PICK o : o = StoredOutcome(b, s)
  OBVIOUS
<1>5. o = [table |-> b.table, batch_index |-> b.batch_index, row_count |-> Len(b.rows),
           success |-> TRUE, accepted |-> req[s].accepted, rejected |-> req[s].rejected,
           load_id |-> req[s].load_id]
  BY <1>4 DEF StoredOutcome, FailedOutcome
<1>6. o \in BatchOutcome /\ ReportsOn(o, b)
  BY <1>1, <1>2, <1>5 DEF BatchOutcome, ReportsOn
<1> QED
  BY <1>3, <1>4, <1>6 DEF OutcomeOf

LEMMA NoRowsFit ==
    ASSUME NEW u, NEW b
    PROVE  RowsFit(u, FailedOutcome(b), << >>)
<1>1. IsSequence(<< >>) /\ ToSet(<< >>) = {}
  BY DEF IsSequence, ToSet
<1>2. {r.row_index : r \in ToSet(<< >>)} = {} /\ Cardinality({}) = 0
  BY <1>1, FS_EmptySet
<1>3. FailedOutcome(b).rejected = 0
  BY DEF FailedOutcome
<1> QED
  BY <1>1, <1>2, <1>3 DEF RowsFit

\* file_row and raw_payload name the parsed row, whichever batch it is in.
LEMMA TakenRowsFit ==
    ASSUME TypeInv, Responses, NEW s \in Sessions, NEW u \in Uploads, NEW b,
           BatchOfFile(u, b), req[s].rows = b.rows
    PROVE  RowsFit(u, OutcomeOf(b, s), RejectedRowsOf(b, s))
<1>1. CASE answer[s] # "200"
  BY <1>1, NoRowsFit DEF OutcomeOf, RejectedRowsOf
<1>2. CASE answer[s] = "200"
  <2>1. PICK o : o = OutcomeOf(b, s)
    OBVIOUS
  <2>2. o.table = b.table /\ o.batch_index = b.batch_index /\ o.rejected = req[s].rejected
    BY <1>2, <2>1 DEF OutcomeOf, StoredOutcome, FailedOutcome
  <2>3. PICK n \in Nat : n = Len(response[s]) /\ DOMAIN response[s] = 1 .. n
    BY DEF Responses
  <2> DEFINE rejection(i) ==
               [table |-> b.table, batch_index |-> b.batch_index,
                row_index |-> response[s][i],
                reason_code |-> req[s].rejects[i].reason_code,
                field |-> req[s].rejects[i].field,
                file_row |-> FileRow(b, response[s][i]),
                raw_payload |-> b.rows[response[s][i] + 1]]
  <2>4. PICK rows : rows = RejectedRowsOf(b, s)
    OBVIOUS
  <2>5. rows = [i \in 1 .. n |-> rejection(i)]
    BY <1>2, <2>3, <2>4 DEF RejectedRowsOf
  <2>6. \A i \in 1 .. n :
           /\ rejection(i).table = b.table /\ rejection(i).batch_index = b.batch_index
           /\ rejection(i).row_index = response[s][i]
           /\ rejection(i).file_row = FileRow(b, response[s][i])
           /\ rejection(i).raw_payload = b.rows[response[s][i] + 1]
    OBVIOUS
  <2> HIDE DEF rejection
  <2>7. IsSequence(rows) /\ DOMAIN rows = 1 .. n
    <3>1. rows \in Seq({rejection(i) : i \in 1 .. n}) /\ DOMAIN rows = 1 .. n
      BY <2>5
    <3> QED
      BY <3>1, Sequences
  <2>8. ASSUME NEW i \in 1 .. n PROVE InFile(u, rows[i])
    <3>1. PICK j \in Nat : j = response[s][i]
      BY <2>3 DEF Responses
    <3>2. j < Len(b.rows) /\ Len(b.rows) \in Nat /\ j + 1 \in 1 .. Len(b.rows)
      <4>1. Len(b.rows) \in Nat
        BY BatchSizeAssumption DEF BatchOfFile
      <4>2. j < Len(b.rows)
        BY <2>3, <3>1 DEF Responses, ResponseInv
      <4> QED
        BY <4>1, <4>2
    <3>3. PICK file : file = RowsOf(u, b.table)
      OBVIOUS
    <3>4. PICK before \in Nat : before = Before(b.batch_index + 1)
      <4>1. b.batch_index + 1 \in Nat \ {0}
        BY DEF BatchOfFile
      <4> QED
        BY <4>1, Befores
    <3>5. PartOf(file, before, b.rows)
      BY <3>3, <3>4 DEF BatchOfFile
    <3>6. FileRow(b, j) = before + (j + 1)
      <4>1. b.batch_index \in Nat /\ (b.batch_index + 1) - 1 = b.batch_index
        BY DEF BatchOfFile
      <4>2. before = b.batch_index * MaxBatchSize
        BY <3>4, <4>1 DEF Before
      <4>3. FileRow(b, j) = before + j + 1
        BY <4>2 DEF FileRow
      <4> QED
        BY <4>3
    <3>7. file[before + (j + 1)] = b.rows[j + 1] /\ before + (j + 1) <= Len(file)
      <4>1. file[before + (j + 1)] = b.rows[j + 1] /\ before + Len(b.rows) <= Len(file)
        BY <3>2, <3>5 DEF PartOf
      <4>2. Len(file) \in Nat
        BY <3>3, RowsAreRows DEF BatchOfFile, IsSequence
      <4> QED
        BY <3>2, <4>1, <4>2
    <3>8. before + (j + 1) \in DOMAIN file
      <4>1. DOMAIN file = 1 .. Len(file) /\ Len(file) \in Nat
        BY <3>3, RowsAreRows DEF BatchOfFile, IsSequence
      <4> QED
        BY <3>7, <4>1
    <3>9. /\ rows[i].table = b.table /\ rows[i].file_row = before + (j + 1)
          /\ rows[i].raw_payload = b.rows[j + 1]
      BY <2>5, <2>6, <3>1, <3>6
    <3> QED
      BY <3>3, <3>7, <3>8, <3>9 DEF InFile
  <2>9. \A i \in 1 .. n : BelongsTo(rows[i], o)
    BY <2>2, <2>5, <2>6 DEF BelongsTo
  <2>10. \A r \in ToSet(rows) : BelongsTo(r, o) /\ InFile(u, r)
    BY <2>7, <2>8, <2>9 DEF ToSet
  <2>11. {r.row_index : r \in ToSet(rows)} = ToSet(response[s])
    <3>1. \A i \in 1 .. n : rows[i].row_index = response[s][i]
      BY <2>5, <2>6
    <3> QED
      BY <2>3, <2>7, <3>1 DEF ToSet
  <2>12. Cardinality({r.row_index : r \in ToSet(rows)}) = o.rejected
    BY <2>2, <2>11 DEF Responses, ResponseInv
  <2>13. RowsFit(u, o, rows)
    BY <2>7, <2>10, <2>12 DEF RowsFit
  <2> QED
    BY <2>1, <2>4, <2>13
<1> QED
  BY <1>1, <1>2

RunInv ==
    /\ phase \in {"ready", "running"} /\ runs \in 0 .. MaxRuns
    /\ posting \in Sessions \cup {Nobody}
    /\ outcomes \in Seq(BatchOutcome)
    /\ Running => /\ upload \in Uploads
                  /\ Progress(upload, outcomes, remaining)
                  /\ Accounted(upload, outcomes, rejectedRows)
    /\ Ready => remaining = << >>
    /\ posting # Nobody => Running /\ remaining # << >>
    /\ summary # NoSummary =>
         /\ summary.upload \in Uploads
         /\ Progress(summary.upload, summary.outcomes, << >>)
         /\ Accounted(summary.upload, summary.outcomes, summary.rejected_rows)

LEMMA RunInit == LoadInit => RunInv
<1> SUFFICES ASSUME LoadInit PROVE RunInv
  OBVIOUS
<1>1. << >> \in Seq(BatchOutcome)
  OBVIOUS
<1> QED
  BY <1>1, RunsAssumption DEF LoadInit, RunInv, Running, Ready

LEMMA ReportKeepsRun ==
    ASSUME RunInv, Running, remaining # << >>, NEW o \in BatchOutcome,
           ReportsOn(o, Head(remaining)), NEW rows, RowsFit(upload, o, rows), Report(o, rows)
    PROVE  RunInv'
<1>1. /\ outcomes' = Append(outcomes, o) /\ rejectedRows' = rejectedRows \o rows
      /\ remaining' = Tail(remaining) /\ posting' = Nobody
      /\ UNCHANGED << phase, upload, summary, runs >>
  BY DEF Report
<1>2. Progress(upload, Append(outcomes, o), Tail(remaining))
  BY NextReported DEF RunInv
<1>3. Accounted(upload, Append(outcomes, o), rejectedRows \o rows)
  BY RowsAccounted DEF RunInv
<1>4. Append(outcomes, o) \in Seq(BatchOutcome)
  BY <1>2 DEF Progress
<1>5. Running' /\ ~ Ready'
  BY <1>1 DEF Running, Ready
<1> QED
  BY <1>1, <1>2, <1>3, <1>4, <1>5 DEF RunInv, Running

LEMMA RunStep ==
    TypeInv /\ Responses /\ ReportInv /\ RunInv /\ [LoadNext]_loadVars => RunInv'
<1> SUFFICES ASSUME TypeInv, Responses, ReportInv, RunInv, [LoadNext]_loadVars PROVE RunInv'
  OBVIOUS
<1>1. CASE UNCHANGED client
  BY <1>1 DEF client, RunInv, Running, Ready
<1>2. CASE StartRun
  <2>1. runs' \in 0 .. MaxRuns
    BY <1>2, RunsAssumption DEF StartRun, RunInv
  <2>2. << >> \in Seq(BatchOutcome)
    OBVIOUS
  <2>3. UNCHANGED << summary, posting >> /\ outcomes' = << >> /\ rejectedRows' = << >> /\ Ready
    BY <1>2 DEF StartRun
  <2>4. PICK u \in Uploads :
          /\ upload' = u
          /\ \/ UNCHANGED << phase, remaining >>
             \/ phase' = "running" /\ remaining' = BatchesOf(u)
    BY <1>2 DEF StartRun
  <2>5. Progress(u, << >>, BatchesOf(u)) /\ Accounted(u, << >>, << >>)
    BY RunBegins
  <2>6. posting = Nobody
    BY <2>3 DEF RunInv, Ready, Running
  <2> QED
    BY <2>1, <2>2, <2>3, <2>4, <2>5, <2>6 DEF RunInv, Running, Ready
<1>3. CASE Interrupt
  BY <1>3 DEF Interrupt, Between, RunInv, Running, Ready
<1>4. CASE FinishRun
  <2>1. /\ phase' = "ready" /\ summary' = [outcomes |-> outcomes, rejected_rows |-> rejectedRows,
                                           upload |-> upload, alone |-> alone, run |-> runs]
        /\ UNCHANGED << runs, posting, remaining, outcomes >>
        /\ Running /\ posting = Nobody /\ remaining = << >>
    BY <1>4 DEF FinishRun, Between
  <2>2. /\ summary'.upload = upload /\ summary'.outcomes = outcomes
        /\ summary'.rejected_rows = rejectedRows
    BY <2>1
  <2> QED
    BY <2>1, <2>2 DEF RunInv, Running, Ready
<1>5. ASSUME Running, remaining # << >>, NEW s \in Sessions
      PROVE  BatchOfFile(upload, Head(remaining)) /\ upload \in Uploads
  BY <1>5, NextBatch DEF RunInv
<1>6. ASSUME Running, remaining # << >>, Report(FailedOutcome(Head(remaining)), << >>) PROVE RunInv'
  <2>1. PICK b : b = Head(remaining) /\ BatchOfFile(upload, b) /\ upload \in Uploads
    BY <1>6, NextBatch DEF RunInv
  <2>2. FailedOutcome(b) \in BatchOutcome /\ ReportsOn(FailedOutcome(b), b)
    BY <2>1 DEF FailedOutcome, BatchOutcome, ReportsOn, BatchOfFile
  <2>3. RowsFit(upload, FailedOutcome(b), << >>)
    BY NoRowsFit
  <2> QED
    BY <1>6, <2>1, <2>2, <2>3, ReportKeepsRun
<1>7. CASE Refused
  BY <1>6, <1>7 DEF Refused, Between
<1>8. ASSUME NEW s \in Sessions, GiveUp(s) PROVE RunInv'
  <2>1. Running /\ remaining # << >>
    BY <1>8, NobodyAssumption DEF GiveUp, TimedOut, RunInv
  <2> QED
    BY <1>6, <1>8, <2>1 DEF GiveUp
<1>9. ASSUME NEW s \in Sessions, TakeAnswer(s) PROVE RunInv'
  <2>1. Running /\ remaining # << >> /\ posting # Nobody /\ posting = s
    BY <1>9, NobodyAssumption DEF TakeAnswer, RunInv
  <2>2. PICK b : b = Head(remaining) /\ BatchOfFile(upload, b) /\ upload \in Uploads
    BY <2>1, NextBatch DEF RunInv
  <2>3. req[s].rows = b.rows
    BY <2>1, <2>2 DEF ReportInv, AwaitedBatch
  <2>4. OutcomeOf(b, s) \in BatchOutcome /\ ReportsOn(OutcomeOf(b, s), b)
    BY <2>2, OutcomeTyped
  <2>5. RowsFit(upload, OutcomeOf(b, s), RejectedRowsOf(b, s))
    BY <2>2, <2>3, TakenRowsFit
  <2>6. Report(OutcomeOf(b, s), RejectedRowsOf(b, s))
    BY <1>9, <2>2 DEF TakeAnswer
  <2> QED
    BY <2>1, <2>2, <2>4, <2>5, <2>6, ReportKeepsRun
<1>10. ASSUME NEW s \in Sessions, PostBatch(s) PROVE RunInv'
  BY <1>10 DEF PostBatch, Between, RunInv, Running, Ready
<1>11. LoadQuiet \/ UNCHANGED loadVars \/ (\E s \in Sessions : ServerStep(s)) => UNCHANGED client
  BY DEF LoadQuiet, loadVars, ServerStep
<1> QED
  BY <1>1, <1>2, <1>3, <1>4, <1>7, <1>8, <1>9, <1>10, <1>11 DEF LoadNext, ClientStep

LEMMA RunAlways == LoadSpec => [](ReportInv /\ RunInv)
<1>1. Consistent => TypeInv
  BY DEF Consistent
<1> QED
  BY <1>1, ReportInit, ReportStep, ResponsesInit, ResponsesStep, RunInit, RunStep,
     LoadImplementsIngest, ConsistentAlways, AccountsKept, PTL
  DEF LoadSpec

\* The locals of run_historical_load have their types, however it is timed out
\* or interrupted, and the handler it waits for has the batch it reports next.
THEOREM LoadTypeCorrect == LoadSpec => []LoadTypeOK
<1>1. ASSUME ReportInv, RunInv PROVE LoadTypeOK
  <2>1. ASSUME NEW i \in DOMAIN remaining PROVE Len(remaining[i].rows) \in 1 .. MaxBatchSize
    <3>1. Running
      <4>1. DOMAIN << >> = {}
        OBVIOUS
      <4> QED
        BY <1>1, <2>1, <4>1 DEF RunInv, Running, Ready
    <3>2. PICK B : B = BatchesOf(upload)
      OBVIOUS
    <3>3. /\ Len(B) \in Nat /\ DOMAIN B = 1 .. Len(B) /\ \A j \in DOMAIN B : BatchOfFile(upload, B[j])
      BY <1>1, <3>1, <3>2, BatchesAreBatches DEF RunInv
    <3>4. Progress(upload, outcomes, remaining)
      BY <1>1, <3>1 DEF RunInv
    <3>5. /\ Len(outcomes) \in Nat /\ Len(remaining) \in Nat /\ i \in 1 .. Len(remaining)
          /\ Len(outcomes) + Len(remaining) = Len(B)
          /\ remaining[i] = B[Len(outcomes) + i]
      BY <2>1, <3>2, <3>4 DEF Progress, IsSequence
    <3>6. Len(outcomes) + i \in DOMAIN B
      BY <3>3, <3>5
    <3> QED
      BY <3>3, <3>5, <3>6 DEF BatchOfFile
  <2>2. \A i \in DOMAIN outcomes : outcomes[i] \in BatchOutcome
    BY <1>1 DEF RunInv
  <2> QED
    BY <1>1, <2>1, <2>2 DEF RunInv, ReportInv, AwaitedBatch, LoadTypeOK
<1> QED
  BY <1>1, RunAlways, PTL

\* The row counts of the outcomes of a table add up to the rows of its file.
LEMMA AllRowsReported ==
    ASSUME NEW u \in Uploads, NEW outs, outs = summary.outcomes, Progress(u, outs, << >>),
           NEW t \in Targets
    PROVE  RowsReported(t) = Len(RowsOf(u, t))
<1>1. PICK B : B = BatchesOf(u)
  OBVIOUS
<1>2. PICK N \in Nat : N = Len(outs) /\ N = Len(B) /\ DOMAIN outs = 1 .. N
  <2>1. Len(outs) \in Nat /\ DOMAIN outs = 1 .. Len(outs) /\ Len(outs) + Len(<< >>) = Len(B)
    BY <1>1 DEF Progress
  <2> QED
    BY <2>1
<1>3. ASSUME NEW n \in 1 .. N
      PROVE  outs[n].table = B[n].table /\ outs[n].row_count = Len(B[n].rows)
  BY <1>1, <1>2 DEF Progress, ReportsOn
<1>4. PICK total : total = Len(RowsOf(u, t))
  OBVIOUS
<1>5. PICK count \in [0 .. N -> Nat] :
        /\ count[0] = 0 /\ count[N] = total
        /\ \A i \in 1 .. N :
             count[i] = IF B[i].table = t THEN count[i - 1] + Len(B[i].rows) ELSE count[i - 1]
  <2>1. RowCount(t, B, total)
    BY <1>1, <1>4, UploadIsPlanned DEF Plan
  <2> QED
    BY <1>2, <2>1 DEF RowCount
<1> DEFINE More(before, o) == IF o.table = t THEN before + o.row_count ELSE before
           Body(f) == [n \in 0 .. N |-> IF n = 0 THEN 0
                                        ELSE IF outs[n].table = t THEN f[n - 1] + outs[n].row_count
                                        ELSE f[n - 1]]
           sum == CHOOSE f : f = Body(f)
<1>6. \A n \in 1 .. N : count[n] = More(count[n - 1], outs[n])
  BY <1>3, <1>5
<1>7. count = Body(count)
  <2>1. ASSUME NEW n \in 0 .. N
        PROVE  count[n] = IF n = 0 THEN 0
                          ELSE IF outs[n].table = t THEN count[n - 1] + outs[n].row_count
                          ELSE count[n - 1]
    <3>1. CASE n = 0
      BY <1>5, <3>1
    <3>2. CASE n # 0
      <4>1. n \in 1 .. N
        BY <3>2
      <4>2. count[n] = More(count[n - 1], outs[n])
        <5> HIDE DEF More
        <5> QED
          BY <1>6, <4>1
      <4> QED
        BY <3>2, <4>2
    <3> QED
      BY <3>1, <3>2
  <2> QED
    BY <1>5, <2>1
<1>8. sum = Body(sum)
  <2> HIDE DEF Body
  <2> QED
    BY <1>7
<1>9. sum[0] = 0 /\ \A n \in 1 .. N : sum[n] = More(sum[n - 1], outs[n])
  <2> HIDE DEF sum
  <2>1. sum[0] = 0
    BY <1>8
  <2>2. ASSUME NEW n \in 1 .. N PROVE sum[n] = More(sum[n - 1], outs[n])
    <3>1. n \in 0 .. N /\ n # 0
      OBVIOUS
    <3> QED
      BY <1>8, <3>1
  <2> QED
    BY <2>1, <2>2
<1> HIDE DEF sum, More
<1>10. 0 .. N \subseteq {n \in 0 .. N : sum[n] = count[n]}
  <2> DEFINE T == {n \in 0 .. N : sum[n] = count[n]}
  <2>1. 0 \in T
    BY <1>5, <1>9
  <2>2. ASSUME NEW n \in 1 .. N, n - 1 \in T PROVE n \in T
    BY <1>6, <1>9, <2>2
  <2> HIDE DEF T
  <2>3. 0 .. N \subseteq T
    BY <2>1, <2>2, UpTo
  <2> QED
    BY <2>3 DEF T
<1>11. sum[N] = total
  <2>1. N \in 0 .. N
    OBVIOUS
  <2> QED
    BY <1>5, <1>10, <2>1
<1>12. RowsReported(t) = sum[N]
  <2>1. Len(summary.outcomes) = N
    BY <1>2
  <2> QED
    BY <2>1 DEF RowsReported, sum
<1> QED
  BY <1>4, <1>11, <1>12

\* The summary accounts for every row of the files: for files of any length,
\* cut into batches of any size, whatever the batches were answered. file_row
\* is the row's number among those that were parsed from the file.
THEOREM SummaryAlwaysAccounts == LoadSpec => []SummaryAccountsForFiles
<1>1. ASSUME RunInv, summary # NoSummary PROVE SummaryAccountsForFiles
  <2>1. PICK u, outs, rejs : u = summary.upload /\ outs = summary.outcomes
                             /\ rejs = summary.rejected_rows
    OBVIOUS
  <2>2. u \in Uploads /\ Progress(u, outs, << >>) /\ Accounted(u, outs, rejs)
    BY <1>1, <2>1 DEF RunInv
  <2>3. ASSUME NEW t \in Targets PROVE RowsReported(t) = Len(RowsOf(u, t))
    BY <2>1, <2>2, AllRowsReported
  <2>4. ASSUME NEW o \in ToSet(outs) PROVE Cardinality(RowsRejectedIn(o)) = o.rejected
    <3>1. RowsRejectedIn(o) = RejectedIn(rejs, o)
      BY <2>1 DEF RowsRejectedIn, RejectedIn, BelongsTo
    <3>2. PICK i \in DOMAIN outs : o = outs[i]
      BY DEF ToSet
    <3> QED
      BY <2>2, <3>1, <3>2 DEF Accounted
  <2>5. ASSUME NEW r \in ToSet(rejs) PROVE InFile(u, r)
    BY <2>2 DEF Accounted
  <2> QED
    BY <2>1, <2>3, <2>4, <2>5 DEF SummaryAccountsForFiles, InFile
<1>2. RunInv => SummaryAccountsForFiles
  BY <1>1 DEF SummaryAccountsForFiles
<1> QED
  BY <1>2, RunAlways, PTL

-----------------------------------------------------------------------------
(***************************************************************************)
(* Departments and jobs that are reported as loaded are committed.         *)
(***************************************************************************)

\* A valid row of departments or jobs is in the table.
RowLanded(table, row) == row.id \in DimensionIds /\ row.name # Absent => table[row.id] # NoRow

\* The rows that session s has gone through are what it sees, and those of a
\* batch that is answered with a 200 are committed.
Landed(s) ==
    LET t == req[s].target_table
        rows == req[s].rows
    IN  t \in DimensionTables =>
          /\ pc[s] \notin Resting =>
               \A k \in 1 .. Len(rows) :
                   k < req[s].row_index => RowLanded(DimensionsSeen(s, t), rows[k])
          /\ pc[s] = "upsert" /\ local[s].found # NoRow => DimensionsSeen(s, t)[Row(s).id] # NoRow
          /\ pc[s] = "refresh" \/ answer[s] = "200" =>
               \A k \in 1 .. Len(rows) : RowLanded(dimensions[t], rows[k])

\* What session s sees is still there when others commit and when it writes.
LEMMA SeesMore ==
    ASSUME TypeInv, TypeInv', CatalogsGrow, NEW s \in Sessions, NEW t \in DimensionTables,
           \A d \in DimensionIds : wDimensions[s][t][d] # NoRow => wDimensions'[s][t][d] # NoRow
    PROVE  \A d \in DimensionIds :
             DimensionsSeen(s, t)[d] # NoRow \/ wDimensions'[s][t][d] # NoRow
               => DimensionsSeen(s, t)'[d] # NoRow
<1>1. DOMAIN dimensions'[t] = DimensionIds
  BY DEF TypeInv, TypeOK
<1>2. \A d \in DimensionIds :
         DimensionsSeen(s, t)'[d] = IF wDimensions'[s][t][d] = NoRow THEN dimensions'[t][d]
                                                                   ELSE wDimensions'[s][t][d]
  BY <1>1 DEF DimensionsSeen, Over
<1>3. \A d \in DimensionIds :
         DimensionsSeen(s, t)[d] = IF wDimensions[s][t][d] = NoRow THEN dimensions[t][d]
                                                                 ELSE wDimensions[s][t][d]
  BY SeenType
<1> QED
  BY <1>2, <1>3 DEF CatalogsGrow

LEMMA OtherLanded ==
    ASSUME TypeInv, TypeInv', CatalogsGrow, NEW s \in Sessions, Landed(s),
           pc'[s] = pc[s], req'[s] = req[s], local'[s] = local[s], answer'[s] = answer[s],
           wDimensions'[s] = wDimensions[s]
    PROVE  Landed(s)'
<1> SUFFICES ASSUME req[s].target_table \in DimensionTables PROVE Landed(s)'
  BY DEF Landed
<1>1. PICK t \in DimensionTables : t = req[s].target_table
  OBVIOUS
<1>2. \A d \in DimensionIds : DimensionsSeen(s, t)[d] # NoRow => DimensionsSeen(s, t)'[d] # NoRow
  BY SeesMore
<1>3. \A d \in DimensionIds : dimensions[t][d] # NoRow => dimensions'[t][d] # NoRow
  BY DEF CatalogsGrow
<1>4. ASSUME NEW k \in 1 .. Len(req[s].rows), pc[s] \notin Resting, k < req[s].row_index
      PROVE  RowLanded(DimensionsSeen(s, t)', req[s].rows[k])
  BY <1>1, <1>2, <1>4 DEF Landed, RowLanded
<1>5. ASSUME NEW k \in 1 .. Len(req[s].rows), pc[s] = "refresh" \/ answer[s] = "200"
      PROVE  RowLanded(dimensions'[t], req[s].rows[k])
  BY <1>1, <1>3, <1>5 DEF Landed, RowLanded
<1>6. pc[s] = "upsert" /\ local[s].found # NoRow => DimensionsSeen(s, t)'[Row(s).id] # NoRow
  <2>1. pc[s] = "upsert" => Row(s).id \in DimensionIds
    BY DEF TypeInv, RowInv
  <2> QED
    BY <1>1, <1>2, <2>1 DEF Landed
<1>7. Row(s)' = Row(s)
  BY DEF Row
<1> QED
  BY <1>1, <1>4, <1>5, <1>6, <1>7 DEF Landed, DimensionsSeen

\* The row is done with: it was invalid, or it has been written.
LEMMA RowDone ==
    ASSUME TypeInv, TypeInv', CatalogsGrow, Accounts, NEW s \in Sessions, Landed(s),
           NEW t \in DimensionTables, t = req[s].target_table, pc[s] \notin Resting,
           pc'[s] \notin Resting, answer'[s] = answer[s],
           req'[s].target_table = t, req'[s].rows = req[s].rows,
           \/ req'[s].row_index = req[s].row_index
           \/ /\ req'[s].row_index = req[s].row_index + 1
              /\ RowLanded(DimensionsSeen(s, t)', Row(s)),
           pc'[s] = "upsert" /\ local'[s].found # NoRow =>
               DimensionsSeen(s, t)'[Row(s)'.id] # NoRow,
           \A d \in DimensionIds : wDimensions[s][t][d] # NoRow => wDimensions'[s][t][d] # NoRow
    PROVE  Landed(s)'
<1>1. \A d \in DimensionIds : DimensionsSeen(s, t)[d] # NoRow => DimensionsSeen(s, t)'[d] # NoRow
  BY SeesMore
<1>2. answer'[s] # "200" /\ pc'[s] # "refresh"
  BY DEF Accounts, AccountInv, Resting
<1>3. PICK n \in Nat : n = req[s].row_index
  BY DEF TypeInv, TypeOK, Request
<1>4. ASSUME NEW k \in 1 .. Len(req[s].rows), k < req'[s].row_index
      PROVE  RowLanded(DimensionsSeen(s, t)', req[s].rows[k])
  <2>1. CASE k < n
    BY <1>1, <1>3, <2>1 DEF Landed, RowLanded
  <2>2. CASE ~ (k < n)
    <3>1. k = n /\ RowLanded(DimensionsSeen(s, t)', Row(s))
      BY <1>3, <1>4, <2>2
    <3> QED
      BY <1>3, <3>1 DEF Row
  <2> QED
    BY <2>1, <2>2
<1> QED
  BY <1>2, <1>4 DEF Landed, DimensionsSeen

LEMMA EmptyErrors == << >> \o << >> = << >>
OBVIOUS

\* Only departments and jobs are inserted or updated in a request for them.
LEMMA DimensionKinds ==
    ASSUME TypeInv, Backings, NEW s \in Sessions,
           Statement(s) \/ Abort(s) \/ DeadlockVictim(s), req[s].target_table \in DimensionTables
    PROVE  \/ RejectDimension(s) \/ SelectDimension(s) \/ InsertDimension(s) \/ UpdateDimension(s)
           \/ Commit(s) \/ Refresh(s) \/ Fails(s)
<1>1. req[s].target_table # Hires
  BY DEF DimensionTables, Hires
<1>2. pc[s] \notin {"check_job"} \cup Persisting
  BY <1>1 DEF Backings, WorkBacked
<1>3. ~ (CheckDepartment(s) \/ CheckJob(s) \/ Exists(s) \/ AddEmployee(s) \/ AddFirstVersion(s)
         \/ GetCurrent(s) \/ CloseSelect(s) \/ CloseUpdate(s) \/ AddVersion(s) \/ UpdateCurrent(s))
  BY <1>1, <1>2
  DEF CheckDepartment, CheckJob, Exists, AddEmployee, AddFirstVersion, GetCurrent, CloseSelect,
      CloseUpdate, AddVersion, UpdateCurrent, Persisting, Midway
<1>4. Abort(s) \/ DeadlockVictim(s) => Fails(s)
  BY VictimFails DEF Abort, Fails, Resting
<1> QED
  BY <1>3, <1>4, OutOfRangeIsAbort DEF Statement

\* The dimension that an upsert writes is what the session sees then.
LEMMA UpsertLands ==
    ASSUME TypeInv, TypeInv', CatalogsGrow, Accounts, NEW s \in Sessions, Landed(s),
           (InsertDimension(s) /\ ~ Fail(s)) \/ UpdateDimension(s)
    PROVE  Landed(s)'
<1>1. /\ pc[s] = "upsert" /\ Accept(s) /\ UNCHANGED << dimensions, answer >>
      /\ \/ UNCHANGED wDimensions /\ local[s].found # NoRow
         \/ WriteDimension(s, req[s].target_table, Row(s).id, Row(s).name)
  BY DEF InsertDimension, UpdateDimension, tables
<1>2. PICK t \in DimensionTables : t = req[s].target_table
  BY <1>1 DEF TypeInv, RowInv
<1>3. Row(s).id \in DimensionIds /\ Row(s).name \in Names
  BY <1>1 DEF TypeInv, RowInv
<1>4. DimensionsSeen(s, t)[Row(s).id] # NoRow \/ wDimensions'[s][t][Row(s).id] # NoRow
  <2>1. CASE UNCHANGED wDimensions /\ local[s].found # NoRow
    BY <1>1, <1>2, <2>1 DEF Landed
  <2>2. CASE WriteDimension(s, t, Row(s).id, Row(s).name)
    <3>1. wDimensions'[s][t][Row(s).id] = Row(s).name
      BY <1>3, <2>2 DEF WriteDimension, TypeInv, TypeOK
    <3> QED
      BY <1>3, <3>1, NoRowDistinct
  <2> QED
    BY <1>1, <1>2, <2>1, <2>2
<1>5. \A d \in DimensionIds : wDimensions[s][t][d] # NoRow => wDimensions'[s][t][d] # NoRow
  <2>1. CASE UNCHANGED wDimensions
    BY <2>1
  <2>2. CASE WriteDimension(s, t, Row(s).id, Row(s).name)
    <3>1. \A d \in DimensionIds :
             wDimensions'[s][t][d] = IF d = Row(s).id THEN Row(s).name ELSE wDimensions[s][t][d]
      BY <1>3, <2>2 DEF WriteDimension, TypeInv, TypeOK
    <3> QED
      BY <1>3, <3>1, NoRowDistinct
  <2> QED
    BY <1>1, <1>2, <2>1, <2>2
<1>6. RowLanded(DimensionsSeen(s, t)', Row(s))
  BY <1>3, <1>4, <1>5, SeesMore DEF RowLanded
<1>7. /\ pc'[s] = "row" /\ req'[s].target_table = t /\ req'[s].rows = req[s].rows
      /\ req'[s].row_index = req[s].row_index + 1
  BY <1>1, <1>2 DEF Accept, Goto, TypeInv, TypeOK, Request
<1>8. pc[s] \notin Resting /\ pc'[s] \notin Resting /\ pc'[s] # "upsert"
  BY <1>1, <1>7 DEF Resting
<1> QED
  BY <1>1, <1>2, <1>5, <1>6, <1>7, <1>8, RowDone

LEMMA OwnLanded ==
    ASSUME TypeInv, TypeInv', CatalogsGrow, Accounts, Backings, NEW s \in Sessions, Landed(s),
           Statement(s) \/ Abort(s) \/ DeadlockVictim(s)
    PROVE  Landed(s)'
<1> SUFFICES ASSUME req[s].target_table \in DimensionTables PROVE Landed(s)'
  <2>1. req'[s].target_table = req[s].target_table
    BY BatchStays
  <2> QED
    BY <2>1 DEF Landed
<1>1. PICK t \in DimensionTables : t = req[s].target_table
  OBVIOUS
<1>2. CASE RejectDimension(s)
  <2>1. PICK errors : errors = DimensionErrors(Row(s), NameKey(t))
    OBVIOUS
  <2>2. /\ pc[s] = "row" /\ MoreRows(s) /\ errors # << >> /\ Reject(s, errors)
        /\ UNCHANGED << wDimensions, answer >>
    BY <1>1, <1>2, <2>1 DEF RejectDimension, AtDimensionRow, writes
  <2>3. Row(s).id = Absent \/ Row(s).name = Absent
    BY <2>1, <2>2, EmptyErrors DEF DimensionErrors, CheckId, CheckName, ErrorUnless
  <2>4. Row(s) \in DimensionRow
    BY <1>1, <2>2, RowType DEF DimensionTables, Hires
  <2>5. RowLanded(DimensionsSeen(s, t)', Row(s))
    BY <2>3, <2>4, SentinelAssumption DEF RowLanded
  <2>10. s \in DOMAIN pc /\ s \in DOMAIN req /\ req[s] \in Request
    BY DEF TypeInv, TypeOK
  <2>11. pc'[s] = "row"
    BY <2>2, <2>10 DEF Reject, Goto
  <2>6. /\ pc'[s] = "row" /\ req'[s].target_table = t /\ req'[s].rows = req[s].rows
        /\ req'[s].row_index = req[s].row_index + 1
    BY <1>1, <2>2, <2>10, <2>11 DEF Reject, Request
  <2>7. pc[s] \notin Resting /\ pc'[s] \notin Resting /\ pc'[s] # "upsert"
    BY <2>2, <2>6 DEF Resting
  <2> QED
    BY <1>1, <2>2, <2>5, <2>6, <2>7, RowDone
<1>3. CASE SelectDimension(s)
  <2>1. /\ pc[s] = "row" /\ pc'[s] = "upsert" /\ req' = req /\ UNCHANGED << wDimensions, answer >>
        /\ UNCHANGED dimensions
        /\ local'[s].found = DimensionsSeen(s, t)[Row(s).id]
    BY <1>1, <1>3 DEF SelectDimension, AtDimensionRow, Goto, tables, writes, TypeInv, TypeOK, Reads
  <2>2. Row(s)' = Row(s) /\ DimensionsSeen(s, t)' = DimensionsSeen(s, t)
    BY <2>1 DEF Row, DimensionsSeen
  <2>3. pc[s] \notin Resting /\ pc'[s] \notin Resting
    BY <2>1 DEF Resting
  <2> QED
    BY <1>1, <2>1, <2>2, <2>3, RowDone
<1>4. CASE (InsertDimension(s) /\ ~ Fail(s)) \/ UpdateDimension(s)
  BY <1>4, UpsertLands
<1>5. CASE Commit(s)
  <2>1. /\ pc[s] = "row" /\ ~ MoreRows(s) /\ pc'[s] = "refresh" /\ req' = req
        /\ dimensions'[t] = DimensionsSeen(s, t)
    BY <1>5 DEF Commit, Goto, TypeInv, TypeOK
  <2>2. \A k \in 1 .. Len(req[s].rows) : k < req[s].row_index
    <3>1. req[s].row_index \in Nat /\ Len(req[s].rows) \in Nat
      BY DEF TypeInv, TypeOK, Request
    <3> QED
      BY <2>1, <3>1 DEF MoreRows
  <2>3. \A k \in 1 .. Len(req[s].rows) : RowLanded(dimensions'[t], req[s].rows[k])
    BY <1>1, <2>1, <2>2 DEF Landed, Resting
  <2> QED
    BY <1>1, <2>1, <2>3 DEF Landed, Resting
<1>6. CASE Refresh(s)
  <2>1. pc[s] = "refresh" /\ pc'[s] = "idle" /\ UNCHANGED << req, dimensions >>
    BY <1>6 DEF Refresh, Goto, tables, TypeInv, TypeOK
  <2> QED
    BY <2>1 DEF Landed, Resting
<1>7. CASE Fail(s)
  <2>1. pc'[s] = "idle" /\ answer'[s] = "500"
    BY <1>7 DEF Fail, Goto, TypeInv, TypeOK
  <2> QED
    BY <2>1 DEF Landed, Resting
<1> QED
  BY <1>2, <1>3, <1>4, <1>5, <1>6, <1>7, DimensionKinds DEF Fails

-----------------------------------------------------------------------------
(***************************************************************************)
(* Hires of files that fit together.                                       *)
(***************************************************************************)
UnknownCode == {"UNKNOWN_DEPARTMENT", "UNKNOWN_JOB"}
KnownError == [field : Field, reason_code : ReasonCode \ UnknownCode]

NoUnknown(records) == \A i \in DOMAIN records : records[i].reason_code \notin UnknownCode

LEMMA OneKnownError ==
    ASSUME NEW field \in Field, NEW code \in ReasonCode \ UnknownCode
    PROVE  /\ << FieldError(field, code) >> \in Seq(KnownError)
           /\ << >> \in Seq(KnownError)
<1>1. FieldError(field, code) \in KnownError
  BY DEF FieldError, KnownError
<1> QED
  BY <1>1

LEMMA DimensionsHaveNoUnknown ==
    ASSUME NEW row, NEW key \in {"department", "job"}
    PROVE  DimensionErrors(row, key) \in Seq(KnownError)
<1>1. CheckId(row) \in Seq(KnownError)
  BY OneKnownError DEF CheckId, ErrorUnless, Field, ReasonCode, UnknownCode
<1>2. CheckName(row, key) \in Seq(KnownError)
  BY OneKnownError DEF CheckName, ErrorUnless, Field, ReasonCode, UnknownCode
<1> QED
  BY <1>1, <1>2, EmptyConcat DEF DimensionErrors

\* validate_hire finds a reference unknown only when it has looked for a row
\* that is not there.
LEMMA HiresHaveNoUnknown ==
    ASSUME NEW row, NEW dk, NEW jk,
           row.department_id = Absent \/ dk = TRUE, row.job_id = Absent \/ jk = TRUE
    PROVE  HireErrors(row, dk, jk) \in Seq(KnownError)
<1> DEFINE a == CheckId(row)
           b == CheckName(row, "name")
           c == CheckDatetime(row)
           d == CheckFkId(row.department_id, "department_id", "MISSING_DEPARTMENT")
           e == CheckFkId(row.job_id, "job_id", "MISSING_JOB")
           f == CheckReference(row.department_id, dk, "department_id", "UNKNOWN_DEPARTMENT")
           g == CheckReference(row.job_id, jk, "job_id", "UNKNOWN_JOB")
<1> USE DEF ErrorUnless, Field, ReasonCode, UnknownCode
<1>1. a \in Seq(KnownError)
  BY OneKnownError DEF CheckId
<1>2. b \in Seq(KnownError)
  BY OneKnownError DEF CheckName
<1>3. c \in Seq(KnownError)
  BY OneKnownError DEF CheckDatetime
<1>4. d \in Seq(KnownError)
  BY OneKnownError DEF CheckFkId
<1>5. e \in Seq(KnownError)
  BY OneKnownError DEF CheckFkId
<1>6. f \in Seq(KnownError) /\ g \in Seq(KnownError)
  <2>1. f = << >> /\ g = << >>
    BY DEF CheckReference
  <2>2. << >> \in Seq(KnownError)
    OBVIOUS
  <2> QED
    BY <2>1, <2>2
<1> HIDE DEF a, b, c, d, e, f, g
<1>7. /\ (a \o b) \in Seq(KnownError)
      /\ ((a \o b) \o c) \in Seq(KnownError)
      /\ (((a \o b) \o c) \o d) \in Seq(KnownError)
      /\ ((((a \o b) \o c) \o d) \o e) \in Seq(KnownError)
      /\ (((((a \o b) \o c) \o d) \o e) \o f) \in Seq(KnownError)
      /\ ((((((a \o b) \o c) \o d) \o e) \o f) \o g) \in Seq(KnownError)
  BY <1>1, <1>2, <1>3, <1>4, <1>5, <1>6, EmptyConcat
<1>8. HireErrors(row, dk, jk) = ((((((a \o b) \o c) \o d) \o e) \o f) \o g)
  BY DEF HireErrors, a, b, c, d, e, f, g
<1> QED
  BY <1>7, <1>8

LEMMA NoUnknownAdded ==
    ASSUME NEW S, NEW T, NEW first \in Seq(S), NEW second \in Seq(T),
           NoUnknown(first), NoUnknown(second)
    PROVE  NoUnknown(first \o second)
<1>1. first \in Seq(S \cup T) /\ second \in Seq(S \cup T)
  OBVIOUS
<1>2. ASSUME NEW i \in DOMAIN (first \o second)
      PROVE  \/ i \in DOMAIN first /\ (first \o second)[i] = first[i]
             \/ i - Len(first) \in DOMAIN second /\ (first \o second)[i] = second[i - Len(first)]
  BY <1>1
<1> QED
  BY <1>2 DEF NoUnknown

LEMMA RejectNoUnknown ==
    ASSUME TypeInv, NEW s \in Sessions, MoreRows(s), NEW errors \in Seq(KnownError),
           Reject(s, errors), NoUnknown(req[s].rejects)
    PROVE  NoUnknown(req'[s].rejects)
<1>1. PICK records : records = RejectedRecords(Row(s), errors)
  OBVIOUS
<1>2. req'[s].rejects = req[s].rejects \o records /\ req[s].rejects \in Seq(RejectedRecord)
  <2>1. req \in [Sessions -> Request]
    BY DEF TypeInv, TypeOK
  <2>2. req[s].rejects \in Seq(RejectedRecord) /\ DOMAIN req = Sessions
    BY <2>1 DEF Request
  <2>3. req[s] = [req[s] EXCEPT !.rejects = @] /\ "rejects" \in DOMAIN req[s]
    BY <2>1 DEF Request
  <2> QED
    BY <1>1, <2>2, <2>3 DEF Reject
<1>3. DOMAIN records = 1 .. Len(errors) /\ \A i \in 1 .. Len(errors) :
         /\ records[i] = [raw_payload |-> Row(s), reason_code |-> errors[i].reason_code,
                          field |-> errors[i].field]
         /\ errors[i] \in KnownError
  BY <1>1 DEF RejectedRecords
<1>4. NoUnknown(records)
  BY <1>3 DEF NoUnknown, KnownError
<1>5. IsSequence(records)
  <2> DEFINE record(i) == [raw_payload |-> Row(s), reason_code |-> errors[i].reason_code,
                           field |-> errors[i].field]
  <2>1. records = [i \in 1 .. Len(errors) |-> record(i)]
    BY <1>1 DEF RejectedRecords
  <2> HIDE DEF record
  <2>2. records \in Seq({record(i) : i \in 1 .. Len(errors)})
    BY <2>1
  <2> QED
    BY <2>2, Sequences
<1> QED
  BY <1>2, <1>4, <1>5, NoUnknownAdded DEF IsSequence

\* The statements that add to the rejects, or come before validate_hire looks
\* for the job.
LEMMA RejectKinds ==
    ASSUME TypeInv, NEW s \in Sessions, Statement(s) \/ Abort(s) \/ DeadlockVictim(s)
    PROVE  \/ RejectDimension(s) \/ CheckDepartment(s) \/ CheckJob(s)
           \/ req'[s].rejects = req[s].rejects /\ pc'[s] # "check_job"
<1>0. ASSUME NEW label, Goto(s, label), label # "check_job" PROVE pc'[s] # "check_job"
  BY <1>0 DEF Goto, TypeInv, TypeOK
<1>1. ASSUME Accept(s) PROVE req'[s].rejects = req[s].rejects /\ pc'[s] # "check_job"
  <2>1. req[s] \in Request
    BY DEF TypeInv, TypeOK
  <2> QED
    BY <1>0, <1>1, <2>1 DEF Accept, TypeInv, TypeOK, Request
<1>2. ASSUME Fail(s) PROVE req'[s].rejects = req[s].rejects /\ pc'[s] # "check_job"
  BY <1>0, <1>2 DEF Fail
<1>3. ASSUME NEW label, Goto(s, label), label # "check_job", UNCHANGED req
      PROVE  req'[s].rejects = req[s].rejects /\ pc'[s] # "check_job"
  BY <1>0, <1>3
<1>4. CASE SelectDimension(s) \/ InsertDimension(s) \/ UpdateDimension(s) \/ Exists(s)
           \/ AddEmployee(s)
  <2>1. CASE SelectDimension(s)
    BY <1>3, <2>1 DEF SelectDimension
  <2>2. CASE InsertDimension(s) \/ UpdateDimension(s)
    BY <1>1, <1>2, <2>2 DEF InsertDimension, UpdateDimension
  <2>3. CASE Exists(s)
    BY <1>3, <2>3 DEF Exists
  <2>4. CASE AddEmployee(s)
    BY <1>2, <1>3, <2>4 DEF AddEmployee
  <2> QED
    BY <1>4, <2>1, <2>2, <2>3, <2>4
<1>5. CASE AddFirstVersion(s) \/ AddVersion(s)
  <2>1. Fail(s) \/ Accept(s) \/ (Goto(s, "update_current") /\ UNCHANGED req)
    BY <1>5 DEF AddFirstVersion, AddVersion, InsertVersion
  <2> QED
    BY <1>1, <1>2, <1>3, <2>1
<1>6. CASE GetCurrent(s) \/ UpdateCurrent(s)
  <2>1. Fail(s) \/ Accept(s) \/ (Goto(s, "close_select") /\ UNCHANGED req)
    BY <1>6 DEF GetCurrent, UpdateCurrent
  <2> QED
    BY <1>1, <1>2, <1>3, <2>1
<1>7. CASE CloseSelect(s) \/ CloseUpdate(s) \/ Commit(s) \/ Refresh(s)
  <2>1. \E label : Goto(s, label) /\ label # "check_job" /\ UNCHANGED req
    BY <1>7 DEF CloseSelect, CloseUpdate, Commit, Refresh
  <2> QED
    BY <1>3, <2>1
<1>8. CASE Abort(s) \/ DeadlockVictim(s)
  BY <1>2, <1>8 DEF Abort, DeadlockVictim
<1> QED
  BY <1>4, <1>5, <1>6, <1>7, <1>8, OutOfRangeIsAbort DEF Statement

SeedsStay ==
    \A t \in DimensionTables, d \in DimensionIds :
        InitialDimensions[t][d] # NoRow => dimensions[t][d] # NoRow

\* Files that fit together, and no reference table among outs has failed.
Sound(u, outs) == SelfContained(u) /\ ~ ReferenceTableFailed(outs)

BatchLanded(b) ==
    b.table \in DimensionTables =>
        \A row \in ToSet(b.rows) : RowLanded(dimensions[b.table], row)

\* The reference batches that are reported as a success are committed.
ReportsLanded ==
    Running => \A i \in DOMAIN outcomes :
                   outcomes[i].success => BatchLanded(BatchesOf(upload)[i])

\* The handler that the client waits for finds every reference.
AwaitedKnown ==
    posting # Nobody /\ Sound(upload, outcomes) =>
        /\ NoUnknown(req[posting].rejects)
        /\ pc[posting] = "check_job" =>
             Row(posting).department_id = Absent \/ local[posting].department_known

RejectedKnown ==
    /\ Running /\ Sound(upload, outcomes) => NoUnknown(rejectedRows)
    /\ summary # NoSummary /\ Sound(summary.upload, summary.outcomes) =>
         NoUnknown(summary.rejected_rows)

Landings == SeedsStay /\ \A s \in Sessions : Landed(s)
CascadeInv == Landings /\ ReportsLanded /\ AwaitedKnown /\ RejectedKnown

LEMMA LandingsInit == Init => Landings
<1> SUFFICES ASSUME Init PROVE Landings
  OBVIOUS
<1>1. dimensions = InitialDimensions
  BY DEF Init
<1>2. ASSUME NEW s \in Sessions PROVE pc[s] = "idle" /\ answer[s] = "none"
  BY DEF Init
<1> QED
  BY <1>1, <1>2 DEF Landings, SeedsStay, Landed, Resting

\* No step of a session touches what the other sessions do.
LEMMA BystandersStill ==
    ASSUME TypeInv, Backings, CatalogsGrow, NEW s \in Sessions,
           Receive(s) \/ Statement(s) \/ Abort(s) \/ DeadlockVictim(s)
    PROVE  OthersStill(s)
<1>1. CASE Abort(s) \/ DeadlockVictim(s)
  BY <1>1, FailBacks DEF Abort, DeadlockVictim
<1>2. CASE (Receive(s) \/ Statement(s)) /\ ~ Abort(s)
  <2>1. Backs(s)
    BY <1>2, ReceiveBacks, DimensionBacks, CheckBacks, PersistBacks, AddEmployeeBacks,
       UpdateCurrentBacks, EndBacks, OutOfRangeIsAbort DEF Statement
  <2> QED
    BY <2>1 DEF Backs
<1> QED
  BY <1>1, <1>2

LEMMA AnswersStill ==
    ASSUME TypeInv, NEW s \in Sessions,
           Receive(s) \/ Statement(s) \/ Abort(s) \/ DeadlockVictim(s)
    PROVE  \A o \in Sessions \ {s} : answer'[o] = answer[o]
<1>1. CASE Receive(s)
  BY <1>1 DEF Receive, TypeInv, TypeOK
<1>2. CASE Works(s)
  BY <1>2 DEF Works
<1>3. CASE Fails(s)
  BY <1>3 DEF Fails, Fail, TypeInv, TypeOK
<1>4. CASE Commit(s)
  BY <1>4 DEF Commit
<1>5. CASE Refresh(s)
  BY <1>5 DEF Refresh, TypeInv, TypeOK
<1> QED
  BY <1>1, <1>2, <1>3, <1>4, <1>5, StepKinds

LEMMA LandingsStep ==
    TypeInv /\ TypeInv' /\ Accounts /\ Backings /\ Landings /\ [Next]_vars => Landings'
<1> SUFFICES ASSUME TypeInv, TypeInv', Accounts, Backings, Landings, [Next]_vars PROVE Landings'
  OBVIOUS
<1>1. CatalogsGrow
  BY NextGrowsCatalogs
<1>2. SeedsStay'
  BY <1>1 DEF Landings, SeedsStay, CatalogsGrow
<1>3. CASE UNCHANGED vars
  <2>1. \A s \in Sessions : Landed(s)'
    BY <1>1, <1>3, OtherLanded DEF vars, writes, Landings
  <2> QED
    BY <1>2, <2>1 DEF Landings
<1>4. CASE Quiet
  BY <1>3, <1>4 DEF Quiet
<1>5. ASSUME NEW s \in Sessions, Receive(s) \/ Statement(s) \/ Abort(s) \/ DeadlockVictim(s)
      PROVE  Landings'
  <2>1. OthersStill(s)
    BY <1>1, <1>5, BystandersStill
  <2>2. \A o \in Sessions \ {s} : answer'[o] = answer[o]
    BY <1>5, AnswersStill
  <2>3. ASSUME NEW o \in Sessions \ {s} PROVE Landed(o)'
    BY <1>1, <2>1, <2>2, OtherLanded DEF OthersStill, Landings
  <2>4. Landed(s)'
    <3>1. CASE Receive(s)
      <4>1. PICK t \in Targets : \E rows \in Batches(t) :
              req' = [req EXCEPT ![s] = [NoRequest EXCEPT !.target_table = t,
                                                          !.rows = rows,
                                                          !.load_id = loadSeq + 1]]
        BY <3>1 DEF Receive
      <4>2. req'[s].row_index = 1
        BY <4>1 DEF TypeInv, TypeOK, NoRequest
      <4>3. pc'[s] = "row" /\ answer'[s] = "none"
        BY <3>1 DEF Receive, Goto, TypeInv, TypeOK
      <4>4. \A k \in 1 .. Len(req'[s].rows) : ~ (k < 1)
        OBVIOUS
      <4> QED
        BY <4>2, <4>3, <4>4 DEF Landed, Resting
    <3> QED
      BY <1>1, <1>5, <3>1, OwnLanded DEF Landings
  <2> QED
    BY <1>2, <2>3, <2>4 DEF Landings
<1> QED
  BY <1>3, <1>4, <1>5 DEF Next

\* When a batch of hires is posted and no reference table has failed, whatever
\* its rows refer to is committed: the hires come last.
LEMMA HiresBacked ==
    ASSUME TypeInv, ReportInv, RunInv, CascadeInv, NEW s \in Sessions, posting = s,
           Sound(upload, outcomes), req[s].target_table = Hires, MoreRows(s)
    PROVE  /\ Row(s).department_id # Absent =>
                /\ Row(s).department_id \in DimensionIds
                /\ dimensions["departments"][Row(s).department_id] # NoRow
           /\ Row(s).job_id # Absent =>
                /\ Row(s).job_id \in DimensionIds
                /\ dimensions["jobs"][Row(s).job_id] # NoRow
<1>1. Running /\ remaining # << >> /\ posting # Nobody
  BY NobodyAssumption DEF RunInv
<1>2. PICK u \in Uploads : u = upload
  BY <1>1 DEF RunInv
<1>3. PICK B : B = BatchesOf(u)
  OBVIOUS
<1>4. PICK b : b = Head(remaining)
  OBVIOUS
<1>5. b.table = Hires /\ b.rows = req[s].rows
  BY <1>1, <1>4 DEF ReportInv, AwaitedBatch
<1>6. Progress(u, outcomes, remaining)
  BY <1>1, <1>2 DEF RunInv
<1>7. PICK m \in Nat : m = Len(outcomes) /\ DOMAIN outcomes = 1 .. m
  BY <1>6 DEF Progress
<1>8. m + 1 \in DOMAIN B /\ b = B[m + 1] /\ BatchOfFile(u, b)
  BY <1>1, <1>2, <1>3, <1>4, <1>6, <1>7, NextBatch
<1>9. Plan(u, Targets, B)
  BY <1>3, UploadIsPlanned
<1>10. Row(s) \in ToSet(RowsOf(u, Hires))
  <2>1. PICK i : i = req[s].row_index
    OBVIOUS
  <2>2. i \in 1 .. Len(b.rows) /\ Row(s) = b.rows[i]
    BY <1>5, <2>1 DEF MoreRows, Row, TypeInv, TypeOK, Request
  <2>3. PICK before \in Nat : before = Before(b.batch_index + 1)
    <3>1. b.batch_index + 1 \in Nat \ {0}
      BY <1>8 DEF BatchOfFile
    <3> QED
      BY <3>1, Befores
  <2>4. /\ before + Len(b.rows) <= Len(RowsOf(u, Hires))
        /\ b.rows[i] = RowsOf(u, Hires)[before + i]
    BY <1>5, <1>8, <2>2, <2>3 DEF BatchOfFile, PartOf
  <2>5. DOMAIN RowsOf(u, Hires) = 1 .. Len(RowsOf(u, Hires)) /\ Len(RowsOf(u, Hires)) \in Nat
    BY RowsAreRows DEF IsSequence, Targets
  <2>6. before + i \in DOMAIN RowsOf(u, Hires)
    <3>1. Len(b.rows) \in Nat
      BY <1>8, BatchSizeAssumption DEF BatchOfFile
    <3> QED
      BY <2>2, <2>4, <2>5, <3>1
  <2> QED
    BY <2>2, <2>4, <2>6 DEF ToSet
<1>11. Row(s) \in HireRow
  BY RowType
<1>12. ASSUME NEW t \in DimensionTables, NEW id \in DimensionIds,
              \/ InitialDimensions[t][id] # NoRow
              \/ \E row \in ToSet(RowsOf(u, t)) : row.id = id /\ row.name # Absent
       PROVE  dimensions[t][id] # NoRow
  <2>1. CASE InitialDimensions[t][id] # NoRow
    BY <2>1 DEF CascadeInv, Landings, SeedsStay
  <2>2. ASSUME NEW row \in ToSet(RowsOf(u, t)), row.id = id, row.name # Absent
        PROVE  dimensions[t][id] # NoRow
    <3>1. t \in Targets /\ t # Hires
      BY DEF Targets, DimensionTables, Hires
    <3>2. PICK i \in DOMAIN B : B[i].table = t /\ row \in ToSet(B[i].rows)
      BY <1>9, <3>1 DEF Plan
    <3>3. i \in DOMAIN outcomes
      <4>1. i # m + 1 /\ ~ (m + 1 < i)
        BY <1>5, <1>8, <1>9, <3>1, <3>2 DEF Plan
      <4>2. i \in Nat \ {0}
        BY <1>9 DEF Plan, IsSequence
      <4> QED
        BY <1>7, <4>1, <4>2
    <3>4. outcomes[i].table = t
      BY <1>3, <1>6, <3>2, <3>3 DEF Progress, ReportsOn
    <3>5. outcomes[i].success
      BY <3>3, <3>4 DEF Sound, ReferenceTableFailed
    <3>6. BatchLanded(B[i])
      BY <1>1, <1>2, <1>3, <3>3, <3>5 DEF CascadeInv, ReportsLanded
    <3> QED
      BY <2>2, <3>2, <3>6 DEF BatchLanded, RowLanded
  <2> QED
    BY <1>12, <2>1, <2>2
<1>13. SelfContained(u)
  BY <1>2 DEF Sound
<1>14. ASSUME Row(s).department_id # Absent
       PROVE  /\ Row(s).department_id \in DimensionIds
              /\ dimensions["departments"][Row(s).department_id] # NoRow
  <2>1. Row(s).department_id \in DimensionIds /\ "departments" \in DimensionTables
    BY <1>11, <1>14 DEF HireRow, DimensionTables
  <2> QED
    BY <1>10, <1>12, <1>13, <1>14, <2>1 DEF SelfContained
<1>15. ASSUME Row(s).job_id # Absent
       PROVE  /\ Row(s).job_id \in DimensionIds
              /\ dimensions["jobs"][Row(s).job_id] # NoRow
  <2>1. Row(s).job_id \in DimensionIds /\ "jobs" \in DimensionTables
    BY <1>11, <1>15 DEF HireRow, DimensionTables
  <2> QED
    BY <1>10, <1>12, <1>13, <1>15, <2>1 DEF SelfContained
<1> QED
  BY <1>14, <1>15

\* A run that is still sound was so before its last outcome.
LEMMA SoundBefore ==
    ASSUME NEW u, NEW outs \in Seq(BatchOutcome), NEW o \in BatchOutcome, NEW more,
           more = Append(outs, o), Sound(u, more)
    PROVE  /\ Sound(u, outs)
           /\ o.success \/ o.table \notin DimensionTables
<1>1. PICK m \in Nat : m = Len(outs) /\ DOMAIN outs = 1 .. m
  OBVIOUS
<1>2. DOMAIN more = 1 .. m + 1 /\ more[m + 1] = o /\ \A i \in 1 .. m : more[i] = outs[i]
  BY <1>1
<1>3. \A i \in 1 .. m + 1 : more[i].success \/ more[i].table \notin DimensionTables
  BY <1>2 DEF Sound, ReferenceTableFailed
<1>4. \A i \in 1 .. m : outs[i].success \/ outs[i].table \notin DimensionTables
  BY <1>2, <1>3
<1> QED
  BY <1>1, <1>2, <1>3, <1>4 DEF Sound, ReferenceTableFailed

LEMMA EmptyKnown == NoUnknown(<< >>)
<1>1. DOMAIN << >> = {}
  OBVIOUS
<1> QED
  BY <1>1 DEF NoUnknown

LEMMA CascadeInit == LoadInit => CascadeInv
<1> SUFFICES ASSUME LoadInit PROVE CascadeInv
  OBVIOUS
<1>1. phase = "ready" /\ posting = Nobody /\ summary = NoSummary /\ Init
  BY DEF LoadInit
<1> QED
  BY <1>1, LandingsInit DEF CascadeInv, ReportsLanded, AwaitedKnown, RejectedKnown, Running

\* What is committed of a reference batch stays.
LEMMA BatchStaysLanded ==
    ASSUME CatalogsGrow, NEW b, BatchLanded(b)
    PROVE  b.table \in DimensionTables =>
               \A row \in ToSet(b.rows) : RowLanded(dimensions'[b.table], row)
BY DEF CatalogsGrow, BatchLanded, RowLanded

\* A reference batch that is answered with a 200 is committed.
LEMMA TakenLanded ==
    ASSUME TypeInv, ReportInv, RunInv, Landings, NEW s \in Sessions, posting = s, Running,
           remaining # << >>, NEW b, b = Head(remaining), answer[s] = "200"
    PROVE  BatchLanded(b)
<1>1. req[s].target_table = b.table /\ req[s].rows = b.rows
  BY NobodyAssumption DEF ReportInv, AwaitedBatch
<1>2. PICK n \in Nat : n = Len(req[s].rows) /\ DOMAIN req[s].rows = 1 .. n
  BY DEF TypeInv, RowInv
<1>3. Landed(s)
  BY DEF Landings
<1>4. b.table \in DimensionTables =>
          \A k \in 1 .. n : RowLanded(dimensions[b.table], b.rows[k])
  BY <1>1, <1>2, <1>3 DEF Landed
<1>5. ToSet(b.rows) = {b.rows[k] : k \in 1 .. n}
  BY <1>1, <1>2 DEF ToSet
<1> QED
  BY <1>4, <1>5 DEF BatchLanded

LEMMA ReportedStillLanded ==
    ASSUME CatalogsGrow, ReportsLanded, UNCHANGED << outcomes, upload >>, Running' => Running
    PROVE  ReportsLanded'
<1>1. PICK B : B = BatchesOf(upload)
  OBVIOUS
<1>2. \A i \in DOMAIN outcomes : Running /\ outcomes[i].success => BatchLanded(B[i])
  BY <1>1 DEF ReportsLanded
<1>3. \A i \in DOMAIN outcomes : Running /\ outcomes[i].success => BatchLanded(B[i])'
  BY <1>2, BatchStaysLanded DEF BatchLanded
<1>4. B = BatchesOf(upload')
  BY <1>1
<1> QED
  BY <1>3, <1>4 DEF ReportsLanded, BatchLanded

\* The report of a batch: a reference batch that has succeeded is committed,
\* and the run was sound when it was posted.
LEMMA ReportCascade ==
    ASSUME RunInv, CascadeInv, Landings', CatalogsGrow, Running, remaining # << >>,
           NEW o \in BatchOutcome, NEW b, b = Head(remaining), ReportsOn(o, b), NEW rows,
           IsSequence(rows), Report(o, rows), o.success => BatchLanded(b),
           Sound(upload, outcomes) => NoUnknown(rows)
    PROVE  CascadeInv'
<1>1. /\ outcomes' = Append(outcomes, o) /\ rejectedRows' = rejectedRows \o rows
      /\ posting' = Nobody /\ UNCHANGED << upload, summary, phase, dimensions >>
  BY DEF Report, vars, tables
<1>2. PICK u \in Uploads : u = upload
  BY DEF RunInv
<1>3. outcomes \in Seq(BatchOutcome) /\ Progress(u, outcomes, remaining)
      /\ Accounted(u, outcomes, rejectedRows)
  BY <1>2 DEF RunInv
<1>4. PICK B : B = BatchesOf(u)
  OBVIOUS
<1>5. PICK m \in Nat : m = Len(outcomes) /\ DOMAIN outcomes = 1 .. m
  BY <1>3
<1>6. b = B[m + 1]
  BY <1>2, <1>3, <1>4, <1>5, NextBatch
<1>7. PICK more : more = Append(outcomes, o)
  OBVIOUS
<1>8. DOMAIN more = 1 .. m + 1 /\ more[m + 1] = o /\ \A i \in 1 .. m : more[i] = outcomes[i]
  BY <1>3, <1>5, <1>7
<1>9. ASSUME NEW i \in 1 .. m + 1, more[i].success PROVE BatchLanded(B[i])
  <2>1. CASE i = m + 1
    BY <1>6, <1>8, <1>9, <2>1
  <2>2. CASE i # m + 1
    <3>1. i \in DOMAIN outcomes /\ outcomes[i].success
      BY <1>5, <1>8, <1>9, <2>2
    <3> QED
      BY <1>2, <1>4, <3>1 DEF CascadeInv, ReportsLanded
  <2> QED
    BY <2>1, <2>2
<1>10. ReportsLanded'
  <2>1. \A i \in DOMAIN more : more[i].success => BatchLanded(B[i])'
    BY <1>1, <1>8, <1>9 DEF BatchLanded
  <2> QED
    BY <1>1, <1>2, <1>4, <1>7, <2>1 DEF ReportsLanded, BatchLanded
<1>11. AwaitedKnown'
  BY <1>1 DEF AwaitedKnown
<1>12. ASSUME Sound(u, more) PROVE NoUnknown(rejectedRows')
  <2>1. Sound(u, outcomes)
    BY <1>3, <1>7, <1>12, SoundBefore
  <2>2. NoUnknown(rejectedRows) /\ NoUnknown(rows)
    BY <1>2, <2>1 DEF CascadeInv, RejectedKnown
  <2> QED
    BY <1>1, <1>3, <2>2, NoUnknownAdded DEF Accounted, IsSequence
<1>13. RejectedKnown'
  BY <1>1, <1>2, <1>7, <1>12 DEF CascadeInv, RejectedKnown, Running
<1> QED
  BY <1>10, <1>11, <1>13 DEF CascadeInv

LEMMA TakenKnown ==
    ASSUME TypeInv, Responses, RunInv, CascadeInv, NEW s \in Sessions, posting = s,
           Sound(upload, outcomes), NEW b
    PROVE  NoUnknown(RejectedRowsOf(b, s))
<1>1. NoUnknown(req[s].rejects)
  BY NobodyAssumption DEF CascadeInv, AwaitedKnown
<1>2. PICK n \in Nat : n = Len(response[s]) /\ n = Len(req[s].rejects)
  BY DEF Responses, ResponseInv
<1>3. DOMAIN req[s].rejects = 1 .. n
  BY <1>2 DEF TypeInv, TypeOK, Request
<1>4. CASE answer[s] # "200"
  BY <1>4, EmptyKnown DEF RejectedRowsOf
<1>5. CASE answer[s] = "200"
  <2>1. PICK rows : rows = RejectedRowsOf(b, s)
    OBVIOUS
  <2>2. /\ DOMAIN rows = 1 .. n
        /\ \A i \in 1 .. n : rows[i].reason_code = req[s].rejects[i].reason_code
    BY <1>2, <1>5, <2>1 DEF RejectedRowsOf
  <2> QED
    BY <1>1, <1>3, <2>1, <2>2 DEF NoUnknown
<1> QED
  BY <1>4, <1>5

\* The handler that the client waits for finds what its hires refer to.
LEMMA AwaitedFinds ==
    ASSUME TypeInv, ReportInv, RunInv, CascadeInv, NEW s \in Sessions, posting = s,
           Sound(upload, outcomes), req[s].target_table = Hires, MoreRows(s)
    PROVE  /\ Row(s).department_id = Absent
                \/ Known(s, "departments", Row(s).department_id) = TRUE
           /\ Row(s).job_id = Absent \/ Known(s, "jobs", Row(s).job_id) = TRUE
<1>1. ASSUME NEW t \in DimensionTables, NEW id \in DimensionIds, id # Absent,
             dimensions[t][id] # NoRow
      PROVE  Known(s, t, id) = TRUE
  BY <1>1, SeenType DEF Known
<1>2. "departments" \in DimensionTables /\ "jobs" \in DimensionTables
  BY DEF DimensionTables
<1> QED
  BY <1>1, <1>2, HiresBacked

LEMMA AwaitedWorks ==
    ASSUME TypeInv, ReportInv, RunInv, CascadeInv, NEW s \in Sessions, posting = s,
           Statement(s) \/ Abort(s) \/ DeadlockVictim(s), Sound(upload, outcomes)
    PROVE  /\ NoUnknown(req'[s].rejects)
           /\ pc'[s] = "check_job" => Row(s)'.department_id = Absent \/ local'[s].department_known
<1>1. /\ NoUnknown(req[s].rejects)
      /\ pc[s] = "check_job" => Row(s).department_id = Absent \/ local[s].department_known
  BY NobodyAssumption DEF CascadeInv, AwaitedKnown
<1>2. CASE RejectDimension(s)
  <2>1. PICK errors : errors = DimensionErrors(Row(s), NameKey(req[s].target_table))
    OBVIOUS
  <2>2. Reject(s, errors) /\ MoreRows(s)
    BY <1>2, <2>1 DEF RejectDimension, AtDimensionRow
  <2>3. errors \in Seq(KnownError)
    BY <2>1, DimensionsHaveNoUnknown DEF NameKey
  <2>4. pc'[s] # "check_job"
    BY <2>2 DEF Reject, Goto, TypeInv, TypeOK
  <2> QED
    BY <1>1, <2>2, <2>3, <2>4, RejectNoUnknown
<1>3. CASE CheckDepartment(s)
  <2>1. req' = req /\ Row(s)' = Row(s) /\ req[s].target_table = Hires /\ MoreRows(s)
    BY <1>3 DEF CheckDepartment, Row
  <2>2. local'[s].department_known = Known(s, "departments", Row(s).department_id)
    BY <1>3 DEF CheckDepartment, TypeInv, TypeOK, Reads
  <2> QED
    BY <1>1, <2>1, <2>2, AwaitedFinds
<1>4. CASE CheckJob(s)
  <2>1. PICK errors : errors = HireErrors(Row(s), local[s].department_known,
                                          Known(s, "jobs", Row(s).job_id))
    OBVIOUS
  <2>2. /\ pc[s] = "check_job"
        /\ Reject(s, errors) \/ (Goto(s, "exists") /\ req' = req)
    BY <1>4, <2>1 DEF CheckJob
  <2>3. MoreRows(s) /\ req[s].target_table = Hires
    BY <2>2 DEF TypeInv, RowInv
  <2>4. Row(s).department_id = Absent \/ local[s].department_known = TRUE
    BY <1>1, <2>2 DEF TypeInv, TypeOK, Reads
  <2>5. errors \in Seq(KnownError)
    BY <2>1, <2>3, <2>4, AwaitedFinds, HiresHaveNoUnknown
  <2>6. pc'[s] # "check_job"
    BY <2>2 DEF Reject, Goto, TypeInv, TypeOK
  <2> QED
    BY <1>1, <2>2, <2>3, <2>5, <2>6, RejectNoUnknown
<1>5. CASE req'[s].rejects = req[s].rejects /\ pc'[s] # "check_job"
  BY <1>1, <1>5
<1> QED
  BY <1>2, <1>3, <1>4, <1>5, RejectKinds

LEMMA ServerCascade ==
    ASSUME TypeInv, TypeInv', Backings, ReportInv, RunInv, CascadeInv, Landings', CatalogsGrow,
           NEW s \in Sessions, ServerStep(s)
    PROVE  CascadeInv'
<1>1. /\ Statement(s) \/ Abort(s) \/ DeadlockVictim(s)
      /\ UNCHANGED << phase, upload, posting, outcomes, rejectedRows, summary >>
  BY DEF ServerStep, client
<1>2. Running' <=> Running
  BY <1>1 DEF Running
<1>3. ReportsLanded'
  BY <1>1, <1>2, ReportedStillLanded DEF CascadeInv
<1>4. AwaitedKnown'
  <2> SUFFICES ASSUME posting # Nobody, Sound(upload, outcomes)
               PROVE  /\ NoUnknown(req'[posting].rejects)
                      /\ pc'[posting] = "check_job" =>
                           Row(posting)'.department_id = Absent \/ local'[posting].department_known
    BY <1>1 DEF AwaitedKnown, Row
  <2>1. CASE posting = s
    BY <1>1, <2>1, AwaitedWorks
  <2>2. CASE posting # s
    <3>1. posting \in Sessions \ {s}
      BY <2>2 DEF RunInv
    <3>2. /\ pc'[posting] = pc[posting] /\ req'[posting] = req[posting]
          /\ local'[posting] = local[posting]
      BY <1>1, <3>1, BystandersStill DEF OthersStill
    <3>3. Row(posting)' = Row(posting)
      BY <1>1, <3>2 DEF Row
    <3> QED
      BY <3>2, <3>3 DEF CascadeInv, AwaitedKnown
  <2> QED
    BY <2>1, <2>2
<1>5. RejectedKnown'
  BY <1>1, <1>2 DEF CascadeInv, RejectedKnown
<1> QED
  BY <1>3, <1>4, <1>5 DEF CascadeInv

LEMMA PostCascade ==
    ASSUME TypeInv, RunInv, CascadeInv, Landings', CatalogsGrow, NEW s \in Sessions, PostBatch(s)
    PROVE  CascadeInv'
<1>1. /\ posting' = s
      /\ UNCHANGED << phase, upload, outcomes, rejectedRows, summary >>
  BY DEF PostBatch
<1>2. Running' <=> Running
  BY <1>1 DEF Running
<1>3. PICK t \in Targets : \E rows \in Batches(t) :
        req' = [req EXCEPT ![s] = [NoRequest EXCEPT !.target_table = t,
                                                    !.rows = rows,
                                                    !.load_id = loadSeq + 1]]
  BY DEF PostBatch, Receive
<1>4. req'[s].rejects = << >>
  BY <1>3 DEF TypeInv, TypeOK, NoRequest
<1>5. pc'[s] # "check_job"
  BY DEF PostBatch, Receive, Goto, TypeInv, TypeOK
<1>6. AwaitedKnown'
  BY <1>1, <1>4, <1>5, EmptyKnown DEF AwaitedKnown
<1>7. ReportsLanded'
  BY <1>1, <1>2, ReportedStillLanded DEF CascadeInv
<1>8. RejectedKnown'
  BY <1>1, <1>2 DEF CascadeInv, RejectedKnown
<1> QED
  BY <1>6, <1>7, <1>8 DEF CascadeInv

LEMMA CascadeStep ==
    /\ TypeInv /\ TypeInv' /\ Accounts /\ Backings /\ Responses /\ ReportInv /\ RunInv
    /\ CascadeInv /\ [LoadNext]_loadVars
    => CascadeInv'
<1> SUFFICES ASSUME TypeInv, TypeInv', Accounts, Backings, Responses, ReportInv, RunInv,
                    CascadeInv, [LoadNext]_loadVars
             PROVE  CascadeInv'
  OBVIOUS
<1>1. [Next]_vars
  BY ServerNext
<1>2. Landings' /\ CatalogsGrow
  BY <1>1, LandingsStep, NextGrowsCatalogs DEF CascadeInv
<1>3. CASE UNCHANGED loadVars \/ LoadQuiet
  <2>1. UNCHANGED << req, pc, local, phase, upload, posting, outcomes, rejectedRows, summary >>
    BY <1>3 DEF LoadQuiet, loadVars, client, vars
  <2>2. Row(posting)' = Row(posting)
    BY <2>1 DEF Row
  <2>3. ReportsLanded'
    BY <1>2, <2>1, ReportedStillLanded DEF CascadeInv, Running
  <2> QED
    BY <1>2, <2>1, <2>2, <2>3 DEF CascadeInv, AwaitedKnown, RejectedKnown, Running
<1>4. CASE StartRun
  <2>1. /\ outcomes' = << >> /\ rejectedRows' = << >> /\ posting' = posting
        /\ UNCHANGED summary /\ Ready
    BY <1>4 DEF StartRun
  <2>2. posting = Nobody
    BY <2>1 DEF RunInv, Ready, Running
  <2>3. ReportsLanded'
    <3>1. DOMAIN << >> = {}
      OBVIOUS
    <3> QED
      BY <2>1, <3>1 DEF ReportsLanded
  <2> QED
    BY <1>2, <2>1, <2>2, <2>3, EmptyKnown DEF CascadeInv, AwaitedKnown, RejectedKnown
<1>5. CASE Interrupt
  <2>1. /\ phase' = "ready" /\ posting = Nobody /\ UNCHANGED << posting, summary >>
    BY <1>5 DEF Interrupt, Between
  <2> QED
    BY <1>2, <2>1 DEF CascadeInv, ReportsLanded, AwaitedKnown, RejectedKnown, Running
<1>6. CASE FinishRun
  <2>1. /\ phase' = "ready" /\ posting = Nobody /\ UNCHANGED posting /\ Running
        /\ summary' = [outcomes |-> outcomes, rejected_rows |-> rejectedRows,
                       upload |-> upload, alone |-> alone, run |-> runs]
    BY <1>6 DEF FinishRun, Between
  <2>2. /\ summary'.upload = upload /\ summary'.outcomes = outcomes
        /\ summary'.rejected_rows = rejectedRows
    BY <2>1
  <2> QED
    BY <1>2, <2>1, <2>2 DEF CascadeInv, ReportsLanded, AwaitedKnown, RejectedKnown, Running
<1>7. ASSUME Running, remaining # << >>, Report(FailedOutcome(Head(remaining)), << >>)
      PROVE  CascadeInv'
  <2>1. PICK b : b = Head(remaining) /\ BatchOfFile(upload, b) /\ upload \in Uploads
    BY <1>7, NextBatch DEF RunInv
  <2>2. FailedOutcome(b) \in BatchOutcome /\ ReportsOn(FailedOutcome(b), b)
        /\ FailedOutcome(b).success = FALSE
    BY <2>1 DEF FailedOutcome, BatchOutcome, ReportsOn, BatchOfFile
  <2>3. IsSequence(<< >>)
    BY DEF IsSequence
  <2> QED
    BY <1>2, <1>7, <2>1, <2>2, <2>3, EmptyKnown, ReportCascade
<1>8. CASE Refused
  BY <1>7, <1>8 DEF Refused, Between
<1>9. ASSUME NEW s \in Sessions, GiveUp(s) PROVE CascadeInv'
  <2>1. Running /\ remaining # << >>
    BY <1>9, NobodyAssumption DEF GiveUp, TimedOut, RunInv
  <2> QED
    BY <1>7, <1>9, <2>1 DEF GiveUp
<1>10. ASSUME NEW s \in Sessions, TakeAnswer(s) PROVE CascadeInv'
  <2>1. Running /\ remaining # << >> /\ posting # Nobody /\ posting = s
    BY <1>10, NobodyAssumption DEF TakeAnswer, RunInv
  <2>2. PICK b : b = Head(remaining) /\ BatchOfFile(upload, b) /\ upload \in Uploads
    BY <2>1, NextBatch DEF RunInv
  <2>3. PICK o : o = OutcomeOf(b, s)
    OBVIOUS
  <2>4. o \in BatchOutcome /\ ReportsOn(o, b)
    BY <2>2, <2>3, OutcomeTyped
  <2>5. PICK rows : rows = RejectedRowsOf(b, s)
    OBVIOUS
  <2>6. IsSequence(rows)
    <3>1. req[s].rows = b.rows
      BY <2>1, <2>2 DEF ReportInv, AwaitedBatch
    <3> QED
      BY <2>2, <2>5, <3>1, TakenRowsFit DEF RowsFit
  <2>7. o.success => BatchLanded(b)
    <3>1. o.success => answer[s] = "200"
      BY <2>3 DEF OutcomeOf, FailedOutcome
    <3> QED
      BY <2>1, <2>2, <3>1, TakenLanded DEF CascadeInv
  <2>8. Sound(upload, outcomes) => NoUnknown(rows)
    BY <2>1, <2>5, TakenKnown
  <2>9. Report(o, rows)
    BY <1>10, <2>2, <2>3, <2>5 DEF TakeAnswer
  <2> QED
    BY <1>2, <2>1, <2>2, <2>4, <2>6, <2>7, <2>8, <2>9, ReportCascade
<1>11. ASSUME NEW s \in Sessions, PostBatch(s) PROVE CascadeInv'
  BY <1>2, <1>11, PostCascade
<1>12. ASSUME NEW s \in Sessions, ServerStep(s) PROVE CascadeInv'
  BY <1>2, <1>12, ServerCascade
<1> QED
  BY <1>3, <1>4, <1>5, <1>6, <1>8, <1>9, <1>10, <1>11, <1>12 DEF LoadNext, ClientStep

\* A hire of files that fit together is rejected for an unknown department or
\* job only when the summary says that a reference table failed: for every set
\* of files, and whatever handlers of given-up uploads do beside the run.
THEOREM CascadeAlwaysFlagged == LoadSpec => []CascadeIsFlagged
<1>1. ASSUME RunInv, CascadeInv PROVE CascadeIsFlagged
  <2> SUFFICES ASSUME summary # NoSummary, SelfContained(summary.upload),
                      ~ ReferenceTableFailed(summary.outcomes)
               PROVE  \A r \in ToSet(summary.rejected_rows) : r.reason_code \notin UnknownCode
    BY DEF CascadeIsFlagged, UnknownCode
  <2>1. NoUnknown(summary.rejected_rows)
    BY <1>1 DEF CascadeInv, RejectedKnown, Sound
  <2> QED
    BY <2>1 DEF NoUnknown, ToSet
<1>2. Consistent => TypeInv
  BY DEF Consistent
<1>3. RunInv /\ CascadeInv => CascadeIsFlagged
  BY <1>1
<1> QED
  BY <1>2, <1>3, RunAlways, ResponsesInit, ResponsesStep, BackingsInit, BackingsStep,
     CascadeInit, CascadeStep, LoadImplementsIngest, ConsistentAlways, AccountsKept, PTL
  DEF LoadSpec, Spec

-----------------------------------------------------------------------------
(***************************************************************************)
(* What the tables hold of the rows of some files.                         *)
(***************************************************************************)

\* The rows that some uploads have for each table.
RowsIn(W) == [t \in Targets |-> UNION {ToSet(RowsOf(w, t)) : w \in W}]

SaysName(R, t, d, name) == \E row \in R[t] : row.id = d /\ row.name = name
SaysHire(R, e, a) == \E row \in R[Hires] : row.id = e /\ RowAttributes(row) = a

\* A table has for a key what one of the rows R says of it.
NameStands(R, t, table, d) == d \in DimensionIds /\ SaysName(R, t, d, table[d])
HireStands(R, table, e) ==
    e \in EmployeeIds /\ table[e] # NoRow /\ SaysHire(R, e, table[e].current)
RowStands(R, t, names, hires, id) ==
    /\ t \in DimensionTables => NameStands(R, t, names[t], id)
    /\ t = Hires => HireStands(R, hires, id)

NamesSeen(s) == [t \in DimensionTables |-> DimensionsSeen(s, t)]
Sees(R, s, t, id) == RowStands(R, t, NamesSeen(s), EmployeesSeen(s), id)
Holds(R, t, id) == RowStands(R, t, dimensions, employees, id)

\* Session s writes nothing but rows of R.
Own(R, s) ==
    /\ pc[s] \notin Resting =>
         \A k \in 1 .. Len(req[s].rows) : req[s].rows[k] \in R[req[s].target_table]
    /\ \A t \in DimensionTables, d \in DimensionIds :
         wDimensions[s][t][d] # NoRow => SaysName(R, t, d, wDimensions[s][t][d])
    /\ \A e \in EmployeeIds :
         wEmployees[s][e] # NoRow => pc[s] \notin Resting /\ SaysHire(R, e, wEmployees[s][e].current)

\* What a step publishes is said by R.
Moves(R) ==
    /\ \A t \in DimensionTables, d \in DimensionIds :
         dimensions'[t][d] = dimensions[t][d] \/ SaysName(R, t, d, dimensions'[t][d])
    /\ \A e \in EmployeeIds :
         \/ employees'[e] = employees[e]
         \/ employees'[e] # NoRow /\ SaysHire(R, e, employees'[e].current)

\* Session s keeps what it has written.
Keeps(s) ==
    /\ \A t \in DimensionTables, d \in DimensionIds :
         wDimensions[s][t][d] # NoRow => wDimensions'[s][t][d] # NoRow
    /\ \A e \in EmployeeIds : wEmployees[s][e] # NoRow => wEmployees'[s][e] # NoRow

LEMMA TablesMove ==
    ASSUME TypeInv, [Next]_vars, NEW R, \A s \in Sessions : Own(R, s)
    PROVE  Moves(R)
<1>1. CASE UNCHANGED << dimensions, employees, versions >>
  BY <1>1 DEF Moves
<1>2. ASSUME NEW s \in Sessions, Commit(s) PROVE Moves(R)
  <2>1. /\ \A t \in DimensionTables : dimensions'[t] = DimensionsSeen(s, t)
        /\ employees' = EmployeesSeen(s)
    BY <1>2 DEF Commit
  <2>2. ASSUME NEW t \in DimensionTables, NEW d \in DimensionIds
        PROVE  dimensions'[t][d] = dimensions[t][d] \/ SaysName(R, t, d, dimensions'[t][d])
    BY <2>1, SeenType DEF Own
  <2>3. ASSUME NEW e \in EmployeeIds
        PROVE  \/ employees'[e] = employees[e]
               \/ employees'[e] # NoRow /\ SaysHire(R, e, employees'[e].current)
    <3>1. employees'[e] = IF wEmployees[s][e] = NoRow THEN employees[e] ELSE wEmployees[s][e]
      BY <2>1, SeenType
    <3> QED
      BY <3>1 DEF Own
  <2> QED
    BY <2>2, <2>3 DEF Moves
<1> QED
  BY <1>1, <1>2, OnlyCommitPublishes

LEMMA HoldsOn ==
    ASSUME NEW R, Moves(R), NEW t, NEW id, Holds(R, t, id)
    PROVE  Holds(R, t, id)'
<1>1. t \in DimensionTables => NameStands(R, t, dimensions'[t], id)
  BY DEF Holds, RowStands, NameStands, Moves
<1>2. t = Hires => HireStands(R, employees', id)
  BY DEF Holds, RowStands, HireStands, Moves
<1> QED
  BY <1>1, <1>2 DEF Holds, RowStands

LEMMA SeesOn ==
    ASSUME TypeInv, TypeInv', NEW R, NEW s \in Sessions, Moves(R), Own(R, s)', Keeps(s),
           NEW t, NEW id, Sees(R, s, t, id)
    PROVE  Sees(R, s, t, id)'
<1>1. ASSUME t \in DimensionTables PROVE NameStands(R, t, DimensionsSeen(s, t)', id)
  <2>1. id \in DimensionIds /\ SaysName(R, t, id, DimensionsSeen(s, t)[id])
    BY <1>1 DEF Sees, RowStands, NameStands, NamesSeen
  <2>2. DimensionsSeen(s, t)[id] = IF wDimensions[s][t][id] = NoRow THEN dimensions[t][id]
                                                                  ELSE wDimensions[s][t][id]
    BY <1>1, <2>1, SeenType
  <2>3. DimensionsSeen(s, t)'[id] = IF wDimensions'[s][t][id] = NoRow THEN dimensions'[t][id]
                                                                    ELSE wDimensions'[s][t][id]
    <3>1. DOMAIN dimensions'[t] = DimensionIds
      BY <1>1 DEF TypeInv, TypeOK
    <3> QED
      BY <2>1, <3>1 DEF DimensionsSeen, Over
  <2>4. CASE wDimensions'[s][t][id] = NoRow
    <3>1. wDimensions[s][t][id] = NoRow
      BY <1>1, <2>1, <2>4 DEF Keeps
    <3>2. dimensions'[t][id] = dimensions[t][id] \/ SaysName(R, t, id, dimensions'[t][id])
      BY <1>1, <2>1 DEF Moves
    <3> QED
      BY <2>1, <2>2, <2>3, <2>4, <3>1, <3>2 DEF NameStands
  <2>5. CASE wDimensions'[s][t][id] # NoRow
    <3>1. SaysName(R, t, id, wDimensions'[s][t][id])
      BY <1>1, <2>1, <2>5 DEF Own, SaysName
    <3> QED
      BY <2>1, <2>3, <2>5, <3>1 DEF NameStands
  <2> QED
    BY <2>4, <2>5
<1>2. ASSUME t = Hires PROVE HireStands(R, EmployeesSeen(s)', id)
  <2>1. /\ id \in EmployeeIds /\ EmployeesSeen(s)[id] # NoRow
        /\ SaysHire(R, id, EmployeesSeen(s)[id].current)
    BY <1>2 DEF Sees, RowStands, HireStands
  <2>2. EmployeesSeen(s)[id] = IF wEmployees[s][id] = NoRow THEN employees[id]
                                                          ELSE wEmployees[s][id]
    BY <2>1, SeenType
  <2>3. EmployeesSeen(s)'[id] = IF wEmployees'[s][id] = NoRow THEN employees'[id]
                                                            ELSE wEmployees'[s][id]
    <3>1. DOMAIN employees' = EmployeeIds
      BY DEF TypeInv, TypeOK
    <3> QED
      BY <2>1, <3>1 DEF EmployeesSeen, Over
  <2>4. CASE wEmployees'[s][id] = NoRow
    <3>1. wEmployees[s][id] = NoRow
      BY <2>1, <2>4 DEF Keeps
    <3>2. \/ employees'[id] = employees[id]
          \/ employees'[id] # NoRow /\ SaysHire(R, id, employees'[id].current)
      BY <2>1 DEF Moves
    <3> QED
      BY <2>1, <2>2, <2>3, <2>4, <3>1, <3>2 DEF HireStands
  <2>5. CASE wEmployees'[s][id] # NoRow
    <3>1. SaysHire(R, id, wEmployees'[s][id].current)
      BY <2>1, <2>5 DEF Own, SaysHire
    <3> QED
      BY <2>1, <2>3, <2>5, <3>1 DEF HireStands
  <2> QED
    BY <2>4, <2>5
<1> QED
  BY <1>1, <1>2 DEF Sees, RowStands, NamesSeen

\* The writes of a statement: none, all undone, or the one of its row.
LEMMA WriteKinds ==
    ASSUME TypeInv, Backings, NEW s \in Sessions, Statement(s) \/ Abort(s) \/ DeadlockVictim(s)
    PROVE  \/ Fail(s) \/ Commit(s)
           \/ UNCHANGED << wDimensions, wEmployees >>
           \/ /\ pc[s] = "upsert"
              /\ WriteDimension(s, req[s].target_table, Row(s).id, Row(s).name)
              /\ UNCHANGED wEmployees
           \/ /\ pc[s] \in {"add_employee", "update_current"}
              /\ \E r : /\ wEmployees' = [wEmployees EXCEPT ![s][Row(s).id] = r]
                        /\ r # NoRow /\ r.current = RowAttributes(Row(s))
              /\ UNCHANGED wDimensions
<1> USE DEF writes
<1>1. CASE Fail(s) \/ Commit(s)
  BY <1>1
<1>2. CASE Abort(s) \/ DeadlockVictim(s)
  BY <1>1, <1>2 DEF Abort, DeadlockVictim
<1>3. CASE RejectDimension(s) \/ SelectDimension(s) \/ CheckDepartment(s) \/ CheckJob(s)
           \/ Exists(s) \/ CloseSelect(s) \/ CloseUpdate(s) \/ Refresh(s)
  <2>1. UNCHANGED << wDimensions, wEmployees >>
    BY <1>3 DEF RejectDimension, SelectDimension, CheckDepartment, CheckJob, Exists, CloseSelect,
                CloseUpdate, Refresh
  <2> QED
    BY <2>1
<1>4. CASE GetCurrent(s) \/ AddFirstVersion(s) \/ AddVersion(s)
  <2>1. Fail(s) \/ UNCHANGED << wDimensions, wEmployees >>
    BY <1>4 DEF GetCurrent, AddFirstVersion, AddVersion, InsertVersion
  <2> QED
    BY <1>1, <2>1
<1>5. CASE InsertDimension(s) \/ UpdateDimension(s)
  <2>1. /\ pc[s] = "upsert"
        /\ \/ Fail(s)
           \/ UNCHANGED << wDimensions, wEmployees >>
           \/ /\ WriteDimension(s, req[s].target_table, Row(s).id, Row(s).name)
              /\ UNCHANGED wEmployees
    BY <1>5 DEF InsertDimension, UpdateDimension
  <2> QED
    BY <1>1, <2>1
<1>6. CASE AddEmployee(s)
  <2>1. PICK r : r = NewEmployee(Row(s))
    OBVIOUS
  <2>2. /\ pc[s] = "add_employee"
        /\ \/ Fail(s)
           \/ /\ wEmployees' = [wEmployees EXCEPT ![s][Row(s).id] = r]
              /\ UNCHANGED wDimensions
    BY <1>6, <2>1 DEF AddEmployee
  <2>3. r.current = RowAttributes(Row(s))
    BY <2>1 DEF NewEmployee
  <2>4. r \in Employee
    <3>1. RowAttributes(Row(s)) \in Attributes /\ Row(s).datetime \in Nat
      BY <2>2 DEF TypeInv, RowInv
    <3> QED
      BY <2>1, <3>1 DEF NewEmployee, Employee
  <2> QED
    BY <1>1, <2>2, <2>3, <2>4, NoRowDistinct
<1>7. CASE UpdateCurrent(s)
  <2>1. PICK old : old = EmployeesSeen(s)[Row(s).id]
    OBVIOUS
  <2>2. PICK r : r = Transferred(old, RowAttributes(Row(s)))
    OBVIOUS
  <2>3. /\ pc[s] = "update_current"
        /\ \/ Fail(s)
           \/ UNCHANGED << wDimensions, wEmployees >>
           \/ /\ old # NoRow
              /\ wEmployees' = [wEmployees EXCEPT ![s][Row(s).id] = r]
              /\ UNCHANGED wDimensions
    BY <1>7, <2>1, <2>2 DEF UpdateCurrent
  <2>4. Row(s).id \in EmployeeIds /\ RowAttributes(Row(s)) \in Attributes
    BY <2>3 DEF TypeInv, RowInv, Midway
  <2>5. old # NoRow => old \in Employee
    BY <2>1, <2>4, SeenType
  <2>6. old # NoRow => r \in Employee /\ r.current = RowAttributes(Row(s))
    BY <2>2, <2>4, <2>5 DEF Transferred, Employee
  <2> QED
    BY <1>1, <2>3, <2>6, NoRowDistinct
<1> QED
  BY <1>1, <1>2, <1>3, <1>4, <1>5, <1>6, <1>7, OutOfRangeIsAbort DEF Statement

\* A statement of a session that writes rows of R writes one of them.
LEMMA OwnStep ==
    ASSUME TypeInv, Backings, NEW R, NEW s \in Sessions, Own(R, s),
           Statement(s) \/ Abort(s) \/ DeadlockVictim(s)
    PROVE  /\ Own(R, s)'
           /\ pc'[s] \notin Resting => Keeps(s)
<1>1. req'[s].target_table = req[s].target_table /\ req'[s].rows = req[s].rows
  BY BatchStays
<1>2. pc'[s] \notin Resting =>
        \A k \in 1 .. Len(req[s].rows) : req[s].rows[k] \in R[req[s].target_table]
  <2>1. pc[s] \in Resting => pc'[s] \in Resting
    <3>1. Fail(s) \/ Commit(s) \/ Refresh(s) => pc'[s] \in Resting
      BY DEF Fail, Commit, Refresh, Goto, Resting, TypeInv, TypeOK
    <3> QED
      BY <3>1, StepKinds DEF Works, Fails
  <2> QED
    BY <2>1 DEF Own
<1>3. pc[s] \notin Resting /\ MoreRows(s) => Row(s) \in R[req[s].target_table]
  <2>1. req[s].row_index \in Nat \ {0} /\ Len(req[s].rows) \in Nat
    BY DEF TypeInv, TypeOK, Request
  <2> QED
    BY <2>1 DEF MoreRows, Row, Own
<1>4. CASE Fail(s) \/ Commit(s)
  <2>1. DropWrites(s) /\ pc'[s] \in Resting
    BY <1>4 DEF Fail, Rollback, Commit, Goto, Resting, TypeInv, TypeOK
  <2>2. \A t \in DimensionTables, d \in DimensionIds : wDimensions'[s][t][d] = NoRow
    BY <2>1 DEF DropWrites, NoDimensions, TypeInv, TypeOK
  <2>3. \A e \in EmployeeIds : wEmployees'[s][e] = NoRow
    BY <2>1, Dropped
  <2> QED
    BY <2>1, <2>2, <2>3 DEF Own
<1>5. CASE Refresh(s)
  <2>1. /\ pc[s] = "refresh" /\ pc'[s] = "idle"
        /\ UNCHANGED << wDimensions, wEmployees >>
    BY <1>5 DEF Refresh, Goto, writes, TypeInv, TypeOK
  <2> QED
    BY <2>1 DEF Own, Resting, SaysName, SaysHire
<1>6. ASSUME Works(s), ~ (Fail(s) \/ Commit(s)) PROVE Own(R, s)' /\ Keeps(s)
  <2>1. pc[s] \notin Resting /\ pc'[s] \notin Resting
    BY <1>6 DEF Works
  <2>2. CASE UNCHANGED << wDimensions, wEmployees >>
    BY <1>1, <1>2, <2>1, <2>2 DEF Own, Keeps, SaysName, SaysHire
  <2>3. CASE /\ pc[s] = "upsert"
             /\ WriteDimension(s, req[s].target_table, Row(s).id, Row(s).name)
             /\ UNCHANGED wEmployees
    <3>1. PICK t0 \in DimensionTables, d0 \in DimensionIds, name \in Names :
            t0 = req[s].target_table /\ d0 = Row(s).id /\ name = Row(s).name /\ MoreRows(s)
      BY <2>3 DEF TypeInv, RowInv
    <3>2. SaysName(R, t0, d0, name)
      BY <1>3, <2>1, <3>1 DEF SaysName
    <3>3. \A t \in DimensionTables, d \in DimensionIds :
             wDimensions'[s][t][d] = IF t = t0 /\ d = d0 THEN name ELSE wDimensions[s][t][d]
      BY <2>3, <3>1 DEF WriteDimension, TypeInv, TypeOK
    <3>4. name # NoRow
      BY NoRowDistinct
    <3>5. Keeps(s)
      BY <2>3, <3>3, <3>4 DEF Keeps
    <3>6. ASSUME NEW t \in DimensionTables, NEW d \in DimensionIds, wDimensions'[s][t][d] # NoRow
          PROVE  SaysName(R, t, d, wDimensions'[s][t][d])
      BY <3>2, <3>3, <3>6 DEF Own
    <3> QED
      BY <1>1, <1>2, <2>1, <2>3, <3>5, <3>6 DEF Own, SaysName, SaysHire
  <2>4. ASSUME pc[s] \in {"add_employee", "update_current"}, UNCHANGED wDimensions, NEW r,
               wEmployees' = [wEmployees EXCEPT ![s][Row(s).id] = r],
               r # NoRow, r.current = RowAttributes(Row(s))
        PROVE  Own(R, s)' /\ Keeps(s)
    <3>1. PICK e0 \in EmployeeIds : e0 = Row(s).id /\ MoreRows(s)
      BY <2>4 DEF TypeInv, RowInv, Midway
    <3>2. req[s].target_table = Hires
      BY <2>4 DEF Backings, WorkBacked, Persisting, Midway
    <3>3. SaysHire(R, e0, r.current)
      BY <1>3, <2>1, <2>4, <3>1, <3>2 DEF SaysHire
    <3>4. \A e \in EmployeeIds : wEmployees'[s][e] = IF e = e0 THEN r ELSE wEmployees[s][e]
      BY <2>4, <3>1 DEF TypeInv, TypeOK
    <3>5. Keeps(s)
      BY <2>4, <3>4 DEF Keeps
    <3>6. ASSUME NEW e \in EmployeeIds, wEmployees'[s][e] # NoRow
          PROVE  SaysHire(R, e, wEmployees'[s][e].current)
      BY <3>3, <3>4, <3>6 DEF Own
    <3> QED
      BY <1>1, <1>2, <2>1, <2>4, <3>5, <3>6 DEF Own, SaysName, SaysHire
  <2> QED
    BY <1>6, <2>2, <2>3, <2>4, WriteKinds
<1>7. Fail(s) \/ Commit(s) \/ Refresh(s) => pc'[s] \in Resting
  BY DEF Fail, Commit, Refresh, Goto, Resting, TypeInv, TypeOK
<1> QED
  BY <1>4, <1>5, <1>6, <1>7, StepKinds DEF Fails

\* The rows that session s has gone through are what it sees, if it has not
\* rejected one, and those of a batch that is answered with a 200 are committed.
Told(R, s) ==
    LET t == req[s].target_table
        rows == req[s].rows
    IN  /\ pc[s] \notin Resting /\ req[s].rejected = 0 =>
             \A k \in 1 .. Len(rows) : k < req[s].row_index => Sees(R, s, t, rows[k].id)
        /\ \/ pc[s] = "upsert" /\ local[s].found = Row(s).name
           \/ pc[s] = "add_first_version"
           => Sees(R, s, t, Row(s).id)
        /\ /\ pc[s] = "refresh" \/ (posting = s /\ answer[s] = "200")
           /\ req[s].rejected = 0
           => \A k \in 1 .. Len(rows) : Holds(R, t, rows[k].id)

LEMMA WrittenSeen ==
    ASSUME TypeInv', NEW R, NEW s \in Sessions, Own(R, s)'
    PROVE  /\ \A t \in DimensionTables, d \in DimensionIds :
                wDimensions'[s][t][d] # NoRow => Sees(R, s, t, d)'
           /\ \A e \in EmployeeIds : wEmployees'[s][e] # NoRow => Sees(R, s, Hires, e)'
<1>1. Hires \notin DimensionTables
  BY DEF Hires, DimensionTables
<1>2. ASSUME NEW t \in DimensionTables, NEW d \in DimensionIds, wDimensions'[s][t][d] # NoRow
      PROVE  Sees(R, s, t, d)'
  <2>1. DimensionsSeen(s, t)'[d] = wDimensions'[s][t][d]
    <3>1. DOMAIN dimensions'[t] = DimensionIds
      BY DEF TypeInv, TypeOK
    <3> QED
      BY <1>2, <3>1 DEF DimensionsSeen, Over
  <2>2. SaysName(R, t, d, wDimensions'[s][t][d])
    BY <1>2 DEF Own, SaysName
  <2>3. NameStands(R, t, DimensionsSeen(s, t)', d)
    BY <2>1, <2>2 DEF NameStands
  <2> QED
    BY <1>1, <2>3 DEF Sees, RowStands, NamesSeen
<1>3. ASSUME NEW e \in EmployeeIds, wEmployees'[s][e] # NoRow PROVE Sees(R, s, Hires, e)'
  <2>1. EmployeesSeen(s)'[e] = wEmployees'[s][e]
    <3>1. DOMAIN employees' = EmployeeIds
      BY DEF TypeInv, TypeOK
    <3> QED
      BY <1>3, <3>1 DEF EmployeesSeen, Over
  <2>2. SaysHire(R, e, wEmployees'[s][e].current)
    BY <1>3 DEF Own, SaysHire
  <2>3. HireStands(R, EmployeesSeen(s)', e)
    BY <1>3, <2>1, <2>2 DEF HireStands
  <2> QED
    BY <1>1, <2>3 DEF Sees, RowStands
<1> QED
  BY <1>2, <1>3

LEMMA OtherTold ==
    ASSUME TypeInv, TypeInv', NEW R, NEW s \in Sessions, Moves(R), Own(R, s)', Keeps(s),
           Told(R, s), pc'[s] = pc[s], req'[s] = req[s], local'[s] = local[s],
           answer'[s] = answer[s], posting' = s => posting = s \/ answer[s] # "200"
    PROVE  Told(R, s)'
<1>1. PICK t : t = req[s].target_table
  OBVIOUS
<1>2. \A id : Sees(R, s, t, id) => Sees(R, s, t, id)'
  BY SeesOn
<1>3. \A id : Holds(R, t, id) => Holds(R, t, id)'
  BY HoldsOn
<1>4. Row(s)' = Row(s)
  BY DEF Row
<1>5. PICK id0 : id0 = Row(s).id
  OBVIOUS
<1>6. ASSUME \/ pc[s] = "upsert" /\ local[s].found = Row(s).name
             \/ pc[s] = "add_first_version"
      PROVE  Sees(R, s, t, id0)'
  BY <1>1, <1>2, <1>5, <1>6 DEF Told
<1>7. ASSUME pc[s] \notin Resting, req[s].rejected = 0,
             NEW k \in 1 .. Len(req[s].rows), k < req[s].row_index
      PROVE  Sees(R, s, t, req[s].rows[k].id)'
  <2>1. PICK id : id = req[s].rows[k].id
    OBVIOUS
  <2>2. Sees(R, s, t, id)
    BY <1>1, <1>7, <2>1 DEF Told
  <2>3. Sees(R, s, t, id)'
    BY <1>2, <2>2
  <2> QED
    BY <2>1, <2>3 DEF Sees
<1>8. ASSUME pc[s] = "refresh" \/ (posting' = s /\ answer[s] = "200"), req[s].rejected = 0,
             NEW k \in 1 .. Len(req[s].rows)
      PROVE  Holds(R, t, req[s].rows[k].id)'
  <2>1. PICK id : id = req[s].rows[k].id
    OBVIOUS
  <2>2. Holds(R, t, id)
    BY <1>1, <1>8, <2>1 DEF Told
  <2>3. Holds(R, t, id)'
    BY <1>3, <2>2
  <2> QED
    BY <2>1, <2>3 DEF Holds
<1> QED
  BY <1>1, <1>4, <1>5, <1>6, <1>7, <1>8 DEF Told, Sees, Holds

\* Session s goes on with its batch: the row is rejected, still at work, or
\* what the session sees of it is what R says.
LEMMA RowTold ==
    ASSUME TypeInv, TypeInv', Backings, Accounts, NEW R, NEW s \in Sessions, Moves(R),
           Own(R, s), Told(R, s), Statement(s) \/ Abort(s) \/ DeadlockVictim(s),
           pc[s] \notin Resting, pc'[s] \notin Resting, answer'[s] = answer[s],
           NEW t, t = req[s].target_table, NEW id, id = Row(s).id,
           \/ req'[s].rejected # 0
           \/ /\ req'[s].row_index = req[s].row_index
              /\ req'[s].rejected = req[s].rejected
           \/ /\ req'[s].row_index = req[s].row_index + 1
              /\ req'[s].rejected = req[s].rejected
              /\ Sees(R, s, t, id)',
           \/ pc'[s] = "upsert" /\ local'[s].found = Row(s)'.name
           \/ pc'[s] = "add_first_version"
           => id = Row(s)'.id /\ Sees(R, s, t, id)'
    PROVE  Told(R, s)'
<1>1. req'[s].target_table = t /\ req'[s].rows = req[s].rows
  BY BatchStays
<1>2. Own(R, s)' /\ Keeps(s)
  BY OwnStep
<1>3. \A i : Sees(R, s, t, i) => Sees(R, s, t, i)'
  BY <1>2, SeesOn
<1>4. answer'[s] # "200" /\ pc'[s] # "refresh"
  BY DEF Accounts, AccountInv, Resting
<1>5. PICK n \in Nat : n = req[s].row_index
  BY DEF TypeInv, TypeOK, Request
<1>6. ASSUME req'[s].rejected = 0, NEW k \in 1 .. Len(req[s].rows), k < req'[s].row_index
      PROVE  Sees(R, s, t, req[s].rows[k].id)'
  <2>1. PICK i : i = req[s].rows[k].id
    OBVIOUS
  <2>2. Sees(R, s, t, i)'
    <3>1. CASE k < n
      <4>1. req[s].rejected = 0
        BY <1>6
      <4>2. Sees(R, s, t, i)
        BY <1>5, <2>1, <3>1, <4>1 DEF Told
      <4> QED
        BY <1>3, <4>2
    <3>2. CASE ~ (k < n)
      <4>1. k = n /\ Sees(R, s, t, id)'
        BY <1>5, <1>6, <3>2
      <4> QED
        BY <1>5, <2>1, <4>1 DEF Row
    <3> QED
      BY <3>1, <3>2
  <2>3. req'[s].rows[k].id = i
    BY <1>1, <2>1
  <2> QED
    BY <2>2, <2>3 DEF Sees
<1> QED
  BY <1>1, <1>4, <1>6 DEF Told, Sees

\* The employee of a hire that changes nothing already is what the hire says.
LEMMA UnchangedHireStands ==
    ASSUME IInv, NEW s \in Sessions, pc[s] = "get_current",
           NEW v \in CurrentIn(VersionsSeen(s), Row(s).id), SameAttributes(VersionsSeen(s)[v], Row(s))
    PROVE  /\ EmployeesSeen(s)[Row(s).id] # NoRow
           /\ EmployeesSeen(s)[Row(s).id].current = RowAttributes(Row(s))
<1>1. PICK e \in EmployeeIds : e = Row(s).id
  BY DEF IInv, Consistent, TypeInv, RowInv
<1>2. EmployeesSeen(s)[e] # NoRow /\ Settled(s, e)
  BY <1>1 DEF IInv, Consistent, SessionInv, Midway
<1>3. v \in VersionIds /\ VersionsSeen(s)[v].attributes = RowAttributes(Row(s))
  BY DEF CurrentIn, SameAttributes
<1>4. CASE Touches(s, e)
  <2>1. OneCurrent(s, e, EmployeesSeen(s)[e].current)
    BY <1>2, <1>4 DEF Settled
  <2> QED
    BY <1>1, <1>2, <1>3, <2>1 DEF OneCurrent
<1>5. CASE ~ Touches(s, e)
  <2>1. EmployeesSeen(s)[e] = employees[e]
    BY <1>5, SeenType DEF Touches, IInv, Consistent
  <2>2. VersionsSeen(s)[v] # NoRow /\ VersionsSeen(s)[v].employee_id = e
        /\ VersionsSeen(s)[v].is_current
    BY <1>1 DEF CurrentIn
  <2>3. VersionsSeen(s)[v] = versions[v]
    BY <1>3, <1>5, <2>2, SeenType DEF Touches, IInv, Consistent
  <2>4. v \in CurrentIn(versions, e)
    BY <1>3, <2>2, <2>3 DEF CurrentIn
  <2>5. employees[e].current = versions[v].attributes
    BY <1>1, <1>2, <2>1, <2>4 DEF IInv, CurrentStateInSync, InSync
  <2> QED
    BY <1>1, <1>2, <1>3, <2>1, <2>3, <2>5
<1> QED
  BY <1>4, <1>5

\* A row is accepted only when the session sees what it says.
LEMMA AcceptTold ==
    ASSUME TypeInv, TypeInv', Backings, Accounts, NEW R, NEW s \in Sessions, Moves(R),
           Own(R, s), Told(R, s), Statement(s) \/ Abort(s) \/ DeadlockVictim(s),
           pc[s] \notin Resting, UNCHANGED answer, Accept(s),
           Sees(R, s, req[s].target_table, Row(s).id)
             \/ \E t, id : t = req[s].target_table /\ id = Row(s).id /\ Sees(R, s, t, id)'
    PROVE  Told(R, s)'
<1>1. PICK t, id : t = req[s].target_table /\ id = Row(s).id
  OBVIOUS
<1>2. /\ pc'[s] = "row" /\ req'[s].rejected = req[s].rejected
      /\ req'[s].row_index = req[s].row_index + 1
  BY DEF Accept, Goto, TypeInv, TypeOK, Request
<1>3. pc'[s] \notin Resting
  BY <1>2 DEF Resting
<1>4. Own(R, s)' /\ Keeps(s)
  BY <1>3, OwnStep
<1>5. Sees(R, s, t, id)'
  <2>1. CASE Sees(R, s, t, id)
    BY <1>4, <2>1, SeesOn
  <2>2. CASE Sees(R, s, t, id)'
    BY <2>2
  <2> QED
    BY <1>1, <2>1, <2>2
<1> QED
  BY <1>1, <1>2, <1>3, <1>5, RowTold

\* A statement that neither ends the row nor writes it.
LEMMA StillTold ==
    ASSUME TypeInv, TypeInv', Backings, Accounts, NEW R, NEW s \in Sessions, Moves(R),
           Own(R, s), Told(R, s), Statement(s) \/ Abort(s) \/ DeadlockVictim(s),
           pc[s] \notin Resting, UNCHANGED answer, NEW label, Goto(s, label),
           label \notin Resting \cup {"upsert", "add_first_version"},
           req'[s] = req[s] \/ req'[s].rejected # 0
    PROVE  Told(R, s)'
<1>1. pc'[s] = label
  BY DEF Goto, TypeInv, TypeOK
<1>2. PICK t, id : t = req[s].target_table /\ id = Row(s).id
  OBVIOUS
<1> QED
  BY <1>1, <1>2, RowTold

LEMMA RejectTold ==
    ASSUME TypeInv, TypeInv', Backings, Accounts, NEW R, NEW s \in Sessions, Moves(R),
           Own(R, s), Told(R, s), Statement(s) \/ Abort(s) \/ DeadlockVictim(s),
           pc[s] \notin Resting, UNCHANGED answer, NEW errors, Reject(s, errors)
    PROVE  Told(R, s)'
<1>1. req'[s].rejected = req[s].rejected + 1 /\ req[s].rejected \in Nat /\ Goto(s, "row")
  BY DEF Reject, TypeInv, TypeOK, Request
<1>2. "row" \notin Resting \cup {"upsert", "add_first_version"}
  BY DEF Resting
<1> QED
  BY <1>1, <1>2, StillTold

\* The row that session s works on is one of R.
LEMMA OwnRow ==
    ASSUME TypeInv, NEW R, NEW s \in Sessions, Own(R, s), pc[s] \notin Resting, MoreRows(s)
    PROVE  Row(s) \in R[req[s].target_table]
<1>1. req[s].row_index \in Nat \ {0} /\ Len(req[s].rows) \in Nat
  BY DEF TypeInv, TypeOK, Request
<1> QED
  BY <1>1 DEF MoreRows, Row, Own

LEMMA DimensionTold ==
    ASSUME TypeInv, TypeInv', Backings, Accounts, NEW R, NEW s \in Sessions, Moves(R),
           Own(R, s), Told(R, s),
           RejectDimension(s) \/ SelectDimension(s) \/ InsertDimension(s) \/ UpdateDimension(s),
           ~ Fail(s)
    PROVE  Told(R, s)'
<1>0. Statement(s) /\ pc[s] \notin Resting /\ Hires \notin DimensionTables
  BY DEF Statement, Resting, RejectDimension, SelectDimension, AtDimensionRow, InsertDimension,
         UpdateDimension, Hires, DimensionTables
<1>1. CASE RejectDimension(s)
  BY <1>0, <1>1, RejectTold DEF RejectDimension
<1>2. CASE SelectDimension(s)
  <2>1. PICK t, id : /\ t \in DimensionTables /\ t = req[s].target_table
                   /\ id = Row(s).id /\ MoreRows(s)
    BY <1>2 DEF SelectDimension, AtDimensionRow
  <2>2. /\ pc'[s] = "upsert" /\ req' = req /\ Row(s)' = Row(s)
        /\ UNCHANGED answer
        /\ local'[s].found = DimensionsSeen(s, t)[id]
    <3>1. local \in [Sessions -> Reads] /\ DOMAIN pc = Sessions
      BY <1>0 DEF TypeInv, TypeOK
    <3>2. DOMAIN local = Sessions /\ "found" \in DOMAIN local[s]
      BY <3>1 DEF Reads
    <3>3. local'[s].found = DimensionsSeen(s, t)[id]
      BY <1>2, <2>1, <3>2 DEF SelectDimension
    <3>4. pc'[s] = "upsert" /\ UNCHANGED << req, answer >>
      BY <1>2, <3>1 DEF SelectDimension, Goto
    <3> QED
      BY <3>3, <3>4 DEF Row
  <2>3. id \in DimensionIds
    BY <2>1, <2>2 DEF TypeInv, RowInv
  <2>4. pc'[s] \notin Resting
    BY <2>2 DEF Resting
  <2>5. Own(R, s)' /\ Keeps(s)
    BY <1>0, <2>4, OwnStep
  <2>6. ASSUME local'[s].found = Row(s).name PROVE Sees(R, s, t, id)'
    <3>1. Row(s) \in R[t]
      BY <1>0, <2>1, OwnRow
    <3>2. SaysName(R, t, id, DimensionsSeen(s, t)[id])
      BY <2>1, <2>2, <2>6, <3>1 DEF SaysName
    <3>3. Sees(R, s, t, id)
      BY <1>0, <2>1, <2>3, <3>2 DEF Sees, RowStands, NameStands, NamesSeen
    <3> QED
      BY <2>5, <3>3, SeesOn
  <2> QED
    BY <1>0, <2>1, <2>2, <2>4, <2>6, RowTold
<1>3. CASE InsertDimension(s) \/ UpdateDimension(s)
  <2>1. /\ pc[s] = "upsert" /\ Accept(s) /\ UNCHANGED answer
        /\ \/ UNCHANGED wDimensions /\ local[s].found = Row(s).name
           \/ WriteDimension(s, req[s].target_table, Row(s).id, Row(s).name)
    BY <1>3 DEF InsertDimension, UpdateDimension
  <2>2. PICK t \in DimensionTables, id \in DimensionIds : t = req[s].target_table /\ id = Row(s).id
    BY <2>1 DEF TypeInv, RowInv
  <2>3. CASE local[s].found = Row(s).name
    BY <1>0, <2>1, <2>3, AcceptTold DEF Told
  <2>4. CASE WriteDimension(s, t, id, Row(s).name)
    <3>0. s \in DOMAIN wDimensions /\ t \in DOMAIN wDimensions[s] /\ id \in DOMAIN wDimensions[s][t]
      BY DEF TypeInv, TypeOK
    <3>1. wDimensions'[s][t][id] = Row(s).name /\ Row(s).name \in Names
      <4>1. wDimensions'[s][t][id] = Row(s).name
        BY <2>4, <3>0 DEF WriteDimension
      <4>2. Row(s).name \in Names
        BY <2>1, <2>2 DEF TypeInv, RowInv
      <4> QED
        BY <4>1, <4>2
    <3>2. Own(R, s)'
      BY <1>0, OwnStep
    <3>3. Sees(R, s, t, id)'
      BY <3>1, <3>2, WrittenSeen, NoRowDistinct
    <3> QED
      BY <1>0, <2>1, <2>2, <3>3, AcceptTold
  <2> QED
    BY <2>1, <2>2, <2>3, <2>4
<1> QED
  BY <1>1, <1>2, <1>3

LEMMA HireTold ==
    ASSUME IInv, TypeInv', Backings, Accounts, NEW R, NEW s \in Sessions, Moves(R),
           Own(R, s), Told(R, s),
           \/ CheckDepartment(s) \/ CheckJob(s) \/ Exists(s) \/ AddEmployee(s)
           \/ AddFirstVersion(s) \/ GetCurrent(s) \/ CloseSelect(s) \/ CloseUpdate(s)
           \/ AddVersion(s) \/ UpdateCurrent(s),
           ~ Fail(s)
    PROVE  Told(R, s)'
<1>0. TypeInv /\ Statement(s)
  BY DEF IInv, Consistent, Statement
<1>1. pc[s] \notin Resting
  BY DEF Resting, CheckDepartment, CheckJob, Exists, AddEmployee, AddFirstVersion, GetCurrent,
         CloseSelect, CloseUpdate, AddVersion, UpdateCurrent
<1>2. ASSUME NEW label, Goto(s, label), UNCHANGED << req, answer >>,
             label \notin Resting \cup {"upsert", "add_first_version"}
      PROVE  Told(R, s)'
  BY <1>0, <1>1, <1>2, StillTold
<1>3. CASE CheckDepartment(s) \/ Exists(s) \/ CloseSelect(s) \/ CloseUpdate(s)
  <2>1. \E label : /\ Goto(s, label) /\ UNCHANGED << req, answer >>
                   /\ label \notin Resting \cup {"upsert", "add_first_version"}
    BY <1>3 DEF CheckDepartment, Exists, CloseSelect, CloseUpdate, Resting
  <2> QED
    BY <1>2, <2>1
<1>4. CASE CheckJob(s)
  <2>1. PICK errors : errors = HireErrors(Row(s), local[s].department_known,
                                          Known(s, "jobs", Row(s).job_id))
    OBVIOUS
  <2>2. UNCHANGED answer /\ (Reject(s, errors) \/ (Goto(s, "exists") /\ UNCHANGED req))
    BY <1>4, <2>1 DEF CheckJob
  <2>3. "exists" \notin Resting \cup {"upsert", "add_first_version"}
    BY DEF Resting
  <2> QED
    BY <1>0, <1>1, <1>2, <2>2, <2>3, RejectTold
<1>5. CASE AddVersion(s)
  <2>1. Goto(s, "update_current") /\ UNCHANGED << req, answer >>
    BY <1>5 DEF AddVersion, InsertVersion
  <2>2. "update_current" \notin Resting \cup {"upsert", "add_first_version"}
    BY DEF Resting
  <2> QED
    BY <1>2, <2>1, <2>2
<1>6. ASSUME pc[s] \in {"add_employee", "add_first_version", "get_current", "update_current"}
      PROVE  /\ req[s].target_table = Hires /\ Row(s).id \in EmployeeIds
             /\ RowAttributes(Row(s)) \in Attributes /\ Row(s) \in R[Hires]
  <2>1. req[s].target_table = Hires
    BY <1>6 DEF Backings, WorkBacked, Persisting, Midway
  <2>2. MoreRows(s) /\ Row(s).id \in EmployeeIds /\ RowAttributes(Row(s)) \in Attributes
    BY <1>0, <1>6 DEF TypeInv, RowInv, Midway
  <2> QED
    BY <1>0, <1>1, <2>1, <2>2, OwnRow
<1>7. ASSUME pc[s] \in {"get_current", "update_current"},
             EmployeesSeen(s)[Row(s).id] # NoRow,
             EmployeesSeen(s)[Row(s).id].current = RowAttributes(Row(s))
      PROVE  Sees(R, s, req[s].target_table, Row(s).id)
  <2>1. SaysHire(R, Row(s).id, EmployeesSeen(s)[Row(s).id].current)
    BY <1>6, <1>7 DEF SaysHire
  <2>2. HireStands(R, EmployeesSeen(s), Row(s).id)
    BY <1>6, <1>7, <2>1 DEF HireStands
  <2>3. Hires \notin DimensionTables
    BY DEF Hires, DimensionTables
  <2> QED
    BY <1>6, <1>7, <2>2, <2>3 DEF Sees, RowStands
<1>8. CASE AddEmployee(s)
  <2>1. PICK e, r : e \in EmployeeIds /\ e = Row(s).id /\ r = NewEmployee(Row(s))
    BY <1>6, <1>8 DEF AddEmployee
  <2>2. /\ pc[s] = "add_employee" /\ pc'[s] = "add_first_version"
        /\ wEmployees' = [wEmployees EXCEPT ![s][e] = r]
        /\ UNCHANGED << req, answer >>
    BY <1>0, <1>8, <2>1 DEF AddEmployee, Goto, TypeInv, TypeOK
  <2>3. r # NoRow
    <3>1. Row(s).datetime \in Nat
      BY <1>0, <2>2 DEF TypeInv, RowInv
    <3>2. r \in Employee
      BY <1>6, <2>1, <2>2, <3>1 DEF NewEmployee, Employee
    <3> QED
      BY <3>2, NoRowDistinct
  <2>4. wEmployees'[s][e] # NoRow
    BY <1>0, <2>2, <2>3 DEF TypeInv, TypeOK
  <2>5. Sees(R, s, Hires, e)'
    <3>1. Own(R, s)'
      BY <1>0, OwnStep
    <3>2. e \in EmployeeIds
      BY <2>1
    <3> QED
      BY <2>4, <3>1, <3>2, WrittenSeen
  <2>6. pc'[s] \notin Resting /\ Row(s)' = Row(s)
    BY <2>2 DEF Resting, Row
  <2> QED
    BY <1>0, <1>1, <1>6, <2>1, <2>2, <2>5, <2>6, RowTold
<1>9. CASE AddFirstVersion(s)
  <2>1. pc[s] = "add_first_version" /\ Accept(s) /\ UNCHANGED answer
    BY <1>9 DEF AddFirstVersion, InsertVersion
  <2> QED
    BY <1>0, <1>1, <2>1, AcceptTold DEF Told
<1>10. CASE GetCurrent(s)
  <2>1. PICK v \in CurrentIn(VersionsSeen(s), Row(s).id) :
           /\ IF SameAttributes(VersionsSeen(s)[v], Row(s))
                THEN Accept(s)
                ELSE Goto(s, "close_select") /\ UNCHANGED req
           /\ UNCHANGED answer
    BY <1>10 DEF GetCurrent
  <2>2. pc[s] = "get_current"
    BY <1>10 DEF GetCurrent
  <2>3. CASE SameAttributes(VersionsSeen(s)[v], Row(s))
    <3>1. Sees(R, s, req[s].target_table, Row(s).id)
      BY <1>7, <2>2, <2>3, UnchangedHireStands
    <3> QED
      BY <1>0, <1>1, <2>1, <2>3, <3>1, AcceptTold
  <2>4. CASE ~ SameAttributes(VersionsSeen(s)[v], Row(s))
    <3>1. "close_select" \notin Resting \cup {"upsert", "add_first_version"}
      BY DEF Resting
    <3> QED
      BY <1>2, <2>1, <2>4, <3>1
  <2> QED
    BY <2>3, <2>4
<1>11. CASE UpdateCurrent(s)
  <2>1. PICK e, old, r : /\ e = Row(s).id /\ old = EmployeesSeen(s)[e]
                         /\ r = Transferred(old, RowAttributes(Row(s)))
    OBVIOUS
  <2>2. /\ pc[s] = "update_current" /\ Accept(s) /\ UNCHANGED answer /\ old # NoRow
        /\ \/ old.current = RowAttributes(Row(s))
           \/ wEmployees' = [wEmployees EXCEPT ![s][e] = r]
    BY <1>11, <2>1 DEF UpdateCurrent
  <2>3. CASE old.current = RowAttributes(Row(s))
    <3>1. Sees(R, s, req[s].target_table, Row(s).id)
      BY <1>7, <2>1, <2>2, <2>3
    <3> QED
      BY <1>0, <1>1, <2>2, <3>1, AcceptTold
  <2>4. CASE wEmployees' = [wEmployees EXCEPT ![s][e] = r]
    <3>1. e \in EmployeeIds
      BY <1>6, <2>1, <2>2
    <3>2. old \in Employee
      BY <1>0, <2>1, <2>2, <3>1, SeenType
    <3>3. r \in Employee
      BY <1>6, <2>1, <2>2, <3>2 DEF Transferred, Employee
    <3>4. wEmployees'[s][e] # NoRow
      BY <1>0, <2>4, <3>1, <3>3, NoRowDistinct DEF TypeInv, TypeOK
    <3>5. Sees(R, s, Hires, e)'
      BY <1>0, <3>1, <3>4, OwnStep, WrittenSeen
    <3> QED
      BY <1>0, <1>1, <1>6, <2>1, <2>2, <3>5, AcceptTold
  <2> QED
    BY <2>2, <2>3, <2>4
<1> QED
  BY <1>3, <1>4, <1>5, <1>8, <1>9, <1>10, <1>11

\* What a session has gone through without a rejection is what R says, from
\* the first statement of the batch to the answer.
LEMMA OwnTold ==
    ASSUME IInv, TypeInv', Backings, Accounts, NEW R, NEW s \in Sessions, Moves(R),
           Own(R, s), Told(R, s), Statement(s) \/ Abort(s) \/ DeadlockVictim(s),
           UNCHANGED posting
    PROVE  Told(R, s)'
<1>0. TypeInv
  BY DEF IInv, Consistent
<1>1. CASE Fail(s)
  <2>1. pc'[s] = "idle" /\ answer'[s] = "500"
    BY <1>0, <1>1 DEF Fail, Goto, TypeInv, TypeOK
  <2> QED
    BY <2>1 DEF Told, Resting
<1>2. CASE Refresh(s)
  <2>1. /\ pc[s] = "refresh" /\ pc'[s] = "idle"
        /\ UNCHANGED << req, dimensions, employees >>
    BY <1>0, <1>2 DEF Refresh, Goto, tables, TypeInv, TypeOK
  <2> QED
    BY <2>1 DEF Told, Resting, Holds
<1>3. CASE Commit(s)
  <2>1. /\ pc[s] = "row" /\ ~ MoreRows(s) /\ pc'[s] = "refresh" /\ req' = req
        /\ dimensions' = NamesSeen(s) /\ employees' = EmployeesSeen(s)
    BY <1>0, <1>3 DEF Commit, Goto, NamesSeen, TypeInv, TypeOK
  <2>2. \A k \in 1 .. Len(req[s].rows) : k < req[s].row_index
    <3>1. req[s].row_index \in Nat /\ Len(req[s].rows) \in Nat
      BY <1>0 DEF TypeInv, TypeOK, Request
    <3> QED
      BY <2>1, <3>1 DEF MoreRows
  <2>3. ASSUME req[s].rejected = 0, NEW k \in 1 .. Len(req[s].rows)
        PROVE  RowStands(R, req[s].target_table, dimensions', employees', req[s].rows[k].id)
    BY <2>1, <2>2, <2>3 DEF Told, Sees, Resting
  <2> QED
    BY <2>1, <2>3 DEF Told, Holds, Resting
<1>4. CASE /\ ~ Fail(s)
           /\ RejectDimension(s) \/ SelectDimension(s) \/ InsertDimension(s) \/ UpdateDimension(s)
  BY <1>0, <1>4, DimensionTold
<1>5. CASE /\ ~ Fail(s)
           /\ \/ CheckDepartment(s) \/ CheckJob(s) \/ Exists(s) \/ AddEmployee(s)
              \/ AddFirstVersion(s) \/ GetCurrent(s) \/ CloseSelect(s) \/ CloseUpdate(s)
              \/ AddVersion(s) \/ UpdateCurrent(s)
  BY <1>5, HireTold
<1> QED
  BY <1>1, <1>2, <1>3, <1>4, <1>5, OutOfRangeIsAbort DEF Statement, Abort, DeadlockVictim

BatchHolds(R, b) == \A row \in ToSet(b.rows) : Holds(R, b.table, row.id)

\* The batches that are reported without a rejected row are committed.
ReportsStand(R) ==
    Running => \A i \in DOMAIN outcomes :
                   outcomes[i].success /\ outcomes[i].rejected = 0 =>
                       BatchHolds(R, BatchesOf(upload)[i])

\* All that the handlers write, and all that they and the client have said of
\* it, is what the rows R say.
Tells(R) == ReportsStand(R) /\ \A s \in Sessions : Own(R, s) /\ Told(R, s)

LEMMA BatchHoldsOn ==
    ASSUME NEW R, Moves(R), NEW b, BatchHolds(R, b)
    PROVE  BatchHolds(R, b)'
<1>1. ASSUME NEW row \in ToSet(b.rows) PROVE Holds(R, b.table, row.id)'
  <2>1. Holds(R, b.table, row.id)
    BY DEF BatchHolds
  <2> QED
    BY <2>1, HoldsOn
<1> QED
  BY <1>1 DEF BatchHolds, Holds

LEMMA ReportsStandOn ==
    ASSUME NEW R, Moves(R), ReportsStand(R), UNCHANGED << outcomes, upload >>, Running' => Running
    PROVE  ReportsStand(R)'
<1>1. PICK B : B = BatchesOf(upload)
  OBVIOUS
<1>2. ASSUME Running', NEW i \in DOMAIN outcomes, outcomes[i].success, outcomes[i].rejected = 0
      PROVE  BatchHolds(R, B[i])'
  <2>1. BatchHolds(R, B[i])
    BY <1>1, <1>2 DEF ReportsStand
  <2> QED
    BY <2>1, BatchHoldsOn
<1>3. B = BatchesOf(upload')
  BY <1>1
<1> QED
  BY <1>2, <1>3 DEF ReportsStand, BatchHolds, Holds

\* A batch that is answered with a 200 and no rejected row is committed.
LEMMA TakenHolds ==
    ASSUME TypeInv, ReportInv, RunInv, NEW R, NEW s \in Sessions, Told(R, s), posting = s, Running,
           remaining # << >>, NEW b, b = Head(remaining), answer[s] = "200", req[s].rejected = 0
    PROVE  BatchHolds(R, b)
<1>1. req[s].target_table = b.table /\ req[s].rows = b.rows
  BY NobodyAssumption DEF ReportInv, AwaitedBatch
<1>2. PICK n \in Nat : n = Len(req[s].rows) /\ DOMAIN req[s].rows = 1 .. n
  BY DEF TypeInv, RowInv
<1>3. \A k \in 1 .. n : Holds(R, b.table, b.rows[k].id)
  BY <1>1, <1>2 DEF Told
<1>4. ToSet(b.rows) = {b.rows[k] : k \in 1 .. n}
  BY <1>1, <1>2 DEF ToSet
<1> QED
  BY <1>3, <1>4 DEF BatchHolds

LEMMA ReportStands ==
    ASSUME RunInv, NEW R, ReportsStand(R), Running, remaining # << >>,
           NEW o \in BatchOutcome, NEW rows, Report(o, rows),
           NEW b, b = Head(remaining), o.success /\ o.rejected = 0 => BatchHolds(R, b)
    PROVE  ReportsStand(R)'
<1>1. outcomes' = Append(outcomes, o) /\ UNCHANGED << upload, dimensions, employees >>
  BY DEF Report, vars, tables
<1>2. PICK u \in Uploads : u = upload
  BY DEF RunInv
<1>3. outcomes \in Seq(BatchOutcome) /\ Progress(u, outcomes, remaining)
  BY <1>2 DEF RunInv
<1>4. PICK B : B = BatchesOf(u)
  OBVIOUS
<1>5. PICK m \in Nat : m = Len(outcomes) /\ DOMAIN outcomes = 1 .. m
  BY <1>3
<1>6. b = B[m + 1]
  BY <1>2, <1>3, <1>4, <1>5, NextBatch
<1>7. PICK more : more = Append(outcomes, o)
  OBVIOUS
<1>8. DOMAIN more = 1 .. m + 1 /\ more[m + 1] = o /\ \A i \in 1 .. m : more[i] = outcomes[i]
  BY <1>3, <1>5, <1>7
<1>9. ASSUME NEW i \in 1 .. m + 1, more[i].success, more[i].rejected = 0 PROVE BatchHolds(R, B[i])
  <2>1. CASE i = m + 1
    BY <1>6, <1>8, <1>9, <2>1
  <2>2. CASE i # m + 1
    <3>1. i \in DOMAIN outcomes /\ outcomes[i].success /\ outcomes[i].rejected = 0
      BY <1>5, <1>8, <1>9, <2>2
    <3> QED
      BY <1>2, <1>4, <3>1 DEF ReportsStand
  <2> QED
    BY <2>1, <2>2
<1>10. \A i \in DOMAIN more : more[i].success /\ more[i].rejected = 0 => BatchHolds(R, B[i])'
  BY <1>1, <1>8, <1>9 DEF BatchHolds, Holds
<1> QED
  BY <1>1, <1>2, <1>4, <1>7, <1>10 DEF ReportsStand, BatchHolds, Holds

\* A step that leaves the database and its handlers alone.
LEMMA QuietTells ==
    ASSUME TypeInv, TypeInv', NEW R, Tells(R), UNCHANGED vars,
           posting' = Nobody \/ posting' = posting
    PROVE  Moves(R) /\ \A s \in Sessions : Own(R, s)' /\ Told(R, s)'
<1>1. /\ UNCHANGED << dimensions, employees, wDimensions, wEmployees >>
      /\ UNCHANGED << pc, req, local, answer >>
  BY DEF vars, tables, writes
<1>2. Moves(R)
  BY <1>1 DEF Moves
<1>3. ASSUME NEW s \in Sessions PROVE Own(R, s)' /\ Told(R, s)'
  <2>1. Own(R, s)' /\ Keeps(s)
    BY <1>1 DEF Tells, Own, Keeps, SaysName, SaysHire
  <2>2. posting' = s => posting = s
    BY NobodyAssumption
  <2> QED
    BY <1>1, <1>2, <2>1, <2>2, OtherTold DEF Tells
<1> QED
  BY <1>2, <1>3

LEMMA PostTells ==
    ASSUME TypeInv, TypeInv', Backings, RunInv, NEW R, Tells(R), NEW s \in Sessions, PostBatch(s),
           \A t \in Targets : ToSet(RowsOf(upload, t)) \subseteq R[t]
    PROVE  Tells(R)'
<1>1. /\ UNCHANGED << phase, upload, outcomes, dimensions, employees, wDimensions, wEmployees >>
      /\ UNCHANGED local /\ pc[s] = "idle" /\ pc'[s] = "row" /\ posting' = s
      /\ answer'[s] = "none" /\ \A o \in Sessions \ {s} : answer'[o] = answer[o]
  BY DEF PostBatch, Receive, tables, writes, Goto, TypeInv, TypeOK
<1>2. CatalogsGrow /\ Receive(s)
  BY <1>1 DEF CatalogsGrow, PostBatch
<1>3. OthersStill(s)
  BY <1>2, BystandersStill
<1>4. Moves(R)
  BY <1>1 DEF Moves
<1>5. ReportsStand(R)'
  BY <1>1, <1>4, ReportsStandOn DEF Running, Tells
<1>6. ASSUME NEW o \in Sessions \ {s} PROVE Own(R, o)' /\ Told(R, o)'
  <2>1. pc'[o] = pc[o] /\ req'[o] = req[o] /\ local'[o] = local[o] /\ answer'[o] = answer[o]
    BY <1>1, <1>3 DEF OthersStill
  <2>2. Own(R, o)' /\ Keeps(o)
    BY <1>1, <2>1 DEF Tells, Own, Keeps, SaysName, SaysHire
  <2>3. posting' # o
    BY <1>1
  <2> QED
    BY <1>4, <2>1, <2>2, <2>3, OtherTold DEF Tells
<1>7. PICK b : b = Head(remaining) /\ BatchOfFile(upload, b)
  BY NextBatch DEF PostBatch, Between, RunInv
<1>8. req'[s].target_table = b.table /\ req'[s].rows = b.rows
  BY <1>7 DEF PostBatch
<1>9. req'[s].row_index = 1
  BY DEF PostBatch, Receive, NoRequest, TypeInv, TypeOK
<1>10. ASSUME NEW k \in 1 .. Len(b.rows) PROVE b.rows[k] \in R[b.table]
  <2>1. PICK file : file = RowsOf(upload, b.table)
    OBVIOUS
  <2>2. PICK before \in Nat : before = Before(b.batch_index + 1)
    <3>1. b.batch_index + 1 \in Nat \ {0}
      BY <1>7 DEF BatchOfFile
    <3> QED
      BY <3>1, Befores
  <2>3. before + Len(b.rows) <= Len(file) /\ b.rows[k] = file[before + k] /\ Len(b.rows) \in Nat
    BY <1>7, <2>1, <2>2, BatchSizeAssumption DEF BatchOfFile, PartOf
  <2>4. upload \in Uploads /\ b.table \in Targets
    BY <1>7 DEF PostBatch, Between, RunInv, BatchOfFile
  <2>5. DOMAIN file = 1 .. Len(file) /\ Len(file) \in Nat
    BY <2>1, <2>4, RowsAreRows DEF IsSequence
  <2>6. before + k \in DOMAIN file
    BY <2>3, <2>5
  <2> QED
    BY <2>1, <2>3, <2>4, <2>6 DEF ToSet
<1>11. Own(R, s)'
  <2>1. /\ \A t \in DimensionTables, d \in DimensionIds :
             wDimensions[s][t][d] # NoRow => SaysName(R, t, d, wDimensions[s][t][d])
        /\ \A e \in EmployeeIds : wEmployees[s][e] = NoRow
    BY <1>1 DEF Tells, Own, Resting
  <2> QED
    BY <1>1, <1>8, <1>10, <2>1 DEF Own, SaysName, SaysHire
<1>12. Told(R, s)'
  <2>1. \A k \in 1 .. Len(b.rows) : ~ (k < 1)
    OBVIOUS
  <2> QED
    BY <1>1, <1>8, <1>9, <2>1 DEF Told
<1> QED
  BY <1>5, <1>6, <1>11, <1>12 DEF Tells

\* Whatever a handler does, also one whose upload was given up.
LEMMA ServerTells ==
    ASSUME IInv, TypeInv', Backings, Accounts, NEW R, Tells(R), NEW s \in Sessions, ServerStep(s)
    PROVE  Tells(R)' /\ Moves(R)
<1>1. /\ Statement(s) \/ Abort(s) \/ DeadlockVictim(s)
      /\ UNCHANGED << phase, upload, posting, outcomes >>
  BY DEF ServerStep, client
<1>2. TypeInv
  BY DEF IInv, Consistent
<1>3. [Next]_vars
  BY <1>1 DEF Next
<1>4. CatalogsGrow
  BY <1>2, <1>3, NextGrowsCatalogs
<1>5. Moves(R)
  BY <1>2, <1>3, TablesMove DEF Tells
<1>6. ReportsStand(R)'
  BY <1>1, <1>5, ReportsStandOn DEF Running, Tells
<1>7. Own(R, s)' /\ Told(R, s)'
  BY <1>1, <1>2, <1>5, OwnStep, OwnTold DEF Tells
<1>8. OthersStill(s)
  BY <1>1, <1>2, <1>4, BystandersStill
<1>9. \A o \in Sessions \ {s} : answer'[o] = answer[o]
  BY <1>1, <1>2, AnswersStill
<1>10. ASSUME NEW o \in Sessions \ {s} PROVE Own(R, o)' /\ Told(R, o)'
  <2>1. /\ pc'[o] = pc[o] /\ req'[o] = req[o] /\ local'[o] = local[o] /\ answer'[o] = answer[o]
        /\ wDimensions'[o] = wDimensions[o] /\ wEmployees'[o] = wEmployees[o]
    BY <1>8, <1>9 DEF OthersStill
  <2>2. Own(R, o)' /\ Keeps(o)
    BY <2>1 DEF Tells, Own, Keeps, SaysName, SaysHire
  <2> QED
    BY <1>1, <1>2, <1>5, <2>1, <2>2, OtherTold DEF Tells
<1> QED
  BY <1>5, <1>6, <1>7, <1>10 DEF Tells

\* The client reports a batch.
LEMMA ReportTells ==
    ASSUME TypeInv, TypeInv', RunInv, NEW R, Tells(R), Running, remaining # << >>,
           NEW o \in BatchOutcome, NEW rows, Report(o, rows),
           NEW b, b = Head(remaining), o.success /\ o.rejected = 0 => BatchHolds(R, b)
    PROVE  Tells(R)' /\ Moves(R)
<1>1. UNCHANGED vars /\ posting' = Nobody
  BY DEF Report
<1>2. ReportsStand(R)'
  BY ReportStands DEF Tells
<1> QED
  BY <1>1, <1>2, QuietTells DEF Tells

\* Every step but the start of a run keeps what R says of the database, if the
\* rows of the run are among R.
LEMMA TellsStep ==
    ASSUME IInv, TypeInv', Backings, Accounts, ReportInv, RunInv, [LoadNext]_loadVars, ~ StartRun,
           NEW R, Tells(R), Running => \A t \in Targets : ToSet(RowsOf(upload, t)) \subseteq R[t]
    PROVE  Tells(R)' /\ Moves(R)
<1>1. TypeInv
  BY DEF IInv, Consistent
<1>2. CASE UNCHANGED loadVars \/ LoadQuiet \/ Interrupt \/ FinishRun
  <2>1. /\ UNCHANGED vars /\ UNCHANGED << posting, outcomes, upload >>
        /\ Running' => Running
    BY <1>2 DEF LoadQuiet, Interrupt, FinishRun, loadVars, client, Running
  <2>2. Moves(R) /\ \A s \in Sessions : Own(R, s)' /\ Told(R, s)'
    BY <1>1, <2>1, QuietTells
  <2>3. ReportsStand(R)'
    BY <2>1, <2>2, ReportsStandOn DEF Tells
  <2> QED
    BY <2>2, <2>3 DEF Tells
<1>3. ASSUME Running, remaining # << >>, Report(FailedOutcome(Head(remaining)), << >>)
      PROVE  Tells(R)' /\ Moves(R)
  <2>1. PICK b : b = Head(remaining) /\ BatchOfFile(upload, b) /\ upload \in Uploads
    BY <1>3, NextBatch DEF RunInv
  <2>2. PICK o : o = FailedOutcome(b)
    OBVIOUS
  <2>3. o \in BatchOutcome /\ o.success = FALSE
    BY <2>1, <2>2 DEF FailedOutcome, BatchOutcome, BatchOfFile
  <2>4. Report(o, << >>)
    BY <1>3, <2>1, <2>2
  <2> QED
    BY <1>1, <1>3, <2>1, <2>3, <2>4, ReportTells
<1>4. CASE Refused
  BY <1>3, <1>4 DEF Refused, Between
<1>5. ASSUME NEW s \in Sessions, GiveUp(s) PROVE Tells(R)' /\ Moves(R)
  <2>1. Running /\ remaining # << >>
    BY <1>5, NobodyAssumption DEF GiveUp, TimedOut, RunInv
  <2> QED
    BY <1>3, <1>5, <2>1 DEF GiveUp
<1>6. ASSUME NEW s \in Sessions, TakeAnswer(s) PROVE Tells(R)' /\ Moves(R)
  <2>1. Running /\ remaining # << >> /\ posting # Nobody /\ posting = s
    BY <1>6, NobodyAssumption DEF TakeAnswer, RunInv
  <2>2. PICK b : b = Head(remaining) /\ BatchOfFile(upload, b) /\ upload \in Uploads
    BY <2>1, NextBatch DEF RunInv
  <2>3. PICK o : o = OutcomeOf(b, s)
    OBVIOUS
  <2>4. o \in BatchOutcome
    BY <1>1, <2>2, <2>3, OutcomeTyped
  <2>5. o.success => answer[s] = "200" /\ o.rejected = req[s].rejected
    <3>1. CASE answer[s] = "200"
      BY <2>3, <3>1 DEF OutcomeOf, StoredOutcome, FailedOutcome
    <3>2. CASE answer[s] # "200"
      BY <2>3, <3>2 DEF OutcomeOf, FailedOutcome
    <3> QED
      BY <3>1, <3>2
  <2>6. o.success /\ o.rejected = 0 => BatchHolds(R, b)
    BY <1>1, <2>1, <2>2, <2>5, TakenHolds DEF Tells
  <2>7. PICK rows : Report(o, rows)
    BY <1>6, <2>2, <2>3 DEF TakeAnswer
  <2> QED
    BY <1>1, <2>1, <2>2, <2>4, <2>6, <2>7, ReportTells
<1>7. ASSUME NEW s \in Sessions, PostBatch(s) PROVE Tells(R)' /\ Moves(R)
  <2>1. Moves(R)
    BY <1>7 DEF PostBatch, Receive, tables, Moves
  <2>2. \A t \in Targets : ToSet(RowsOf(upload, t)) \subseteq R[t]
    BY <1>7 DEF PostBatch, Between
  <2> QED
    BY <1>1, <1>7, <2>1, <2>2, PostTells
<1>8. ASSUME NEW s \in Sessions, ServerStep(s) PROVE Tells(R)' /\ Moves(R)
  BY <1>8, ServerTells
<1> QED
  BY <1>2, <1>4, <1>5, <1>6, <1>7, <1>8 DEF LoadNext, ClientStep

\* A complete run: what its summary says is stored is what the rows R say.
Complete(outs) == \A o \in ToSet(outs) : o.success /\ o.rejected = 0
FilesHold(R, u) == \A t \in Targets : \A row \in ToSet(RowsOf(u, t)) : Holds(R, t, row.id)
SummaryStands(R) == Complete(summary.outcomes) => FilesHold(R, summary.upload)

LEMMA SummaryStandsOn ==
    ASSUME NEW R, Moves(R), SummaryStands(R), UNCHANGED summary
    PROVE  SummaryStands(R)'
<1>1. ASSUME NEW t \in Targets, NEW row \in ToSet(RowsOf(summary.upload, t)),
             Complete(summary.outcomes)
      PROVE  Holds(R, t, row.id)'
  <2>1. Holds(R, t, row.id)
    BY <1>1 DEF SummaryStands, FilesHold
  <2> QED
    BY <2>1, HoldsOn
<1> QED
  BY <1>1 DEF SummaryStands, FilesHold, Holds

\* The batches of a run make up its files.
LEMMA RunHolds ==
    ASSUME RunInv, NEW R, ReportsStand(R), Running, remaining = << >>, Complete(outcomes)
    PROVE  FilesHold(R, upload)
<1>1. PICK u \in Uploads : u = upload
  BY DEF RunInv
<1>2. PICK B : B = BatchesOf(u)
  OBVIOUS
<1>3. Plan(u, Targets, B) /\ DOMAIN B = 1 .. Len(B)
  BY <1>2, UploadIsPlanned, BatchesAreBatches
<1>4. DOMAIN outcomes = DOMAIN B
  <2>1. Progress(u, outcomes, << >>)
    BY <1>1 DEF RunInv
  <2>2. outcomes \in Seq(BatchOutcome) /\ Len(outcomes) + Len(<< >>) = Len(B)
    BY <1>2, <2>1 DEF Progress
  <2>3. Len(<< >>) = 0 /\ Len(outcomes) \in Nat
    BY <2>2
  <2> QED
    BY <1>3, <2>2, <2>3
<1>5. ASSUME NEW t \in Targets, NEW row \in ToSet(RowsOf(u, t)) PROVE Holds(R, t, row.id)
  <2>1. PICK i \in DOMAIN B : B[i].table = t /\ row \in ToSet(B[i].rows)
    BY <1>3 DEF Plan
  <2>2. i \in DOMAIN outcomes /\ outcomes[i] \in ToSet(outcomes)
    BY <1>4 DEF ToSet
  <2>3. outcomes[i].success /\ outcomes[i].rejected = 0
    BY <2>2 DEF Complete
  <2>4. BatchHolds(R, B[i])
    BY <1>1, <1>2, <2>2, <2>3 DEF ReportsStand
  <2> QED
    BY <2>1, <2>4 DEF BatchHolds
<1> QED
  BY <1>1, <1>5 DEF FilesHold

LEMMA FinishStands ==
    ASSUME RunInv, NEW R, ReportsStand(R), FinishRun
    PROVE  SummaryStands(R)'
<1>1. /\ Running /\ remaining = << >>
      /\ summary' = [outcomes |-> outcomes, rejected_rows |-> rejectedRows,
                     upload |-> upload, alone |-> alone, run |-> runs]
      /\ UNCHANGED << dimensions, employees >>
  BY DEF FinishRun, Between, vars, tables
<1>2. summary'.outcomes = outcomes /\ summary'.upload = upload
  BY <1>1
<1>3. Complete(outcomes) => FilesHold(R, upload)
  BY <1>1, RunHolds
<1> QED
  BY <1>1, <1>2, <1>3 DEF SummaryStands, FilesHold, Holds

\* More rows say more.
Among(R, M) == \A t \in Targets : R[t] \subseteq M[t]

LEMMA SaysMore ==
    ASSUME NEW R, NEW M, Among(R, M)
    PROVE  /\ \A t \in DimensionTables : \A d, name : SaysName(R, t, d, name) => SaysName(M, t, d, name)
           /\ \A e, a : SaysHire(R, e, a) => SaysHire(M, e, a)
<1>1. Hires \in Targets /\ DimensionTables \subseteq Targets
  BY DEF Targets
<1> QED
  BY <1>1 DEF Among, SaysName, SaysHire

LEMMA StandsMore ==
    ASSUME NEW R, NEW M, Among(R, M), NEW t, NEW names, NEW hires, NEW id,
           RowStands(R, t, names, hires, id)
    PROVE  RowStands(M, t, names, hires, id)
BY SaysMore DEF RowStands, NameStands, HireStands

LEMMA TellsMore ==
    ASSUME TypeInv, NEW R, NEW M, Among(R, M), Tells(R), ~ Running
    PROVE  Tells(M) /\ (SummaryStands(R) => SummaryStands(M))
<1>1. ASSUME NEW t, NEW id PROVE Holds(R, t, id) => Holds(M, t, id)
  BY StandsMore DEF Holds
<1>2. ASSUME NEW s \in Sessions, NEW t, NEW id PROVE Sees(R, s, t, id) => Sees(M, s, t, id)
  BY StandsMore DEF Sees
<1>3. ASSUME NEW s \in Sessions PROVE Own(M, s)
  <2>1. Own(R, s)
    BY DEF Tells
  <2>2. req[s].target_table \in Targets \/ pc[s] \in Resting
    BY DEF TypeInv, TypeOK, Request
  <2>3. pc[s] \notin Resting =>
          \A k \in 1 .. Len(req[s].rows) : req[s].rows[k] \in M[req[s].target_table]
    BY <2>1, <2>2 DEF Own, Among
  <2> QED
    BY <2>1, <2>3, SaysMore DEF Own
<1>4. ASSUME NEW s \in Sessions PROVE Told(M, s)
  <2>1. PICK t, rows, id0 : t = req[s].target_table /\ rows = req[s].rows /\ id0 = Row(s).id
    OBVIOUS
  <2>2. Told(R, s)
    BY DEF Tells
  <2>3. \A id : (Sees(R, s, t, id) => Sees(M, s, t, id)) /\ (Holds(R, t, id) => Holds(M, t, id))
    BY <1>1, <1>2
  <2> QED
    BY <2>1, <2>2, <2>3 DEF Told
<1>5. ReportsStand(M)
  BY DEF ReportsStand
<1>6. SummaryStands(R) => SummaryStands(M)
  BY <1>1 DEF SummaryStands, FilesHold
<1> QED
  BY <1>3, <1>4, <1>5, <1>6 DEF Tells

-----------------------------------------------------------------------------
(***************************************************************************)
(* From run to run.                                                        *)
(***************************************************************************)

\* All that was ever written comes from the rows of the runs so far.
StartedInv ==
    \E R : /\ R = RowsIn(started) /\ Tells(R)
           /\ Running => upload \in started
           /\ summary # NoSummary => summary.upload \in started /\ SummaryStands(R)

\* Since a run began that no handler of an earlier one has outlived, all that
\* was written comes from the rows of its files.
AloneInv ==
    /\ \E R : /\ R = RowsIn({upload})
              /\ alone => Tells(R)
              /\ summary # NoSummary /\ summary.run = runs /\ alone => SummaryStands(R)
    /\ summary # NoSummary =>
         /\ summary.run \in Nat /\ summary.run <= runs
         /\ Running => summary.run < runs
         /\ summary.run = runs => summary.upload = upload /\ summary.alone = alone

LEMMA IdleTells ==
    ASSUME NEW R, posting = Nobody, ~ Running,
           \A s \in Sessions : /\ pc[s] = "idle"
                               /\ wDimensions[s] = NoDimensions
                               /\ \A e \in EmployeeIds : wEmployees[s][e] = NoRow
    PROVE  Tells(R)
<1>1. ASSUME NEW s \in Sessions PROVE Own(R, s) /\ Told(R, s)
  BY NobodyAssumption DEF Own, Told, Resting, NoDimensions
<1> QED
  BY <1>1 DEF Tells, ReportsStand

LEMMA StartTells ==
    ASSUME TypeInv, TypeInv', RunInv, NEW R, Tells(R), StartRun
    PROVE  Tells(R)' /\ Moves(R)
<1>1. UNCHANGED vars /\ posting' = posting /\ outcomes' = << >>
  BY DEF StartRun
<1>2. DOMAIN << >> = {}
  OBVIOUS
<1>3. ReportsStand(R)'
  BY <1>1, <1>2 DEF ReportsStand
<1> QED
  BY <1>1, <1>3, QuietTells DEF Tells

LEMMA RowsOfRuns ==
    ASSUME NEW W, NEW u \in W, NEW R, R = RowsIn(W)
    PROVE  \A t \in Targets : ToSet(RowsOf(u, t)) \subseteq R[t]
BY DEF RowsIn

\* What only the start and the end of a run change.
LEMMA WithinRuns ==
    ASSUME [LoadNext]_loadVars, ~ StartRun
    PROVE  /\ UNCHANGED << upload, alone, started, runs >>
           /\ Running' => Running
           /\ FinishRun \/ UNCHANGED summary
<1>1. CASE UNCHANGED loadVars \/ LoadQuiet
  BY <1>1 DEF LoadQuiet, loadVars, client, Running
<1>2. CASE Interrupt \/ FinishRun
  BY <1>2 DEF Interrupt, FinishRun, Between
<1>3. CASE Refused
  BY <1>3 DEF Refused, Report, Running
<1>4. ASSUME NEW s \in Sessions, PostBatch(s) \/ TakeAnswer(s) \/ GiveUp(s) \/ ServerStep(s)
      PROVE  /\ UNCHANGED << upload, alone, started, runs, summary >>
             /\ Running' => Running
  BY <1>4 DEF PostBatch, TakeAnswer, GiveUp, ServerStep, Report, client, Running
<1> QED
  BY <1>1, <1>2, <1>3, <1>4 DEF LoadNext, ClientStep

LEMMA RunsInit == LoadInit /\ Backings => StartedInv /\ AloneInv
<1> SUFFICES ASSUME LoadInit, Backings PROVE StartedInv /\ AloneInv
  OBVIOUS
<1>1. /\ posting = Nobody /\ ~ Running /\ summary = NoSummary
      /\ \A s \in Sessions : pc[s] = "idle"
  BY DEF LoadInit, Init, Running
<1>2. \A s \in Sessions : wDimensions[s] = NoDimensions
  BY <1>1 DEF Backings, WorkBacked, Resting
<1>3. \A s \in Sessions, e \in EmployeeIds : wEmployees[s][e] = NoRow
  BY DEF LoadInit, Init, NoEmployees
<1>4. ASSUME NEW R PROVE Tells(R)
  BY <1>1, <1>2, <1>3, IdleTells
<1> QED
  BY <1>1, <1>4 DEF StartedInv, AloneInv

LEMMA StartedStep ==
    ASSUME IInv, TypeInv', Backings, Accounts, ReportInv, RunInv, StartedInv, [LoadNext]_loadVars
    PROVE  StartedInv'
<1>1. TypeInv
  BY DEF IInv, Consistent
<1>2. PICK R : /\ R = RowsIn(started) /\ Tells(R)
               /\ Running => upload \in started
               /\ summary # NoSummary => summary.upload \in started /\ SummaryStands(R)
  BY DEF StartedInv
<1>3. CASE StartRun
  <2>1. PICK M : M = RowsIn(started')
    OBVIOUS
  <2>2. /\ Ready /\ UNCHANGED summary
        /\ started \subseteq started'
        /\ Running' => upload' \in started'
    <3>1. PICK u \in Uploads :
            /\ upload' = u
            /\ \/ UNCHANGED << phase, started >>
               \/ phase' = "running" /\ started' = started \cup {u}
      BY <1>3 DEF StartRun
    <3>2. Ready /\ UNCHANGED summary
      BY <1>3 DEF StartRun
    <3> QED
      BY <3>1, <3>2 DEF Ready, Running
  <2>3. Among(R, M)
    BY <1>2, <2>1, <2>2 DEF Among, RowsIn
  <2>4. ~ Running
    BY <2>2 DEF Ready, Running
  <2>5. Tells(M) /\ (SummaryStands(R) => SummaryStands(M))
    BY <1>1, <1>2, <2>3, <2>4, TellsMore
  <2>6. Tells(M)' /\ Moves(M)
    BY <1>1, <1>3, <2>5, StartTells
  <2>7. summary' # NoSummary => summary'.upload \in started' /\ SummaryStands(M)'
    BY <1>2, <2>2, <2>5, <2>6, SummaryStandsOn
  <2> QED
    BY <2>1, <2>2, <2>6, <2>7 DEF StartedInv
<1>4. CASE ~ StartRun
  <2>1. /\ UNCHANGED << upload, started >> /\ (Running' => Running)
        /\ FinishRun \/ UNCHANGED summary
    BY <1>4, WithinRuns
  <2>2. Running => \A t \in Targets : ToSet(RowsOf(upload, t)) \subseteq R[t]
    BY <1>2, RowsOfRuns
  <2>3. Tells(R)' /\ Moves(R)
    BY <1>2, <1>4, <2>2, TellsStep
  <2>4. summary' # NoSummary => summary'.upload \in started' /\ SummaryStands(R)'
    <3>1. CASE UNCHANGED summary
      BY <1>2, <2>1, <2>3, <3>1, SummaryStandsOn
    <3>2. CASE FinishRun
      <4>1. SummaryStands(R)'
        BY <1>2, <3>2, FinishStands DEF Tells
      <4>2. summary'.upload = upload /\ Running
        BY <3>2 DEF FinishRun, Between
      <4> QED
        BY <1>2, <2>1, <4>1, <4>2
    <3> QED
      BY <2>1, <3>1, <3>2
  <2> QED
    BY <1>2, <2>1, <2>3, <2>4 DEF StartedInv
<1> QED
  BY <1>3, <1>4

LEMMA AloneStep ==
    ASSUME IInv, TypeInv', Backings, Accounts, ReportInv, RunInv, StartedInv, AloneInv,
           [LoadNext]_loadVars
    PROVE  AloneInv'
<1>1. TypeInv /\ runs \in Nat
  BY DEF IInv, Consistent, RunInv
<1>2. CASE StartRun
  <2>1. /\ Ready /\ UNCHANGED summary /\ runs' = runs + 1
        /\ alone' = \A s \in Sessions : pc[s] = "idle"
    BY <1>2 DEF StartRun
  <2>2. PICK R : R = RowsIn({upload'})
    OBVIOUS
  <2>3. ASSUME alone' PROVE Tells(R)'
    <3>1. \A s \in Sessions : pc[s] = "idle"
      BY <2>1, <2>3
    <3>2. \A s \in Sessions : wDimensions[s] = NoDimensions
      BY <3>1 DEF Backings, WorkBacked, Resting
    <3>3. \A s \in Sessions, e \in EmployeeIds : wEmployees[s][e] = NoRow
      BY <3>1 DEF StartedInv, Tells, Own, Resting
    <3>4. posting = Nobody /\ ~ Running
      BY <2>1 DEF RunInv, Ready, Running
    <3>5. Tells(R)
      BY <3>1, <3>2, <3>3, <3>4, IdleTells
    <3> QED
      BY <1>1, <1>2, <3>5, StartTells
  <2>4. summary' # NoSummary => summary'.run \in Nat /\ summary'.run < runs'
    BY <1>1, <2>1 DEF AloneInv
  <2>5. summary' # NoSummary => summary'.run <= runs' /\ summary'.run # runs'
    BY <1>1, <2>1, <2>4
  <2> QED
    BY <2>2, <2>3, <2>4, <2>5 DEF AloneInv
<1>3. CASE ~ StartRun
  <2>1. /\ UNCHANGED << upload, alone, runs >> /\ (Running' => Running)
        /\ FinishRun \/ UNCHANGED summary
    BY <1>3, WithinRuns
  <2>2. PICK R : /\ R = RowsIn({upload})
                 /\ alone => Tells(R)
                 /\ summary # NoSummary /\ summary.run = runs /\ alone => SummaryStands(R)
    BY DEF AloneInv
  <2>3. \A t \in Targets : ToSet(RowsOf(upload, t)) \subseteq R[t]
    BY <2>2, RowsOfRuns
  <2>4. alone => Tells(R)' /\ Moves(R)
    BY <1>3, <2>2, <2>3, TellsStep
  <2>5. CASE UNCHANGED summary
    <3>1. summary' # NoSummary /\ summary'.run = runs' /\ alone' => SummaryStands(R)'
      BY <2>1, <2>2, <2>4, <2>5, SummaryStandsOn
    <3> QED
      BY <2>1, <2>2, <2>4, <2>5, <3>1 DEF AloneInv
  <2>6. CASE FinishRun
    <3>1. /\ ~ Running'
          /\ summary' = [outcomes |-> outcomes, rejected_rows |-> rejectedRows,
                         upload |-> upload, alone |-> alone, run |-> runs]
      BY <2>6 DEF FinishRun, Running
    <3>2. summary'.run = runs /\ summary'.upload = upload /\ summary'.alone = alone
      BY <3>1
    <3>3. alone => SummaryStands(R)'
      BY <2>2, <2>6, FinishStands DEF Tells
    <3> QED
      BY <1>1, <2>1, <2>2, <2>4, <3>1, <3>2, <3>3 DEF AloneInv
  <2> QED
    BY <2>1, <2>5, <2>6
<1> QED
  BY <1>2, <1>3

\* If whatever the tables hold of some files is said by rows that agree with
\* them, the files are stored.
LEMMA FilesStored ==
    ASSUME NEW W, NEW u, NEW R, R = RowsIn(W), \A w \in W : Agree(w, u), FilesHold(R, u)
    PROVE  Stored(u)
<1>1. Hires \in Targets /\ DimensionTables \subseteq Targets
  BY DEF Targets
<1>2. ASSUME NEW t \in Targets, NEW row \in ToSet(RowsOf(u, t)), NEW other \in R[t],
             other.id = row.id
      PROVE  other = row
  BY <1>2 DEF RowsIn, Agree
<1>3. ASSUME NEW t \in DimensionTables, NEW row \in ToSet(RowsOf(u, t))
      PROVE  dimensions[t][row.id] = row.name
  <2>1. SaysName(R, t, row.id, dimensions[t][row.id])
    BY <1>1, <1>3 DEF FilesHold, Holds, RowStands, NameStands
  <2>2. PICK other \in R[t] : other.id = row.id /\ other.name = dimensions[t][row.id]
    BY <2>1 DEF SaysName
  <2> QED
    BY <1>1, <1>2, <1>3, <2>2
<1>4. ASSUME NEW row \in ToSet(RowsOf(u, Hires))
      PROVE  employees[row.id] # NoRow /\ employees[row.id].current = RowAttributes(row)
  <2>1. employees[row.id] # NoRow /\ SaysHire(R, row.id, employees[row.id].current)
    BY <1>1, <1>4 DEF FilesHold, Holds, RowStands, HireStands
  <2>2. PICK other \in R[Hires] :
          other.id = row.id /\ RowAttributes(other) = employees[row.id].current
    BY <2>1 DEF SaysHire
  <2> QED
    BY <1>1, <1>2, <1>4, <2>1, <2>2
<1> QED
  BY <1>3, <1>4 DEF Stored

LEMMA RunsStep ==
    /\ IInv /\ TypeInv' /\ Backings /\ Accounts /\ ReportInv /\ RunInv
    /\ StartedInv /\ AloneInv /\ [LoadNext]_loadVars
    => StartedInv' /\ AloneInv'
BY StartedStep, AloneStep

\* A run that reports no failed batch and no rejected row has brought the
\* database to what its files say, whatever failed, timed out or was interrupted
\* before: for every set of files, and however many handlers run beside it.
THEOREM CompleteRunsAlwaysLoad == LoadSpec => []CompleteRunLoadsFiles
<1>1. ASSUME StartedInv, AloneInv PROVE CompleteRunLoadsFiles
  <2> SUFFICES ASSUME summary # NoSummary, Complete(summary.outcomes),
                      \/ \A w \in started : Agree(w, summary.upload)
                      \/ /\ summary.alone /\ summary.run = runs
                         /\ Agree(summary.upload, summary.upload)
               PROVE  Stored(summary.upload)
    BY DEF CompleteRunLoadsFiles, Complete
  <2>1. CASE \A w \in started : Agree(w, summary.upload)
    <3>1. PICK R : R = RowsIn(started) /\ SummaryStands(R)
      BY <1>1 DEF StartedInv
    <3>2. FilesHold(R, summary.upload)
      BY <3>1 DEF SummaryStands
    <3> QED
      BY <2>1, <3>1, <3>2, FilesStored
  <2>2. CASE /\ summary.alone /\ summary.run = runs
             /\ Agree(summary.upload, summary.upload)
    <3>1. summary.upload = upload /\ alone
      BY <1>1, <2>2 DEF AloneInv
    <3>2. PICK R : R = RowsIn({summary.upload}) /\ SummaryStands(R)
      BY <1>1, <2>2, <3>1 DEF AloneInv
    <3>3. FilesHold(R, summary.upload)
      BY <3>2 DEF SummaryStands
    <3> QED
      BY <2>2, <3>2, <3>3, FilesStored
  <2> QED
    BY <2>1, <2>2
<1>2. Consistent => TypeInv
  BY DEF Consistent
<1>3. StartedInv /\ AloneInv => CompleteRunLoadsFiles
  BY <1>1
<1> QED
  BY <1>2, <1>3, RunAlways, BackingsInit, BackingsStep, RunsInit, RunsStep,
     LoadImplementsIngest, ConsistentAlways, Invariance, AccountsKept, ServerNext, PTL
  DEF LoadSpec, Spec
=============================================================================
