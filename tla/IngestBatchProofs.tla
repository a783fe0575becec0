-------------------------- MODULE IngestBatchProofs --------------------------
(***************************************************************************)
(* The safety of concurrent ingestion, for every set of sessions,          *)
(* employees, dimension ids and batches: validation accepts only rows      *)
(* whose fields are all good, every action keeps the types, and IInv is    *)
(* inductive and implies that the tables stay in sync and that committed   *)
(* history is kept.                                                        *)
(***************************************************************************)
EXTENDS IngestBatchInvariant, FiniteSetTheorems, WellFoundedInduction, TLAPS

-----------------------------------------------------------------------------
(***************************************************************************)
(* Numbers, and functions defined by what each value adds to the last one. *)
(***************************************************************************)
Smaller == {ss \in Nat \X Nat : ss[1] < ss[2]}

LEMMA LeastNumber ==
    ASSUME NEW S, S \subseteq Nat, S # {}
    PROVE  \E m \in S : \A k \in S : m <= k
<1>1. IsWellFoundedOn(Smaller, Nat)
  BY NatLessThanWellFounded, Zenon DEF OpToRel, Smaller
<1>2. PICK m \in S : \A k \in S : ~ (<< k, m >> \in Smaller)
  BY <1>1, WFMin, Zenon
<1>3. ASSUME NEW k \in S PROVE m <= k
  <2>1. k \in Nat /\ m \in Nat /\ ~ (<< k, m >> \in Smaller)
    BY <1>2
  <2>2. k < m => << k, m >> \in Smaller
    BY <2>1 DEF Smaller
  <2> QED
    BY <2>1, <2>2
<1> QED
  BY <1>3

\* A set of numbers that goes on from each to the next, up to a bound.
LEMMA UpTo ==
    ASSUME NEW N \in Nat, NEW S, 0 \in S, \A n \in 1 .. N : n - 1 \in S => n \in S
    PROVE  0 .. N \subseteq S
<1> DEFINE missing == {n \in 0 .. N : n \notin S}
<1>1. SUFFICES ASSUME missing # {} PROVE FALSE
  OBVIOUS
<1>2. missing \subseteq Nat
  OBVIOUS
<1>3. \E m \in missing : \A k \in missing : m <= k
  <2> HIDE DEF missing
  <2> QED
    BY <1>1, <1>2, LeastNumber
<1>4. PICK m \in missing : \A k \in missing : m <= k
  BY <1>3
<1>5. m \in 1 .. N /\ m \notin S
  OBVIOUS
<1>6. m - 1 \in 0 .. N /\ ~ (m <= m - 1)
  BY <1>5
<1>7. m - 1 \notin missing
  BY <1>4, <1>6
<1> QED
  BY <1>5, <1>6, <1>7

\* A function that goes on from each value by the same step.
StaysIn(S, N, step) == \A n \in 1 .. N, x \in S : step[n][x] \in S

Runs(S, N, first, step, f) ==
    /\ f \in [0 .. N -> S]
    /\ f[0] = first
    /\ \A n \in 1 .. N : f[n] = step[n][f[n - 1]]

LEMMA Iterates ==
    ASSUME NEW S, NEW step, NEW N \in Nat, NEW first \in S, StaysIn(S, N, step)
    PROVE  \E f : Runs(S, N, first, step, f)
<1> DEFINE Follows(f, n) == f[0] = first /\ \A i \in 1 .. n : f[i] = step[i][f[i - 1]]
           Reached == {n \in 0 .. N : \E f \in [0 .. n -> S] : Follows(f, n)}
<1>1. 0 \in Reached
  <2>1. [i \in 0 .. 0 |-> first] \in [0 .. 0 -> S] /\ Follows([i \in 0 .. 0 |-> first], 0)
    OBVIOUS
  <2>2. \E f \in [0 .. 0 -> S] : Follows(f, 0)
    <3> HIDE DEF Follows
    <3> QED
      BY <2>1
  <2> HIDE DEF Follows
  <2> QED
    BY <2>2
<1>2. ASSUME NEW n \in 1 .. N, n - 1 \in Reached PROVE n \in Reached
  <2>1. PICK f \in [0 .. n - 1 -> S] : Follows(f, n - 1)
    BY <1>2
  <2> DEFINE g == [i \in 0 .. n |-> IF i = n THEN step[n][f[n - 1]] ELSE f[i]]
  <2>2. step[n][f[n - 1]] \in S
    <3>1. f[n - 1] \in S
      BY <2>1
    <3> QED
      BY <3>1 DEF StaysIn
  <2>3. g \in [0 .. n -> S]
    <3>1. ASSUME NEW i \in 0 .. n, i # n PROVE f[i] \in S
      <4>1. i \in 0 .. n - 1
        BY <3>1
      <4> QED
        BY <2>1, <4>1
    <3> QED
      BY <2>2, <3>1
  <2>4. g[0] = first
    BY <2>1
  <2>5. ASSUME NEW i \in 1 .. n PROVE g[i] = step[i][g[i - 1]]
    <3>1. i \in 0 .. n /\ i - 1 \in 0 .. n /\ i - 1 # n
      BY <2>5
    <3>2. g[i - 1] = f[i - 1]
      BY <3>1
    <3>3. CASE i = n
      BY <3>1, <3>2, <3>3
    <3>4. CASE i # n
      <4>1. i \in 1 .. n - 1
        BY <2>5, <3>4
      <4>2. g[i] = f[i] /\ f[i] = step[i][f[i - 1]]
        BY <2>1, <3>1, <3>4, <4>1
      <4> QED
        BY <3>2, <4>2
    <3> QED
      BY <3>3, <3>4
  <2>6. Follows(g, n) /\ n \in 0 .. N
    <3> HIDE DEF g
    <3> QED
      BY <2>4, <2>5
  <2> QED
    BY <2>3, <2>6
<1>3. N \in Reached
  <2> HIDE DEF Reached
  <2>1. 0 .. N \subseteq Reached
    BY <1>1, <1>2, UpTo
  <2> QED
    BY <2>1
<1> QED
  BY <1>3 DEF Runs

-----------------------------------------------------------------------------
(***************************************************************************)
(* Row validation.                                                         *)
(***************************************************************************)
ErrorRecord == [field : Field, reason_code : ReasonCode]

LEMMA EmptyConcat ==
    ASSUME NEW S, NEW a \in Seq(S), NEW b \in Seq(S)
    PROVE  /\ a \o b \in Seq(S)
           /\ a \o b = << >> <=> a = << >> /\ b = << >>
<1>1. a \o b \in Seq(S)
  OBVIOUS
<1>2. Len(a \o b) = Len(a) + Len(b)
  OBVIOUS
<1>3. ASSUME NEW c \in Seq(S) PROVE c = << >> <=> Len(c) = 0
  OBVIOUS
<1> QED
  BY <1>1, <1>2, <1>3

LEMMA OneError ==
    ASSUME NEW field \in Field, NEW code \in ReasonCode
    PROVE  /\ << FieldError(field, code) >> \in Seq(ErrorRecord)
           /\ << FieldError(field, code) >> # << >>
           /\ << >> \in Seq(ErrorRecord)
<1>1. FieldError(field, code) \in ErrorRecord
  BY DEF FieldError, ErrorRecord
<1> QED
  BY <1>1

\* validate_department and validate_job accept a row only when both of its
\* fields are good.
LEMMA DimensionErrorsEmpty ==
    ASSUME NEW row \in DimensionRow, NEW key \in {"department", "job"}
    PROVE  /\ DimensionErrors(row, key) \in Seq(ErrorRecord)
           /\ DimensionErrors(row, key) = << >> => row.id # Absent /\ row.name # Absent
<1>1. /\ CheckId(row) \in Seq(ErrorRecord)
      /\ CheckId(row) = << >> <=> row.id # Absent
  BY OneError DEF CheckId, ErrorUnless, Field, ReasonCode
<1>2. /\ CheckName(row, key) \in Seq(ErrorRecord)
      /\ CheckName(row, key) = << >> <=> row.name # Absent
  BY OneError DEF CheckName, ErrorUnless, Field, ReasonCode
<1> QED
  BY <1>1, <1>2, EmptyConcat DEF DimensionErrors

\* validate_hire accepts a row only when all of its fields are good.
LEMMA HireErrorsEmpty ==
    ASSUME NEW row \in HireRow, NEW dk \in BOOLEAN, NEW jk \in BOOLEAN
    PROVE  /\ HireErrors(row, dk, jk) \in Seq(ErrorRecord)
           /\ HireErrors(row, dk, jk) = << >> =>
                /\ row.id # Absent /\ row.name # Absent
                /\ row.datetime \notin {Absent, Malformed}
                /\ row.department_id # Absent /\ row.job_id # Absent
                /\ dk /\ jk
<1> DEFINE a == CheckId(row)
           b == CheckName(row, "name")
           c == CheckDatetime(row)
           d == CheckFkId(row.department_id, "department_id", "MISSING_DEPARTMENT")
           e == CheckFkId(row.job_id, "job_id", "MISSING_JOB")
           f == CheckReference(row.department_id, dk, "department_id", "UNKNOWN_DEPARTMENT")
           g == CheckReference(row.job_id, jk, "job_id", "UNKNOWN_JOB")
<1>1. a \in Seq(ErrorRecord) /\ (a = << >> <=> row.id # Absent)
  BY OneError DEF CheckId, ErrorUnless, Field, ReasonCode
<1>2. b \in Seq(ErrorRecord) /\ (b = << >> <=> row.name # Absent)
  BY OneError DEF CheckName, ErrorUnless, Field, ReasonCode
<1>3. c \in Seq(ErrorRecord) /\ (c = << >> <=> row.datetime \notin {Absent, Malformed})
  BY OneError DEF CheckDatetime, ErrorUnless, Field, ReasonCode
<1>4. d \in Seq(ErrorRecord) /\ (d = << >> <=> row.department_id # Absent)
  BY OneError DEF CheckFkId, ErrorUnless, Field, ReasonCode
<1>5. e \in Seq(ErrorRecord) /\ (e = << >> <=> row.job_id # Absent)
  BY OneError DEF CheckFkId, ErrorUnless, Field, ReasonCode
<1>6. /\ f \in Seq(ErrorRecord) /\ (f = << >> <=> row.department_id = Absent \/ dk)
      /\ g \in Seq(ErrorRecord) /\ (g = << >> <=> row.job_id = Absent \/ jk)
  BY OneError DEF CheckReference, ErrorUnless, Field, ReasonCode
<1> HIDE DEF a, b, c, d, e, f, g
<1>7. /\ (a \o b) \in Seq(ErrorRecord)
      /\ ((a \o b) \o c) \in Seq(ErrorRecord)
      /\ (((a \o b) \o c) \o d) \in Seq(ErrorRecord)
      /\ ((((a \o b) \o c) \o d) \o e) \in Seq(ErrorRecord)
      /\ (((((a \o b) \o c) \o d) \o e) \o f) \in Seq(ErrorRecord)
      /\ ((((((a \o b) \o c) \o d) \o e) \o f) \o g) \in Seq(ErrorRecord)
  BY <1>1, <1>2, <1>3, <1>4, <1>5, <1>6, EmptyConcat
<1>8. ((((((a \o b) \o c) \o d) \o e) \o f) \o g) = << >> =>
        /\ a = << >> /\ b = << >> /\ c = << >> /\ d = << >> /\ e = << >>
        /\ f = << >> /\ g = << >>
  BY <1>1, <1>2, <1>3, <1>4, <1>5, <1>6, <1>7, EmptyConcat
<1>9. HireErrors(row, dk, jk) = ((((((a \o b) \o c) \o d) \o e) \o f) \o g)
  BY DEF HireErrors, a, b, c, d, e, f, g
<1> QED
  BY <1>1, <1>2, <1>3, <1>4, <1>5, <1>6, <1>7, <1>8, <1>9

-----------------------------------------------------------------------------
(***************************************************************************)
(* Types.                                                                  *)
(***************************************************************************)
LEMMA RowType ==
    ASSUME TypeInv, NEW s \in Sessions, MoreRows(s)
    PROVE  /\ req[s].target_table = Hires => Row(s) \in HireRow
           /\ req[s].target_table # Hires => Row(s) \in DimensionRow
<1>1. /\ req[s] \in Request
      /\ req[s].rows \in Seq(IF req[s].target_table = Hires THEN HireRow ELSE DimensionRow)
  BY DEF TypeInv, TypeOK, RowInv
<1>2. req[s].row_index \in 1 .. Len(req[s].rows)
  BY <1>1 DEF Request, MoreRows
<1> QED
  BY <1>1, <1>2 DEF Row

\* Moving to the next row, or on to another statement of the same row.
LEMMA GotoType ==
    ASSUME TypeInv, NEW s \in Sessions, NEW label \in Labels, Goto(s, label),
           UNCHANGED req
    PROVE  /\ pc' \in [Sessions -> Labels]
           /\ req' \in [Sessions -> Request]
           /\ \A o \in Sessions \ {s} : RowInv(o)'
           /\ pc'[s] = label
BY DEF TypeInv, TypeOK, Goto, RowInv, MoreRows, Row

LEMMA AcceptType ==
    ASSUME TypeInv, NEW s \in Sessions, Accept(s)
    PROVE  /\ req' \in [Sessions -> Request]
           /\ local' \in [Sessions -> Reads]
           /\ pc' \in [Sessions -> Labels]
           /\ \A o \in Sessions : RowInv(o)'
<1>1. req' = [req EXCEPT ![s].row_index = req[s].row_index + 1, ![s].accepted = req[s].accepted + 1]
  BY DEF Accept
<1>2. req[s] \in Request
  BY DEF TypeInv, TypeOK
<1>3. req' \in [Sessions -> Request]
  BY <1>1, <1>2 DEF TypeInv, TypeOK, Request
<1>4. NoReads \in Reads
  BY DEF NoReads, Reads
<1>5. local' \in [Sessions -> Reads] /\ pc' \in [Sessions -> Labels]
  BY <1>4 DEF TypeInv, TypeOK, Accept, Goto, Labels
<1>6. ASSUME NEW o \in Sessions PROVE RowInv(o)'
  <2>1. CASE o = s
    <3>1. /\ pc'[s] = "row"
          /\ req'[s].rows = req[s].rows
          /\ req'[s].target_table = req[s].target_table
      BY <1>1, <1>2 DEF Accept, Goto, TypeInv, TypeOK, Request
    <3> QED
      BY <2>1, <3>1 DEF TypeInv, RowInv, Midway
  <2>2. CASE o # s
    BY <2>2 DEF Accept, Goto, TypeInv, TypeOK, RowInv, MoreRows, Row
  <2> QED
    BY <2>1, <2>2
<1> QED
  BY <1>3, <1>5, <1>6

LEMMA RejectType ==
    ASSUME TypeInv, NEW s \in Sessions, MoreRows(s), NEW errors \in Seq(ErrorRecord),
           Reject(s, errors)
    PROVE  /\ req' \in [Sessions -> Request]
           /\ local' \in [Sessions -> Reads]
           /\ pc' \in [Sessions -> Labels]
           /\ \A o \in Sessions : RowInv(o)'
<1> DEFINE records == RejectedRecords(Row(s), errors)
<1>1. req' = [req EXCEPT ![s].row_index = req[s].row_index + 1,
                         ![s].rejected = req[s].rejected + 1,
                         ![s].rejects = req[s].rejects \o records]
  BY DEF Reject
<1>2. req[s] \in Request
  BY DEF TypeInv, TypeOK
<1>3. records \in Seq(RejectedRecord)
  <2>1. Row(s) \in DimensionRow \cup HireRow
    BY RowType
  <2>2. \A i \in 1 .. Len(errors) : errors[i] \in ErrorRecord
    OBVIOUS
  <2>3. \A i \in 1 .. Len(errors) : records[i] \in RejectedRecord
    BY <2>1, <2>2 DEF RejectedRecords, RejectedRecord, ErrorRecord
  <2> QED
    BY <2>3 DEF RejectedRecords
<1> HIDE DEF records
<1>4. req[s].rejects \o records \in Seq(RejectedRecord)
  BY <1>2, <1>3 DEF Request
<1>5. req' \in [Sessions -> Request]
  BY <1>1, <1>2, <1>4 DEF TypeInv, TypeOK, Request
<1>6. NoReads \in Reads
  BY DEF NoReads, Reads
<1>7. local' \in [Sessions -> Reads] /\ pc' \in [Sessions -> Labels]
  BY <1>6 DEF TypeInv, TypeOK, Reject, Goto, Labels
<1>8. ASSUME NEW o \in Sessions PROVE RowInv(o)'
  <2>1. CASE o = s
    <3>1. /\ pc'[s] = "row"
          /\ req'[s].rows = req[s].rows
          /\ req'[s].target_table = req[s].target_table
      BY <1>1, <1>2 DEF Reject, Goto, TypeInv, TypeOK, Request
    <3> QED
      BY <2>1, <3>1 DEF TypeInv, RowInv, Midway
  <2>2. CASE o # s
    BY <1>1, <2>2 DEF Reject, Goto, TypeInv, TypeOK, RowInv, MoreRows, Row
  <2> QED
    BY <2>1, <2>2
<1> QED
  BY <1>5, <1>7, <1>8

LEMMA NoWritesType ==
    /\ NoDimensions \in [DimensionTables -> [DimensionIds -> Names \cup {NoRow}]]
    /\ NoEmployees \in [EmployeeIds -> Employee \cup {NoRow}]
    /\ NoVersions \in [VersionIds -> Version \cup {NoRow}]
    /\ NoReads \in Reads
BY DEF NoDimensions, NoEmployees, NoVersions, NoReads, Reads

LEMMA FailType ==
    ASSUME TypeInv, NEW s \in Sessions, Fail(s), versionSeq' \in 0 .. MaxVersions
    PROVE  TypeInv'
<1>1. /\ wDimensions' \in [Sessions -> [DimensionTables -> [DimensionIds -> Names \cup {NoRow}]]]
      /\ wEmployees' \in [Sessions -> [EmployeeIds -> Employee \cup {NoRow}]]
      /\ wVersions' \in [Sessions -> [VersionIds -> Version \cup {NoRow}]]
      /\ local' \in [Sessions -> Reads]
  BY NoWritesType DEF TypeInv, TypeOK, Fail, Rollback, DropWrites
<1>2. "idle" \in Labels /\ Goto(s, "idle") /\ UNCHANGED req
  BY DEF Labels, Fail
<1>3. /\ pc' \in [Sessions -> Labels]
      /\ req' \in [Sessions -> Request]
      /\ \A o \in Sessions \ {s} : RowInv(o)'
      /\ pc'[s] = "idle"
  BY <1>2, GotoType
<1>4. RowInv(s)'
  BY <1>2, <1>3 DEF TypeInv, RowInv, Midway
<1>5. TypeOK'
  BY <1>1, <1>3 DEF TypeInv, TypeOK, Fail, tables
<1> QED
  BY <1>3, <1>4, <1>5 DEF TypeInv

\* What a session sees of a table: its own writes over the committed rows.
LEMMA SeenType ==
    ASSUME TypeInv, NEW s \in Sessions
    PROVE  /\ EmployeesSeen(s) \in [EmployeeIds -> Employee \cup {NoRow}]
           /\ \A e \in EmployeeIds :
                EmployeesSeen(s)[e] = IF wEmployees[s][e] = NoRow THEN employees[e]
                                                                  ELSE wEmployees[s][e]
           /\ VersionsSeen(s) \in [VersionIds -> Version \cup {NoRow}]
           /\ \A v \in VersionIds :
                VersionsSeen(s)[v] = IF wVersions[s][v] = NoRow THEN versions[v]
                                                                ELSE wVersions[s][v]
           /\ \A t \in DimensionTables :
                /\ DimensionsSeen(s, t) \in [DimensionIds -> Names \cup {NoRow}]
                /\ \A d \in DimensionIds :
                     DimensionsSeen(s, t)[d] = IF wDimensions[s][t][d] = NoRow
                                                 THEN dimensions[t][d]
                                                 ELSE wDimensions[s][t][d]
<1>1. /\ employees \in [EmployeeIds -> Employee \cup {NoRow}]
      /\ wEmployees[s] \in [EmployeeIds -> Employee \cup {NoRow}]
      /\ versions \in [VersionIds -> Version \cup {NoRow}]
      /\ wVersions[s] \in [VersionIds -> Version \cup {NoRow}]
      /\ \A t \in DimensionTables :
           /\ dimensions[t] \in [DimensionIds -> Names \cup {NoRow}]
           /\ wDimensions[s][t] \in [DimensionIds -> Names \cup {NoRow}]
  BY DEF TypeInv, TypeOK
<1>2. /\ EmployeesSeen(s) \in [EmployeeIds -> Employee \cup {NoRow}]
      /\ \A e \in EmployeeIds :
           EmployeesSeen(s)[e] = IF wEmployees[s][e] = NoRow THEN employees[e]
                                                             ELSE wEmployees[s][e]
  BY <1>1 DEF EmployeesSeen, Over
<1>3. /\ VersionsSeen(s) \in [VersionIds -> Version \cup {NoRow}]
      /\ \A v \in VersionIds :
           VersionsSeen(s)[v] = IF wVersions[s][v] = NoRow THEN versions[v]
                                                           ELSE wVersions[s][v]
  BY <1>1 DEF VersionsSeen, Over
<1>4. ASSUME NEW t \in DimensionTables
      PROVE  /\ DimensionsSeen(s, t) \in [DimensionIds -> Names \cup {NoRow}]
             /\ \A d \in DimensionIds :
                  DimensionsSeen(s, t)[d] = IF wDimensions[s][t][d] = NoRow
                                              THEN dimensions[t][d]
                                              ELSE wDimensions[s][t][d]
  BY <1>1 DEF DimensionsSeen, Over
<1> QED
  BY <1>2, <1>3, <1>4

\* The targets of INSERT and UPDATE stay clear of the sentinel.
LEMMA NoRowDistinct ==
    /\ \A r \in Employee : r # NoRow
    /\ \A r \in Version : r # NoRow
    /\ \A r \in Names : r # NoRow
BY NoRowAssumption

\* A row that validate_hire accepts has an id, a datetime and attributes.
LEMMA ValidHireType ==
    ASSUME NEW row \in HireRow, row.id # Absent, row.name # Absent,
           row.datetime \notin {Absent, Malformed},
           row.department_id # Absent, row.job_id # Absent
    PROVE  row.id \in EmployeeIds /\ RowAttributes(row) \in Attributes /\ row.datetime \in Nat
BY DEF HireRow, RowAttributes, Attributes

LEMMA WriteDimensionType ==
    ASSUME TypeInv, NEW s \in Sessions, NEW t \in DimensionTables, NEW d, NEW name \in Names,
           WriteDimension(s, t, d, name)
    PROVE  wDimensions' \in [Sessions -> [DimensionTables -> [DimensionIds -> Names \cup {NoRow}]]]
<1> DEFINE Rows == [DimensionTables -> [DimensionIds -> Names \cup {NoRow}]]
<1>1. wDimensions \in [Sessions -> Rows]
  BY DEF TypeInv, TypeOK
<1>2. [wDimensions[s][t] EXCEPT ![d] = name] \in [DimensionIds -> Names \cup {NoRow}]
  <2>1. wDimensions[s][t] \in [DimensionIds -> Names \cup {NoRow}]
    BY <1>1
  <2> QED
    BY <2>1
<1>3. [wDimensions[s] EXCEPT ![t] = [wDimensions[s][t] EXCEPT ![d] = name]] \in Rows
  BY <1>1, <1>2
<1>4. wDimensions' = [wDimensions EXCEPT
                        ![s] = [wDimensions[s] EXCEPT
                                  ![t] = [wDimensions[s][t] EXCEPT ![d] = name]]]
  BY DEF WriteDimension
<1>5. PICK rows \in Rows : wDimensions' = [wDimensions EXCEPT ![s] = rows]
  BY <1>3, <1>4
<1>6. ASSUME NEW R, wDimensions \in [Sessions -> R], rows \in R
      PROVE  wDimensions' \in [Sessions -> R]
  BY <1>5, <1>6
<1> HIDE DEF Rows
<1>7. wDimensions' \in [Sessions -> Rows]
  BY <1>1, <1>5, <1>6
<1> QED
  BY <1>7 DEF Rows

LEMMA NoRequestType == NoRequest \in Request
BY DEF NoRequest, Request, Targets

LEMMA TypeInit == Init => TypeInv
<1> SUFFICES ASSUME Init PROVE TypeInv
  OBVIOUS
<1>2. /\ dimensions \in [DimensionTables -> [DimensionIds -> Names \cup {NoRow}]]
      /\ loadSeq \in 0 .. MaxLoads /\ versionSeq \in 0 .. MaxVersions /\ clock \in Nat
  BY DimensionsAssumption, BoundsAssumption DEF Init
<1>3. TypeOK
  BY <1>2, NoRequestType, NoWritesType DEF Init, TypeOK, Labels
<1>4. ASSUME NEW s \in Sessions PROVE RowInv(s)
  <2>1. pc[s] = "idle" /\ req[s].rows = << >>
    BY DEF Init, NoRequest
  <2>2. req[s].rows \in Seq(IF req[s].target_table = Hires THEN HireRow ELSE DimensionRow)
    BY <2>1
  <2> QED
    BY <2>1, <2>2 DEF RowInv, Midway
<1> QED
  BY <1>3, <1>4 DEF TypeInv

\* A look-up that fails ends the request like any statement that fails.
LEMMA OutOfRangeIsAbort ==
    ASSUME NEW s \in Sessions
    PROVE  OutOfRangeLookUp(s) => Abort(s)
BY DEF OutOfRangeLookUp, Abort

\* Every action keeps the types and leaves the next statement a valid row.
LEMMA TypeStep == TypeInv /\ (\A s \in Sessions : TargetInv(s)) /\ [Next]_vars => TypeInv'
<1> SUFFICES ASSUME TypeInv, \A s \in Sessions : TargetInv(s), [Next]_vars PROVE TypeInv'
  OBVIOUS
<1> USE DEF TypeInv
<1>1. CASE UNCHANGED vars
  BY <1>1 DEF TypeOK, vars, tables, sequences, writes, RowInv, MoreRows, Row
<1>2. ASSUME NEW s \in Sessions, Receive(s) PROVE TypeInv'
  <2>1. PICK t \in Targets : \E rows \in Batches(t) :
          req' = [req EXCEPT ![s] = [NoRequest EXCEPT !.target_table = t,
                                                      !.rows = rows,
                                                      !.load_id = loadSeq + 1]]
    BY <1>2 DEF Receive
  <2>2. PICK rows \in Batches(t) :
          req' = [req EXCEPT ![s] = [NoRequest EXCEPT !.target_table = t,
                                                      !.rows = rows,
                                                      !.load_id = loadSeq + 1]]
    BY <2>1
  <2>3. rows \in Seq(IF t = Hires THEN HireRow ELSE DimensionRow)
    BY BatchesAssumption DEF Batches, Targets, DimensionTables, Hires
  <2>4. loadSeq + 1 \in LoadIds
    BY <1>2, BoundsAssumption DEF Receive, TypeOK, LoadIds
  <2>5. [NoRequest EXCEPT !.target_table = t, !.rows = rows, !.load_id = loadSeq + 1] \in Request
    <3>1. rows \in Seq(DimensionRow) \cup Seq(HireRow)
      BY <2>3
    <3> QED
      BY <2>1, <2>4, <3>1, NoRequestType DEF Request
  <2>6. req' \in [Sessions -> Request]
    BY <2>2, <2>5 DEF TypeOK
  <2>7. TypeOK'
    BY <1>2, <2>4, <2>6 DEF Receive, TypeOK, Goto, Labels, tables, writes, LoadIds
  <2>8. /\ pc'[s] = "row" /\ req'[s].rows = rows /\ req'[s].target_table = t
    BY <1>2, <2>2 DEF Receive, TypeOK, Goto, NoRequest
  <2>9. RowInv(s)'
    BY <2>3, <2>8 DEF RowInv, Midway
  <2>10. ASSUME NEW o \in Sessions \ {s} PROVE RowInv(o)'
    BY <1>2, <2>2 DEF Receive, TypeOK, Goto, RowInv, MoreRows, Row
  <2> QED
    BY <2>7, <2>9, <2>10
<1>3. ASSUME NEW s \in Sessions, RejectDimension(s) PROVE TypeInv'
  <2> DEFINE errors == DimensionErrors(Row(s), NameKey(req[s].target_table))
  <2>1. MoreRows(s) /\ Reject(s, errors)
    BY <1>3 DEF RejectDimension, AtDimensionRow
  <2>2. errors \in Seq(ErrorRecord)
    BY <1>3, <2>1, RowType, DimensionErrorsEmpty
    DEF RejectDimension, AtDimensionRow, NameKey, DimensionTables, Hires
  <2> HIDE DEF errors
  <2>3. /\ req' \in [Sessions -> Request]
        /\ local' \in [Sessions -> Reads]
        /\ pc' \in [Sessions -> Labels]
        /\ \A o \in Sessions : RowInv(o)'
    BY <2>1, <2>2, RejectType
  <2> QED
    BY <1>3, <2>3 DEF RejectDimension, TypeOK, tables, sequences, writes
<1>4. ASSUME NEW s \in Sessions, SelectDimension(s) PROVE TypeInv'
  <2>1. /\ MoreRows(s) /\ req[s].target_table \in DimensionTables
        /\ Goto(s, "upsert") /\ UNCHANGED req /\ "upsert" \in Labels
    BY <1>4 DEF SelectDimension, AtDimensionRow, Labels
  <2>2. Row(s).id \in DimensionIds /\ Row(s).name \in Names
    BY <1>4, <2>1, RowType, DimensionErrorsEmpty
    DEF SelectDimension, NameKey, DimensionTables, Hires, DimensionRow
  <2>3. DimensionsSeen(s, req[s].target_table)[Row(s).id] \in Names \cup {NoRow}
    BY <2>1, <2>2, SeenType
  <2>4. local' \in [Sessions -> Reads]
    <3> DEFINE found == DimensionsSeen(s, req[s].target_table)[Row(s).id]
    <3>1. local' = [local EXCEPT ![s].found = found] /\ found \in Names \cup {NoRow}
      BY <1>4, <2>3 DEF SelectDimension
    <3> HIDE DEF found
    <3>2. local \in [Sessions -> Reads]
      BY DEF TypeOK
    <3> QED
      BY <3>1, <3>2 DEF Reads
  <2>5. /\ pc' \in [Sessions -> Labels]
        /\ req' \in [Sessions -> Request]
        /\ \A o \in Sessions \ {s} : RowInv(o)'
        /\ pc'[s] = "upsert"
    BY <2>1, GotoType
  <2>6. RowInv(s)'
    BY <2>1, <2>2, <2>5 DEF RowInv, MoreRows, Row, Midway
  <2> QED
    BY <1>4, <2>4, <2>5, <2>6 DEF SelectDimension, TypeOK, tables, sequences, writes
<1>5. ASSUME NEW s \in Sessions, InsertDimension(s) PROVE TypeInv'
  <2> DEFINE t == req[s].target_table
             d == Row(s).id
  <2>1. CASE dimensions[t][d] # NoRow
    BY <1>5, <2>1, FailType DEF InsertDimension, TypeOK
  <2>2. CASE dimensions[t][d] = NoRow
    <3>1. /\ WriteDimension(s, t, d, Row(s).name)
          /\ Accept(s)
          /\ UNCHANGED << tables, loadSeq, clock, wEmployees, wVersions, answer >>
          /\ UNCHANGED versionSeq
      BY <1>5, <2>2 DEF InsertDimension
    <3>2. Row(s).name \in Names /\ t \in DimensionTables
      BY <1>5 DEF InsertDimension, RowInv
    <3>3. wDimensions' \in [Sessions -> [DimensionTables -> [DimensionIds -> Names \cup {NoRow}]]]
      BY <3>1, <3>2, WriteDimensionType
    <3> QED
      BY <3>1, <3>3, AcceptType DEF TypeOK, tables
  <2> QED
    BY <2>1, <2>2
<1>6. ASSUME NEW s \in Sessions, UpdateDimension(s) PROVE TypeInv'
  <2>1. Accept(s) /\ Row(s).name \in Names /\ req[s].target_table \in DimensionTables
    BY <1>6 DEF UpdateDimension, RowInv
  <2>2. wDimensions' \in [Sessions -> [DimensionTables -> [DimensionIds -> Names \cup {NoRow}]]]
    <3>1. CASE UNCHANGED wDimensions
      BY <3>1 DEF TypeOK
    <3>2. CASE WriteDimension(s, req[s].target_table, Row(s).id, Row(s).name)
      BY <2>1, <3>2, WriteDimensionType
    <3> QED
      BY <1>6, <3>1, <3>2 DEF UpdateDimension
  <2> QED
    BY <1>6, <2>1, <2>2, AcceptType DEF UpdateDimension, TypeOK, tables, sequences
<1>7. ASSUME NEW s \in Sessions, CheckDepartment(s) PROVE TypeInv'
  <2>1. /\ MoreRows(s) /\ req[s].target_table = Hires
        /\ Goto(s, "check_job") /\ UNCHANGED req /\ "check_job" \in Labels
    BY <1>7 DEF CheckDepartment, Labels
  <2>2. Known(s, "departments", Row(s).department_id) \in BOOLEAN
    BY DEF Known
  <2>3. local' \in [Sessions -> Reads]
    <3> DEFINE known == Known(s, "departments", Row(s).department_id)
    <3>1. local' = [local EXCEPT ![s].department_known = known] /\ known \in BOOLEAN
      BY <1>7, <2>2 DEF CheckDepartment
    <3> HIDE DEF known
    <3>2. local \in [Sessions -> Reads]
      BY DEF TypeOK
    <3> QED
      BY <3>1, <3>2 DEF Reads
  <2>4. /\ pc' \in [Sessions -> Labels]
        /\ req' \in [Sessions -> Request]
        /\ \A o \in Sessions \ {s} : RowInv(o)'
        /\ pc'[s] = "check_job"
    BY <2>1, GotoType
  <2>5. RowInv(s)'
    BY <2>1, <2>4 DEF RowInv, MoreRows, Midway
  <2> QED
    BY <1>7, <2>3, <2>4, <2>5 DEF CheckDepartment, TypeOK, tables, sequences, writes
<1>8. ASSUME NEW s \in Sessions, CheckJob(s) PROVE TypeInv'
  <2> DEFINE known == Known(s, "jobs", Row(s).job_id)
             errors == HireErrors(Row(s), local[s].department_known, known)
  <2>1. MoreRows(s) /\ req[s].target_table = Hires /\ Row(s) \in HireRow
    BY <1>8, RowType DEF CheckJob, RowInv
  <2>2. known \in BOOLEAN /\ local[s].department_known \in BOOLEAN
    BY DEF Known, TypeOK, Reads
  <2> HIDE DEF known
  <2>3. /\ errors \in Seq(ErrorRecord)
        /\ errors = << >> =>
             /\ Row(s).id \in EmployeeIds
             /\ RowAttributes(Row(s)) \in Attributes
             /\ Row(s).datetime \in Nat
    BY <2>1, <2>2, HireErrorsEmpty, ValidHireType
  <2>4. /\ IF errors # << >>
             THEN Reject(s, errors)
             ELSE Goto(s, "exists") /\ UNCHANGED << req, local >>
        /\ UNCHANGED << tables, sequences, writes, answer >>
    BY <1>8 DEF CheckJob, known
  <2> HIDE DEF errors
  <2>5. CASE errors # << >>
    <3>1. /\ req' \in [Sessions -> Request]
          /\ local' \in [Sessions -> Reads]
          /\ pc' \in [Sessions -> Labels]
          /\ \A o \in Sessions : RowInv(o)'
      BY <2>1, <2>3, <2>4, <2>5, RejectType
    <3> QED
      BY <2>4, <3>1 DEF TypeOK, tables, sequences, writes
  <2>6. CASE errors = << >>
    <3>1. Goto(s, "exists") /\ UNCHANGED req /\ UNCHANGED local /\ "exists" \in Labels
      BY <2>4, <2>6 DEF Labels
    <3>2. /\ pc' \in [Sessions -> Labels]
          /\ req' \in [Sessions -> Request]
          /\ \A o \in Sessions \ {s} : RowInv(o)'
          /\ pc'[s] = "exists"
      BY <3>1, GotoType
    <3>3. RowInv(s)'
      BY <2>1, <2>3, <2>6, <3>1, <3>2 DEF RowInv, MoreRows, Row, Midway
    <3> QED
      BY <2>4, <3>1, <3>2, <3>3 DEF TypeOK, tables, sequences, writes
  <2> QED
    BY <2>5, <2>6
<1>9. ASSUME NEW s \in Sessions, Exists(s) PROVE TypeInv'
  <2>1. PICK label \in {"add_employee", "get_current"} : Goto(s, label)
    BY <1>9 DEF Exists
  <2>2. label \in Labels /\ UNCHANGED req
    BY <1>9 DEF Labels, Exists
  <2>3. /\ pc' \in [Sessions -> Labels]
        /\ req' \in [Sessions -> Request]
        /\ \A o \in Sessions \ {s} : RowInv(o)'
        /\ pc'[s] = label
    BY <2>1, <2>2, GotoType
  <2>4. RowInv(s)'
    BY <1>9, <2>2, <2>3 DEF Exists, RowInv, MoreRows, Row, Midway
  <2> QED
    BY <1>9, <2>3, <2>4 DEF Exists, TypeOK, tables, sequences, writes
<1>10. ASSUME NEW s \in Sessions, AddEmployee(s) PROVE TypeInv'
  <2> DEFINE e == Row(s).id
             new == NewEmployee(Row(s))
  <2>1. CASE employees[e] # NoRow
    BY <1>10, <2>1, FailType DEF AddEmployee, TypeOK
  <2>2. CASE employees[e] = NoRow
    <3>1. /\ wEmployees' = [wEmployees EXCEPT ![s][e] = new]
          /\ local' = [local EXCEPT ![s].valid_from = Row(s).datetime]
          /\ Goto(s, "add_first_version")
          /\ UNCHANGED << tables, loadSeq, clock, wDimensions, wVersions, req, answer >>
          /\ UNCHANGED versionSeq
      BY <1>10, <2>2 DEF AddEmployee
    <3>2. /\ RowAttributes(Row(s)) \in Attributes
          /\ Row(s).datetime \in Nat
          /\ "add_first_version" \in Labels
      BY <1>10 DEF AddEmployee, RowInv, Labels
    <3>3. new \in Employee
      BY <3>2 DEF Employee, NewEmployee
    <3>4. wEmployees' \in [Sessions -> [EmployeeIds -> Employee \cup {NoRow}]]
      <4>1. wEmployees \in [Sessions -> [EmployeeIds -> Employee \cup {NoRow}]]
        BY DEF TypeOK
      <4> HIDE DEF new
      <4> QED
        BY <3>1, <3>3, <4>1
    <3>5. local' \in [Sessions -> Reads]
      <4>1. local \in [Sessions -> Reads]
        BY DEF TypeOK
      <4> QED
        BY <3>1, <3>2, <4>1 DEF Reads
    <3>6. /\ pc' \in [Sessions -> Labels]
          /\ req' \in [Sessions -> Request]
          /\ \A o \in Sessions \ {s} : RowInv(o)'
          /\ pc'[s] = "add_first_version"
      BY <3>1, <3>2, GotoType
    <3>7. RowInv(s)'
      BY <1>10, <3>1, <3>6 DEF AddEmployee, RowInv, MoreRows, Row, Midway
    <3> QED
      BY <3>1, <3>4, <3>5, <3>6, <3>7 DEF TypeOK, tables
  <2> QED
    BY <2>1, <2>2
<1>11. ASSUME NEW s \in Sessions, GetCurrent(s) PROVE TypeInv'
  <2> DEFINE current == CurrentIn(VersionsSeen(s), Row(s).id)
             unchanged(v) == SameAttributes(VersionsSeen(s)[v], Row(s))
  <2>1. CASE current = {}
    BY <1>11, <2>1, FailType DEF GetCurrent, TypeOK
  <2>2. CASE current # {}
    <3>1. PICK v \in current :
            /\ IF unchanged(v)
                 THEN Accept(s) /\ UNCHANGED clock
                 ELSE /\ local' = [local EXCEPT ![s].valid_from = clock]
                      /\ clock' = clock + 1
                      /\ Goto(s, "close_select")
                      /\ UNCHANGED req
            /\ UNCHANGED << tables, loadSeq, writes, answer >>
      BY <1>11, <2>2 DEF GetCurrent
    <3>2. UNCHANGED versionSeq
      BY <1>11 DEF GetCurrent
    <3> HIDE DEF unchanged
    <3>3. CASE unchanged(v)
      BY <3>1, <3>2, <3>3, AcceptType DEF TypeOK, tables, writes
    <3>4. CASE ~ unchanged(v)
      <4>1. /\ Goto(s, "close_select") /\ UNCHANGED req /\ "close_select" \in Labels
            /\ clock' \in Nat
            /\ local' = [local EXCEPT ![s].valid_from = clock]
        BY <3>1, <3>4 DEF Labels, TypeOK
      <4>4. local' \in [Sessions -> Reads]
        <5>1. local \in [Sessions -> Reads] /\ clock \in Nat
          BY DEF TypeOK
        <5> QED
          BY <4>1, <5>1 DEF Reads
      <4>2. /\ pc' \in [Sessions -> Labels]
            /\ req' \in [Sessions -> Request]
            /\ \A o \in Sessions \ {s} : RowInv(o)'
            /\ pc'[s] = "close_select"
        BY <4>1, GotoType
      <4>3. RowInv(s)'
        BY <1>11, <4>1, <4>2 DEF GetCurrent, RowInv, MoreRows, Row, Midway
      <4> QED
        BY <3>1, <3>2, <4>1, <4>2, <4>3, <4>4 DEF TypeOK, tables, writes
    <3> QED
      BY <3>3, <3>4
  <2> QED
    BY <2>1, <2>2
<1>12. ASSUME NEW s \in Sessions, CloseSelect(s) PROVE TypeInv'
  <2> DEFINE current == CurrentIn(VersionsSeen(s), Row(s).id)
  <2>1. /\ IF current = {}
             THEN Goto(s, "add_version") /\ UNCHANGED local
             ELSE \E v \in current : /\ local' = [local EXCEPT ![s].target = v]
                                     /\ Goto(s, "close_update")
        /\ UNCHANGED << tables, sequences, writes, req, answer >>
    BY <1>12 DEF CloseSelect
  <2>2. current \subseteq VersionIds
    BY DEF CurrentIn
  <2> HIDE DEF current
  <2>3. \E label \in {"add_version", "close_update"} : Goto(s, label)
    BY <2>1
  <2>4. PICK label \in {"add_version", "close_update"} : Goto(s, label)
    BY <2>3
  <2>5. local' \in [Sessions -> Reads]
    <3>1. CASE current = {}
      BY <2>1, <3>1 DEF TypeOK
    <3>2. CASE current # {}
      <4>1. PICK v \in current : local' = [local EXCEPT ![s].target = v]
        BY <2>1, <3>2
      <4>2. local \in [Sessions -> Reads] /\ v \in VersionIds
        BY <2>2 DEF TypeOK
      <4> QED
        BY <4>1, <4>2 DEF Reads
    <3> QED
      BY <3>1, <3>2
  <2>6. label \in Labels
    BY <2>4 DEF Labels
  <2>7. /\ pc' \in [Sessions -> Labels]
        /\ req' \in [Sessions -> Request]
        /\ \A o \in Sessions \ {s} : RowInv(o)'
        /\ pc'[s] = label
    BY <2>1, <2>4, <2>6, GotoType
  <2>8. RowInv(s)'
    BY <1>12, <2>1, <2>4, <2>7 DEF CloseSelect, RowInv, MoreRows, Row, Midway
  <2> QED
    BY <2>1, <2>5, <2>7, <2>8 DEF TypeOK, tables, sequences, writes
<1>13. ASSUME NEW s \in Sessions, CloseUpdate(s) PROVE TypeInv'
  <2> DEFINE v == local[s].target
             closed == Closed(VersionsSeen(s)[v], local[s].valid_from)
  <2>1. /\ wVersions' = [wVersions EXCEPT ![s][v] = closed]
        /\ Goto(s, "add_version") /\ UNCHANGED req /\ "add_version" \in Labels
        /\ UNCHANGED << tables, sequences, wDimensions, wEmployees, local, answer >>
    BY <1>13 DEF CloseUpdate, Labels
  <2>2. wVersions' \in [Sessions -> [VersionIds -> Version \cup {NoRow}]]
    <3>1. v \in VersionIds /\ VersionsSeen(s)[v] # NoRow
      BY <1>13 DEF CloseUpdate, TargetInv
    <3>2. VersionsSeen(s)[v] \in Version /\ local[s].valid_from \in Nat
      BY <3>1, SeenType DEF TypeOK, Reads
    <3>3. closed \in Version
      BY <3>2 DEF Version, Closed
    <3> HIDE DEF closed, v
    <3> QED
      BY <2>1, <3>1, <3>3 DEF TypeOK
  <2>3. /\ pc' \in [Sessions -> Labels]
        /\ req' \in [Sessions -> Request]
        /\ \A o \in Sessions \ {s} : RowInv(o)'
        /\ pc'[s] = "add_version"
    BY <2>1, GotoType
  <2>4. RowInv(s)'
    BY <1>13, <2>1, <2>3 DEF CloseUpdate, RowInv, MoreRows, Row, Midway
  <2> QED
    BY <2>1, <2>2, <2>3, <2>4 DEF TypeOK, tables, sequences
<1>14. ASSUME NEW s \in Sessions, InsertVersion(s),
              pc[s] \in {"add_first_version", "add_version"}
       PROVE  TypeInv'
  <2> DEFINE e == Row(s).id
             v == versionSeq + 1
             new == NewVersion(Row(s), local[s].valid_from)
  <2>1. versionSeq' = v /\ v \in VersionIds /\ versionSeq' \in 0 .. MaxVersions
    BY <1>14, BoundsAssumption DEF InsertVersion, TypeOK, VersionIds
  <2>2. CASE CurrentIn(VersionsSeen(s), e) # {}
    BY <1>14, <2>1, <2>2, FailType DEF InsertVersion
  <2>3. CASE CurrentIn(VersionsSeen(s), e) = {}
    <3>1. /\ wVersions' = [wVersions EXCEPT ![s][v] = new]
          /\ IF pc[s] = "add_first_version"
               THEN Accept(s)
               ELSE Goto(s, "update_current") /\ UNCHANGED << req, local >>
          /\ UNCHANGED << tables, loadSeq, clock, wDimensions, wEmployees, answer >>
      BY <1>14, <2>3 DEF InsertVersion
    <3>2. e \in EmployeeIds /\ RowAttributes(Row(s)) \in Attributes
      BY <1>14 DEF RowInv, Midway
    <3>3. new \in Version
      BY <3>2 DEF Version, NewVersion, TypeOK, Reads
    <3> HIDE DEF new, v
    <3>4. wVersions' \in [Sessions -> [VersionIds -> Version \cup {NoRow}]]
      BY <2>1, <3>1, <3>3 DEF TypeOK
    <3>5. CASE pc[s] = "add_first_version"
      BY <2>1, <3>1, <3>4, <3>5, AcceptType DEF TypeOK, tables
    <3>6. CASE pc[s] = "add_version"
      <4>1. Goto(s, "update_current") /\ UNCHANGED << req, local >> /\ "update_current" \in Labels
        BY <3>1, <3>6 DEF Labels
      <4>2. /\ pc' \in [Sessions -> Labels]
            /\ req' \in [Sessions -> Request]
            /\ \A o \in Sessions \ {s} : RowInv(o)'
            /\ pc'[s] = "update_current"
        BY <4>1, GotoType
      <4>3. RowInv(s)'
        BY <3>6, <4>1, <4>2 DEF RowInv, MoreRows, Row, Midway
      <4> QED
        BY <2>1, <3>1, <3>4, <4>1, <4>2, <4>3 DEF TypeOK, tables
    <3> QED
      BY <1>14, <3>5, <3>6
  <2> QED
    BY <2>2, <2>3
<1>15. ASSUME NEW s \in Sessions, UpdateCurrent(s) PROVE TypeInv'
  <2> DEFINE e == Row(s).id
             row == EmployeesSeen(s)[e]
             new == Transferred(row, RowAttributes(Row(s)))
  <2>1. UNCHANGED versionSeq /\ e \in EmployeeIds /\ RowAttributes(Row(s)) \in Attributes
    BY <1>15 DEF UpdateCurrent, RowInv, Midway
  <2>2. CASE row = NoRow
    BY <1>15, <2>1, <2>2, FailType DEF UpdateCurrent, TypeOK
  <2>3. CASE row # NoRow
    <3>1. /\ IF row.current = RowAttributes(Row(s))
               THEN UNCHANGED wEmployees
               ELSE wEmployees' = [wEmployees EXCEPT ![s][e] = new]
          /\ Accept(s)
          /\ UNCHANGED << tables, loadSeq, clock, wDimensions, wVersions, answer >>
      BY <1>15, <2>3 DEF UpdateCurrent
    <3>2. row \in Employee
      BY <2>1, <2>3, SeenType
    <3>3. new \in Employee
      <4> HIDE DEF row
      <4> QED
        BY <2>1, <3>2 DEF Employee, Transferred
    <3> HIDE DEF new, row, e
    <3>4. wEmployees' = [wEmployees EXCEPT ![s][e] = new] =>
            wEmployees' \in [Sessions -> [EmployeeIds -> Employee \cup {NoRow}]]
      BY <2>1, <3>3 DEF TypeOK
    <3>5. wEmployees' \in [Sessions -> [EmployeeIds -> Employee \cup {NoRow}]]
      BY <3>1, <3>4 DEF TypeOK
    <3> QED
      BY <2>1, <3>1, <3>5, AcceptType DEF TypeOK, tables
  <2> QED
    BY <2>2, <2>3
<1>16. ASSUME NEW s \in Sessions, Commit(s) PROVE TypeInv'
  <2>1. /\ dimensions' \in [DimensionTables -> [DimensionIds -> Names \cup {NoRow}]]
        /\ employees' \in [EmployeeIds -> Employee \cup {NoRow}]
        /\ versions' \in [VersionIds -> Version \cup {NoRow}]
    BY <1>16, SeenType DEF Commit
  <2>2. req[s] \in Request
    BY DEF TypeOK
  <2>3. /\ loads' \in [LoadIds -> Load \cup {NoRow}]
        /\ rejected' \in [LoadIds -> Seq(RejectedRecord)]
    BY <1>16, <2>2 DEF Commit, TypeOK, Load, Request
  <2>4. /\ wDimensions' \in [Sessions -> [DimensionTables -> [DimensionIds -> Names \cup {NoRow}]]]
        /\ wEmployees' \in [Sessions -> [EmployeeIds -> Employee \cup {NoRow}]]
        /\ wVersions' \in [Sessions -> [VersionIds -> Version \cup {NoRow}]]
    BY <1>16, NoWritesType DEF Commit, DropWrites, TypeOK
  <2>5. Goto(s, "refresh") /\ UNCHANGED req /\ "refresh" \in Labels
    BY <1>16 DEF Commit, Labels
  <2>6. /\ pc' \in [Sessions -> Labels]
        /\ req' \in [Sessions -> Request]
        /\ \A o \in Sessions \ {s} : RowInv(o)'
        /\ pc'[s] = "refresh"
    BY <2>5, GotoType
  <2>7. RowInv(s)'
    BY <2>5, <2>6 DEF RowInv, Midway
  <2> QED
    BY <1>16, <2>1, <2>3, <2>4, <2>6, <2>7 DEF Commit, TypeOK, sequences
<1>17. ASSUME NEW s \in Sessions, Refresh(s) PROVE TypeInv'
  <2>1. Goto(s, "idle") /\ UNCHANGED req /\ "idle" \in Labels
    BY <1>17 DEF Refresh, Labels
  <2>2. /\ pc' \in [Sessions -> Labels]
        /\ req' \in [Sessions -> Request]
        /\ \A o \in Sessions \ {s} : RowInv(o)'
        /\ pc'[s] = "idle"
    BY <2>1, GotoType
  <2>3. RowInv(s)'
    BY <2>1, <2>2 DEF RowInv, Midway
  <2> QED
    BY <1>17, <2>2, <2>3 DEF Refresh, StatusAfterRefresh, TypeOK, tables, sequences, writes
<1>18. ASSUME NEW s \in Sessions, Fail(s), UNCHANGED versionSeq PROVE TypeInv'
  BY <1>18, FailType DEF TypeOK
<1>19. CASE Quiet
  BY <1>1, <1>19 DEF Quiet
<1>20. ASSUME NEW s \in Sessions,
              Receive(s) \/ Statement(s) \/ Abort(s) \/ DeadlockVictim(s)
       PROVE  TypeInv'
  <2>1. CASE Abort(s) \/ DeadlockVictim(s)
    BY <1>18, <2>1 DEF Abort, DeadlockVictim
  <2>2. CASE AddFirstVersion(s) \/ AddVersion(s)
    BY <1>14, <2>2 DEF AddFirstVersion, AddVersion
  <2> QED
    BY <1>2, <1>3, <1>4, <1>5, <1>6, <1>7, <1>8, <1>9, <1>10, <1>11, <1>12, <1>13,
       <1>15, <1>16, <1>17, <1>20, <2>1, <2>2, OutOfRangeIsAbort DEF Statement
<1> QED
  BY <1>1, <1>19, <1>20 DEF Next

-----------------------------------------------------------------------------
(***************************************************************************)
(* Steps that leave a session's view of the tables alone.                  *)
(***************************************************************************)

\* What session s sees of the tables after a step.
LEMMA SeenNext ==
    ASSUME TypeInv', NEW s \in Sessions
    PROVE  /\ \A e \in EmployeeIds :
                EmployeesSeen(s)'[e] = IF wEmployees'[s][e] = NoRow THEN employees'[e]
                                                                    ELSE wEmployees'[s][e]
           /\ \A v \in VersionIds :
                VersionsSeen(s)'[v] = IF wVersions'[s][v] = NoRow THEN versions'[v]
                                                                  ELSE wVersions'[s][v]
<1>1. DOMAIN employees' = EmployeeIds /\ DOMAIN versions' = VersionIds
  BY DEF TypeInv, TypeOK
<1> QED
  BY <1>1 DEF EmployeesSeen, VersionsSeen, Over

LEMMA FrameSeen ==
    ASSUME NEW o \in Sessions, UNCHANGED << employees, versions >>,
           wEmployees'[o] = wEmployees[o], wVersions'[o] = wVersions[o]
    PROVE  /\ EmployeesSeen(o)' = EmployeesSeen(o)
           /\ VersionsSeen(o)' = VersionsSeen(o)
           /\ \A e \in EmployeeIds : Owns(o, e)' = Owns(o, e)
           /\ \A e \in EmployeeIds : ClosesOpen(o, e)' = ClosesOpen(o, e)
           /\ \A e \in EmployeeIds : Touches(o, e)' = Touches(o, e)
           /\ FactsKept(o)' = FactsKept(o)
<1>1. EmployeesSeen(o)' = EmployeesSeen(o) /\ VersionsSeen(o)' = VersionsSeen(o)
  BY DEF EmployeesSeen, VersionsSeen
<1>2. ASSUME NEW e \in EmployeeIds
      PROVE  /\ Owns(o, e)' = Owns(o, e)
             /\ ClosesOpen(o, e)' = ClosesOpen(o, e)
             /\ Touches(o, e)' = Touches(o, e)
  BY DEF Owns, ClosesOpen, Touches
<1>3. FactsKept(o)' = FactsKept(o)
  BY DEF FactsKept
<1> QED
  BY <1>1, <1>2, <1>3

LEMMA FrameSettled ==
    ASSUME NEW o \in Sessions, UNCHANGED << employees, versions >>,
           wEmployees'[o] = wEmployees[o], wVersions'[o] = wVersions[o]
    PROVE  /\ \A e \in EmployeeIds : Settled(o, e) => Settled(o, e)'
           /\ \A e \in EmployeeIds : \A a : OneCurrent(o, e, a) => OneCurrent(o, e, a)'
BY FrameSeen DEF Settled, OneCurrent

\* A session that does not take part in a step keeps its part of the invariant.
LEMMA FrameSession ==
    ASSUME TypeInv, NEW o \in Sessions, UNCHANGED << employees, versions >>,
           wEmployees'[o] = wEmployees[o], wVersions'[o] = wVersions[o],
           pc'[o] = pc[o], req'[o] = req[o], local'[o] = local[o],
           TargetInv(o), FactsKept(o), SessionInv(o)
    PROVE  TargetInv(o)' /\ FactsKept(o)' /\ SessionInv(o)'
<1>1. Row(o)' = Row(o)
  BY DEF Row
<1>2. TargetInv(o)' /\ FactsKept(o)'
  BY FrameSeen DEF TargetInv
<1> DEFINE e == Row(o).id
<1>3. \A f \in EmployeeIds : (pc'[o] \in Midway /\ f = Row(o)'.id) \/ Settled(o, f)'
  BY <1>1, FrameSettled DEF SessionInv
<1>4. pc'[o] = "add_employee" => wEmployees'[o][Row(o)'.id] = NoRow
  BY <1>1 DEF SessionInv
<1>5. pc'[o] = "add_first_version" =>
        /\ employees'[Row(o)'.id] = NoRow
        /\ wEmployees'[o][Row(o)'.id] # NoRow
        /\ wEmployees'[o][Row(o)'.id].current = RowAttributes(Row(o)')
        /\ \A v \in VersionIds :
             wVersions'[o][v] # NoRow => wVersions'[o][v].employee_id # Row(o)'.id
  BY <1>1 DEF SessionInv
<1>6. pc'[o] \in {"get_current", "close_select", "close_update", "add_version"} =>
        EmployeesSeen(o)'[Row(o)'.id] # NoRow
  BY <1>1, FrameSeen DEF SessionInv
<1>7. pc[o] \in {"close_update", "add_version", "update_current"} => e \in EmployeeIds
  BY DEF TypeInv, RowInv, Midway
<1>8. pc'[o] = "close_update" =>
        LET v == local'[o].target
        IN  /\ VersionsSeen(o)'[v].employee_id = Row(o)'.id
            /\ versions'[v] # NoRow /\ ~ versions'[v].is_current => Overtaken(o, Row(o).id)'
  BY <1>1, <1>7, FrameSeen DEF SessionInv, Overtaken
<1>9. pc'[o] = "add_version" => ClosesOpen(o, Row(o).id)' \/ Overtaken(o, Row(o).id)'
  BY <1>1, <1>7, FrameSeen DEF SessionInv, Overtaken
<1>10. pc'[o] = "update_current" =>
        /\ OneCurrent(o, Row(o).id, RowAttributes(Row(o)))'
        /\ Owns(o, Row(o).id)'
        /\ ClosesOpen(o, Row(o).id)'
  BY <1>1, <1>7, FrameSeen, FrameSettled DEF SessionInv
<1> QED
  BY <1>2, <1>3, <1>4, <1>5, <1>6, <1>8, <1>9, <1>10 DEF SessionInv

\* A session that is not working on an employee's row has nothing to show but
\* settled employees.
CalmLabels == {"idle", "row", "upsert", "check_job", "exists", "refresh"}

LEMMA CalmSession ==
    ASSUME NEW s \in Sessions, pc'[s] \in CalmLabels,
           \A f \in EmployeeIds : Settled(s, f)'
    PROVE  TargetInv(s)' /\ SessionInv(s)'
BY DEF TargetInv, SessionInv, CalmLabels, Midway

\* Only session s moves.
OthersKept(s) ==
    \A o \in Sessions \ {s} :
        /\ wEmployees'[o] = wEmployees[o]
        /\ wVersions'[o] = wVersions[o]
        /\ pc'[o] = pc[o]
        /\ req'[o] = req[o]
        /\ local'[o] = local[o]

\* A step of session s before its commit keeps the invariant when it keeps the
\* parts of it that s can disturb.
LEMMA OneSessionStep ==
    ASSUME Consistent, TypeInv', NEW s \in Sessions, UNCHANGED << employees, versions >>,
           OthersKept(s), LocksExclusive', SequenceAhead',
           TargetInv(s)', FactsKept(s)', SessionInv(s)'
    PROVE  Consistent'
<1>1. OneVersionEach'
  BY DEF Consistent, OneVersionEach, OneVersion, CurrentIn
<1>2. ASSUME NEW o \in Sessions PROVE TargetInv(o)' /\ FactsKept(o)' /\ SessionInv(o)'
  <2>1. CASE o = s
    BY <2>1
  <2>2. CASE o # s
    <3>1. TypeInv /\ TargetInv(o) /\ FactsKept(o) /\ SessionInv(o)
      BY DEF Consistent
    <3>2. /\ wEmployees'[o] = wEmployees[o] /\ wVersions'[o] = wVersions[o]
          /\ pc'[o] = pc[o] /\ req'[o] = req[o] /\ local'[o] = local[o]
      BY <2>2 DEF OthersKept
    <3> QED
      BY <3>1, <3>2, FrameSession
  <2> QED
    BY <2>1, <2>2
<1> QED
  BY <1>1, <1>2 DEF Consistent

\* A step of session s that writes no employee and no version.
LEMMA NoWriteStep ==
    ASSUME Consistent, TypeInv', NEW s \in Sessions,
           UNCHANGED << employees, versions, wEmployees, wVersions, versionSeq >>,
           \A o \in Sessions \ {s} : pc'[o] = pc[o] /\ req'[o] = req[o] /\ local'[o] = local[o],
           TargetInv(s)', SessionInv(s)'
    PROVE  Consistent'
<1>1. OthersKept(s) /\ LocksExclusive' /\ SequenceAhead'
  BY DEF Consistent, OthersKept, LocksExclusive, SequenceAhead
<1>2. FactsKept(s)'
  BY FrameSeen DEF Consistent
<1> QED
  BY <1>1, <1>2, OneSessionStep

\* A step between two rows that writes no employee and no version.
LEMMA CalmStep ==
    ASSUME Consistent, TypeInv', NEW s \in Sessions,
           UNCHANGED << employees, versions, wEmployees, wVersions, versionSeq >>,
           \A o \in Sessions \ {s} : pc'[o] = pc[o] /\ req'[o] = req[o] /\ local'[o] = local[o],
           pc[s] \notin Midway, pc'[s] \in CalmLabels
    PROVE  Consistent'
<1>1. \A f \in EmployeeIds : Settled(s, f)'
  BY FrameSettled DEF Consistent, SessionInv
<1> QED
  BY <1>1, CalmSession, NoWriteStep

\* A rollback forgets the writes of the session.
LEMMA Dropped ==
    ASSUME TypeInv, NEW s \in Sessions, DropWrites(s)
    PROVE  /\ \A e \in EmployeeIds : wEmployees'[s][e] = NoRow
           /\ \A v \in VersionIds : wVersions'[s][v] = NoRow
           /\ \A o \in Sessions \ {s} : /\ wEmployees'[o] = wEmployees[o]
                                        /\ wVersions'[o] = wVersions[o]
           /\ FactsKept(s)'
           /\ \A f \in EmployeeIds : Settled(s, f)'
<1>1. /\ wEmployees' = [wEmployees EXCEPT ![s] = NoEmployees]
      /\ wVersions' = [wVersions EXCEPT ![s] = NoVersions]
      /\ DOMAIN wEmployees = Sessions /\ DOMAIN wVersions = Sessions
  BY DEF DropWrites, TypeInv, TypeOK
<1>2. wEmployees'[s] = NoEmployees /\ wVersions'[s] = NoVersions
  BY <1>1
<1>3. /\ \A e \in EmployeeIds : wEmployees'[s][e] = NoRow
      /\ \A v \in VersionIds : wVersions'[s][v] = NoRow
  BY <1>2 DEF NoEmployees, NoVersions
<1>4. \A o \in Sessions \ {s} : wEmployees'[o] = wEmployees[o] /\ wVersions'[o] = wVersions[o]
  BY <1>1
<1>5. FactsKept(s)'
  BY <1>3 DEF FactsKept
<1>6. \A f \in EmployeeIds : Settled(s, f)'
  BY <1>3 DEF Settled, Touches
<1> QED
  BY <1>3, <1>4, <1>5, <1>6

LEMMA FailStep ==
    ASSUME Consistent, TypeInv', NEW s \in Sessions, Fail(s),
           versionSeq' \in Nat, versionSeq' >= versionSeq
    PROVE  Consistent'
<1>1. TypeInv /\ DropWrites(s)
  BY DEF Consistent, Fail, Rollback
<1>2. OthersKept(s)
  BY <1>1, Dropped DEF OthersKept, Fail, Goto, TypeInv, TypeOK
<1>3. LocksExclusive'
  BY <1>1, Dropped DEF Consistent, LocksExclusive
<1>4. SequenceAhead'
  <2>1. UNCHANGED versions
    BY DEF Fail, tables
  <2>2. \A v \in VersionIds : v > versionSeq' => v > versionSeq
    BY DEF VersionIds, Consistent, TypeInv, TypeOK
  <2> QED
    BY <1>1, <2>1, <2>2, Dropped DEF Consistent, SequenceAhead
<1>5. pc'[s] \in CalmLabels
  BY DEF Fail, Goto, Consistent, TypeInv, TypeOK, CalmLabels
<1>6. TargetInv(s)' /\ SessionInv(s)' /\ FactsKept(s)'
  BY <1>1, <1>5, Dropped, CalmSession
<1> QED
  BY <1>2, <1>3, <1>4, <1>6, OneSessionStep DEF Fail, tables

-----------------------------------------------------------------------------
(***************************************************************************)
(* Writing one row: the session's other employees stay settled.            *)
(***************************************************************************)
VersionWritten(s, v, r) == wVersions' = [wVersions EXCEPT ![s][v] = r]
EmployeeWritten(s, e, r) == wEmployees' = [wEmployees EXCEPT ![s][e] = r]

LEMMA VersionWrite ==
    ASSUME TypeInv, TypeInv', NEW s \in Sessions, NEW v \in VersionIds, NEW r \in Version,
           VersionWritten(s, v, r),
           UNCHANGED << employees, versions, wEmployees >>
    PROVE  /\ wVersions'[s][v] = r
           /\ \A u \in VersionIds \ {v} : wVersions'[s][u] = wVersions[s][u]
           /\ \A o \in Sessions \ {s} : wVersions'[o] = wVersions[o]
           /\ VersionsSeen(s)'[v] = r
           /\ \A u \in VersionIds \ {v} : VersionsSeen(s)'[u] = VersionsSeen(s)[u]
           /\ EmployeesSeen(s)' = EmployeesSeen(s)
           /\ \A f \in EmployeeIds :
                /\ f # r.employee_id
                /\ VersionsSeen(s)[v] # NoRow => VersionsSeen(s)[v].employee_id # f
                /\ Settled(s, f)
                => Settled(s, f)'
<1>1. /\ wVersions'[s][v] = r
      /\ \A u \in VersionIds \ {v} : wVersions'[s][u] = wVersions[s][u]
      /\ \A o \in Sessions \ {s} : wVersions'[o] = wVersions[o]
  <2>1. wVersions \in [Sessions -> [VersionIds -> Version \cup {NoRow}]]
    BY DEF TypeInv, TypeOK
  <2> QED
    BY <2>1 DEF VersionWritten
<1>2. r # NoRow
  BY NoRowDistinct
<1>3. /\ VersionsSeen(s)'[v] = r
      /\ \A u \in VersionIds \ {v} : VersionsSeen(s)'[u] = VersionsSeen(s)[u]
  BY <1>1, <1>2, SeenType, SeenNext
<1>4. EmployeesSeen(s)' = EmployeesSeen(s)
  BY DEF EmployeesSeen
<1>5. ASSUME NEW f \in EmployeeIds, f # r.employee_id,
             VersionsSeen(s)[v] # NoRow => VersionsSeen(s)[v].employee_id # f,
             Settled(s, f), Touches(s, f)'
      PROVE  Settled(s, f)'
  <2>1. Touches(s, f)
    BY <1>1, <1>5 DEF Touches
  <2>2. /\ OneCurrent(s, f, EmployeesSeen(s)[f].current)
        /\ Owns(s, f) /\ ClosesOpen(s, f)
    BY <1>5, <2>1 DEF Settled
  <2>3. CurrentIn(VersionsSeen(s)', f) = CurrentIn(VersionsSeen(s), f)
    BY <1>3, <1>5 DEF CurrentIn
  <2>4. v \notin CurrentIn(VersionsSeen(s), f)
    BY <1>5 DEF CurrentIn
  <2>5. OneCurrent(s, f, EmployeesSeen(s)[f].current)'
    BY <1>3, <1>4, <2>2, <2>3, <2>4 DEF OneCurrent
  <2>6. Owns(s, f)'
    BY <1>1, <1>2, <2>2 DEF Owns, CurrentIn
  <2>7. ClosesOpen(s, f)'
    BY <1>1, <1>5, <2>2 DEF ClosesOpen
  <2> QED
    BY <2>5, <2>6, <2>7 DEF Settled
<1>6. \A f \in EmployeeIds : ~ Touches(s, f)' => Settled(s, f)'
  BY DEF Settled
<1> QED
  BY <1>1, <1>3, <1>4, <1>5, <1>6

LEMMA EmployeeWrite ==
    ASSUME TypeInv, TypeInv', NEW s \in Sessions, NEW e \in EmployeeIds, NEW r \in Employee,
           EmployeeWritten(s, e, r),
           UNCHANGED << employees, versions, wVersions >>
    PROVE  /\ wEmployees'[s][e] = r
           /\ \A f \in EmployeeIds \ {e} : wEmployees'[s][f] = wEmployees[s][f]
           /\ \A o \in Sessions \ {s} : wEmployees'[o] = wEmployees[o]
           /\ EmployeesSeen(s)'[e] = r
           /\ \A f \in EmployeeIds \ {e} : EmployeesSeen(s)'[f] = EmployeesSeen(s)[f]
           /\ VersionsSeen(s)' = VersionsSeen(s)
           /\ \A f \in EmployeeIds : Owns(s, f)' = Owns(s, f) /\ ClosesOpen(s, f)' = ClosesOpen(s, f)
           /\ \A f \in EmployeeIds \ {e} : Settled(s, f) => Settled(s, f)'
<1>1. /\ wEmployees'[s][e] = r
      /\ \A f \in EmployeeIds \ {e} : wEmployees'[s][f] = wEmployees[s][f]
      /\ \A o \in Sessions \ {s} : wEmployees'[o] = wEmployees[o]
  <2>1. wEmployees \in [Sessions -> [EmployeeIds -> Employee \cup {NoRow}]]
    BY DEF TypeInv, TypeOK
  <2> QED
    BY <2>1 DEF EmployeeWritten
<1>2. r # NoRow
  BY NoRowDistinct
<1>3. /\ EmployeesSeen(s)'[e] = r
      /\ \A f \in EmployeeIds \ {e} : EmployeesSeen(s)'[f] = EmployeesSeen(s)[f]
  BY <1>1, <1>2, SeenType, SeenNext
<1>4. VersionsSeen(s)' = VersionsSeen(s)
  BY DEF VersionsSeen
<1>5. \A f \in EmployeeIds : Owns(s, f)' = Owns(s, f) /\ ClosesOpen(s, f)' = ClosesOpen(s, f)
  BY DEF Owns, ClosesOpen
<1>6. ASSUME NEW f \in EmployeeIds \ {e}, Settled(s, f) PROVE Settled(s, f)'
  <2>1. Touches(s, f)' => Touches(s, f)
    BY <1>1 DEF Touches
  <2> QED
    BY <1>3, <1>4, <1>5, <1>6, <2>1 DEF Settled, OneCurrent
<1> QED
  BY <1>1, <1>3, <1>4, <1>5, <1>6

-----------------------------------------------------------------------------
(***************************************************************************)
(* The statements of _persist_hire.                                        *)
(***************************************************************************)
LEMMA GotoOthers ==
    ASSUME TypeInv, NEW s \in Sessions, NEW label, Goto(s, label)
    PROVE  pc'[s] = label /\ \A o \in Sessions \ {s} : pc'[o] = pc[o]
BY DEF Goto, TypeInv, TypeOK

LEMMA AcceptOthers ==
    ASSUME TypeInv, NEW s \in Sessions, Accept(s)
    PROVE  /\ pc'[s] = "row"
           /\ \A o \in Sessions \ {s} : pc'[o] = pc[o] /\ req'[o] = req[o] /\ local'[o] = local[o]
BY DEF Accept, Goto, TypeInv, TypeOK

LEMMA RejectOthers ==
    ASSUME TypeInv, NEW s \in Sessions, NEW errors, Reject(s, errors)
    PROVE  /\ pc'[s] = "row"
           /\ \A o \in Sessions \ {s} : pc'[o] = pc[o] /\ req'[o] = req[o] /\ local'[o] = local[o]
BY DEF Reject, Goto, TypeInv, TypeOK

\* The row that a statement of _persist_hire works on.
LEMMA HireAtWork ==
    ASSUME TypeInv, NEW s \in Sessions,
           pc[s] \in {"exists", "add_employee", "get_current", "close_select", "close_update"}
                       \cup Midway
    PROVE  Row(s).id \in EmployeeIds /\ RowAttributes(Row(s)) \in Attributes
BY DEF TypeInv, RowInv

LEMMA ExistsStep ==
    ASSUME Consistent, TypeInv', NEW s \in Sessions, Exists(s)
    PROVE  Consistent'
<1>1. TypeInv /\ pc[s] = "exists" /\ Row(s)' = Row(s)
  BY DEF Consistent, Exists, Row
<1>2. \A f \in EmployeeIds : Settled(s, f)'
  BY <1>1, FrameSettled DEF Consistent, SessionInv, Exists, tables, writes, Midway
<1>3. EmployeesSeen(s)' = EmployeesSeen(s) /\ UNCHANGED << employees, versions, wEmployees, wVersions, versionSeq, req, local >>
  BY DEF EmployeesSeen, Exists, tables, writes, sequences
<1>4. /\ pc'[s] = IF EmployeesSeen(s)[Row(s).id] = NoRow THEN "add_employee" ELSE "get_current"
      /\ \A o \in Sessions \ {s} : pc'[o] = pc[o]
  BY <1>1, GotoOthers DEF Exists
<1>5. EmployeesSeen(s)[Row(s).id] = NoRow => wEmployees[s][Row(s).id] = NoRow
  BY <1>1, HireAtWork, SeenType
<1>6. TargetInv(s)' /\ SessionInv(s)'
  BY <1>1, <1>2, <1>3, <1>4, <1>5 DEF TargetInv, SessionInv, Midway
<1> QED
  BY <1>3, <1>4, <1>6, NoWriteStep

LEMMA AddEmployeeStep ==
    ASSUME Consistent, TypeInv', NEW s \in Sessions, AddEmployee(s)
    PROVE  Consistent'
<1> DEFINE e == Row(s).id
           new == NewEmployee(Row(s))
<1>1. /\ TypeInv /\ pc[s] = "add_employee" /\ EmployeeHolders(s, e) = {}
      /\ e \in EmployeeIds /\ UNCHANGED versionSeq
  BY HireAtWork DEF Consistent, AddEmployee
<1>2. CASE employees[e] # NoRow
  BY <1>1, <1>2, FailStep DEF AddEmployee, TypeInv, TypeOK
<1>3. CASE employees[e] = NoRow
  <2>1. /\ wEmployees' = [wEmployees EXCEPT ![s][e] = new]
        /\ local' = [local EXCEPT ![s].valid_from = Row(s).datetime]
        /\ Goto(s, "add_first_version")
        /\ UNCHANGED << employees, versions, wVersions, req >>
        /\ employees[e] = NoRow
    BY <1>3 DEF AddEmployee, tables
  <2>2. new \in Employee
    <3>1. RowAttributes(Row(s)) \in Attributes /\ Row(s).datetime \in Nat
      BY <1>1 DEF TypeInv, RowInv
    <3> QED
      BY <3>1 DEF Employee, NewEmployee
  <2>3. new.current = RowAttributes(Row(s))
    BY DEF NewEmployee
  <2> HIDE DEF new
  <2>4. /\ wEmployees'[s][e] = new /\ new # NoRow
        /\ \A f \in EmployeeIds \ {e} : wEmployees'[s][f] = wEmployees[s][f]
        /\ \A o \in Sessions \ {s} : wEmployees'[o] = wEmployees[o]
        /\ \A f \in EmployeeIds \ {e} : Settled(s, f) => Settled(s, f)'
    <3> HIDE DEF e
    <3>1. UNCHANGED << employees, versions, wVersions >>
      BY <2>1
    <3>2. new # NoRow
      BY <2>2, NoRowDistinct
    <3>3. EmployeeWritten(s, e, new)
      BY <2>1 DEF EmployeeWritten
    <3> QED
      BY <1>1, <2>2, <3>1, <3>2, <3>3, EmployeeWrite
  <2>5. \A f \in EmployeeIds : Settled(s, f)
    BY <1>1 DEF Consistent, SessionInv, Midway
  <2>6. \A v \in VersionIds : wVersions[s][v] # NoRow => wVersions[s][v].employee_id # e
    <3>1. wEmployees[s][e] = NoRow
      BY <1>1 DEF Consistent, SessionInv
    <3>2. EmployeesSeen(s)[e] = NoRow
      BY <1>1, <2>1, <3>1, SeenType
    <3> QED
      BY <1>1, <2>5, <3>2 DEF Settled, OneCurrent, Touches
  <2>7. pc'[s] = "add_first_version" /\ \A o \in Sessions \ {s} : pc'[o] = pc[o]
    BY <1>1, <2>1, GotoOthers
  <2>8. Row(s)' = Row(s)
    BY <2>1 DEF Row
  <2>9. TargetInv(s)' /\ SessionInv(s)'
    BY <2>1, <2>3, <2>4, <2>5, <2>6, <2>7, <2>8 DEF TargetInv, SessionInv, Midway
  <2>10. FactsKept(s)'
    BY <2>1, <2>4 DEF Consistent, FactsKept
  <2>11. OthersKept(s)
    BY <1>1, <2>1, <2>4, <2>7 DEF OthersKept, TypeInv, TypeOK
  <2>12. LocksExclusive'
    <3>1. \A o \in Sessions \ {s} : wEmployees[o][e] = NoRow
      BY <1>1 DEF EmployeeHolders
    <3> QED
      BY <2>1, <2>4, <3>1 DEF Consistent, LocksExclusive
  <2>13. SequenceAhead'
    BY <1>1, <2>1 DEF Consistent, SequenceAhead
  <2> QED
    BY <2>1, <2>9, <2>10, <2>11, <2>12, <2>13, OneSessionStep
<1> QED
  BY <1>2, <1>3

LEMMA GetCurrentStep ==
    ASSUME Consistent, TypeInv', NEW s \in Sessions, GetCurrent(s)
    PROVE  Consistent'
<1> DEFINE current == CurrentIn(VersionsSeen(s), Row(s).id)
           unchanged(v) == SameAttributes(VersionsSeen(s)[v], Row(s))
<1>1. TypeInv /\ pc[s] = "get_current" /\ UNCHANGED versionSeq
  BY DEF Consistent, GetCurrent
<1>2. CASE current = {}
  BY <1>1, <1>2, FailStep DEF GetCurrent, TypeInv, TypeOK
<1>3. CASE current # {}
  <2>1. PICK v \in current :
          /\ IF unchanged(v)
               THEN Accept(s) /\ UNCHANGED clock
               ELSE /\ local' = [local EXCEPT ![s].valid_from = clock]
                    /\ clock' = clock + 1
                    /\ Goto(s, "close_select")
                    /\ UNCHANGED req
          /\ UNCHANGED << tables, loadSeq, writes, answer >>
    BY <1>3 DEF GetCurrent
  <2>2. UNCHANGED << employees, versions, wEmployees, wVersions, versionSeq >>
    BY <1>1, <2>1 DEF tables, writes
  <2> HIDE DEF unchanged, current
  <2>3. CASE unchanged(v)
    BY <1>1, <2>1, <2>2, <2>3, AcceptOthers, CalmStep DEF CalmLabels, Midway
  <2>4. CASE ~ unchanged(v)
    <3>1. /\ pc'[s] = "close_select" /\ UNCHANGED req
          /\ \A o \in Sessions \ {s} : pc'[o] = pc[o] /\ local'[o] = local[o]
      BY <1>1, <2>1, <2>4, GotoOthers DEF TypeInv, TypeOK
    <3>2. \A f \in EmployeeIds : Settled(s, f)'
      BY <1>1, <2>2, FrameSettled DEF Consistent, SessionInv, Midway
    <3>3. EmployeesSeen(s)' = EmployeesSeen(s) /\ Row(s)' = Row(s)
      BY <2>2, <3>1 DEF EmployeesSeen, Row
    <3>4. TargetInv(s)' /\ SessionInv(s)'
      BY <1>1, <3>1, <3>2, <3>3 DEF Consistent, TargetInv, SessionInv, Midway
    <3> QED
      BY <2>2, <3>1, <3>4, NoWriteStep
  <2> QED
    BY <2>3, <2>4
<1> QED
  BY <1>2, <1>3

LEMMA CloseSelectStep ==
    ASSUME Consistent, TypeInv', NEW s \in Sessions, CloseSelect(s)
    PROVE  Consistent'
<1> DEFINE e == Row(s).id
           current == CurrentIn(VersionsSeen(s), e)
<1>1. TypeInv /\ pc[s] = "close_select" /\ e \in EmployeeIds
  BY HireAtWork DEF Consistent, CloseSelect
<1>2. /\ UNCHANGED << employees, versions, wEmployees, wVersions, versionSeq, req >>
      /\ Row(s)' = Row(s)
  BY DEF CloseSelect, tables, writes, sequences, Row
<1>3. \A f \in EmployeeIds : Settled(s, f) /\ Settled(s, f)'
  BY <1>1, <1>2, FrameSettled DEF Consistent, SessionInv, Midway
<1>4. /\ EmployeesSeen(s)' = EmployeesSeen(s) /\ VersionsSeen(s)' = VersionsSeen(s)
      /\ EmployeesSeen(s)[e] # NoRow
      /\ \A f \in EmployeeIds : ClosesOpen(s, f)' = ClosesOpen(s, f) /\ Owns(s, f)' = Owns(s, f)
  BY <1>1, <1>2, FrameSeen DEF Consistent, SessionInv
<1>5. ClosesOpen(s, e)
  BY <1>1, <1>3 DEF Settled, ClosesOpen, Touches
<1>6. CASE current = {}
  <2>1. /\ pc'[s] = "add_version" /\ UNCHANGED local
        /\ \A o \in Sessions \ {s} : pc'[o] = pc[o]
    BY <1>1, <1>6, GotoOthers DEF CloseSelect
  <2>2. TargetInv(s)' /\ SessionInv(s)'
    BY <1>1, <1>2, <1>3, <1>4, <1>5, <2>1 DEF TargetInv, SessionInv, Midway
  <2> QED
    BY <1>2, <2>1, <2>2, NoWriteStep
<1>7. CASE current # {}
  <2>1. PICK v \in current : local' = [local EXCEPT ![s].target = v] /\ Goto(s, "close_update")
    BY <1>7 DEF CloseSelect
  <2>2. /\ pc'[s] = "close_update" /\ local'[s].target = v
        /\ \A o \in Sessions \ {s} : pc'[o] = pc[o] /\ local'[o] = local[o]
    BY <1>1, <2>1, GotoOthers DEF TypeInv, TypeOK, Reads
  <2>3. /\ v \in VersionIds /\ VersionsSeen(s)[v] # NoRow
        /\ VersionsSeen(s)[v].employee_id = e /\ VersionsSeen(s)[v].is_current
    BY DEF CurrentIn
  <2>4. versions[v] # NoRow => versions[v].is_current
    <3>1. CASE wVersions[s][v] = NoRow
      BY <1>1, <2>3, <3>1, SeenType
    <3>2. CASE wVersions[s][v] # NoRow
      BY <1>1, <1>5, <2>3, <3>2, SeenType DEF ClosesOpen
    <3> QED
      BY <3>1, <3>2
  <2>5. TargetInv(s)' /\ SessionInv(s)'
    BY <1>2, <1>3, <1>4, <2>2, <2>3, <2>4 DEF TargetInv, SessionInv, Midway
  <2> QED
    BY <1>2, <2>2, <2>5, NoWriteStep
<1> QED
  BY <1>6, <1>7

LEMMA CloseUpdateStep ==
    ASSUME Consistent, TypeInv', NEW s \in Sessions, CloseUpdate(s),
           NEW e, e = Row(s).id, NEW v, v = local[s].target
    PROVE  Consistent'
<1> DEFINE closed == Closed(VersionsSeen(s)[v], local[s].valid_from)
<1>1. /\ TypeInv /\ pc[s] = "close_update" /\ e \in EmployeeIds
      /\ v \in VersionIds /\ VersionsSeen(s)[v] # NoRow /\ VersionsSeen(s)[v].employee_id = e
      /\ VersionHolders(s, v) = {}
  BY HireAtWork DEF Consistent, CloseUpdate, TargetInv, SessionInv
<1>2. /\ wVersions' = [wVersions EXCEPT ![s][v] = closed]
      /\ UNCHANGED << employees, versions, versionSeq, wEmployees, req, local >>
      /\ Goto(s, "add_version")
  BY DEF CloseUpdate, tables, sequences
<1>3. VersionsSeen(s)[v] \in Version
  BY <1>1, SeenType
<1>4. /\ closed \in Version
      /\ closed.employee_id = e
      /\ closed.attributes = VersionsSeen(s)[v].attributes
      /\ closed.valid_from = VersionsSeen(s)[v].valid_from
  <2>1. local[s].valid_from \in Nat
    BY <1>1 DEF TypeInv, TypeOK, Reads
  <2> QED
    BY <1>1, <1>3, <2>1 DEF Version, Closed
<1> HIDE DEF closed
<1>5. /\ wVersions'[s][v] = closed
      /\ \A u \in VersionIds \ {v} : wVersions'[s][u] = wVersions[s][u]
      /\ \A o \in Sessions \ {s} : wVersions'[o] = wVersions[o]
      /\ EmployeesSeen(s)' = EmployeesSeen(s)
      /\ \A f \in EmployeeIds :
           /\ f # closed.employee_id
           /\ VersionsSeen(s)[v] # NoRow => VersionsSeen(s)[v].employee_id # f
           /\ Settled(s, f)
           => Settled(s, f)'
  <2>1. UNCHANGED << employees, versions, wEmployees >>
    BY <1>2
  <2>2. VersionWritten(s, v, closed)
    BY <1>2 DEF VersionWritten
  <2> QED
    BY <1>1, <1>4, <2>1, <2>2, VersionWrite
<1>6. /\ pc'[s] = "add_version" /\ Row(s)' = Row(s)
      /\ \A o \in Sessions \ {s} : pc'[o] = pc[o]
  BY <1>1, <1>2, GotoOthers DEF Row
<1>7. \A f \in EmployeeIds : Settled(s, f)
  BY <1>1 DEF Consistent, SessionInv, Midway
<1>8. ClosesOpen(s, e)' \/ Overtaken(s, e)'
  <2>1. ClosesOpen(s, e)
    BY <1>1, <1>7 DEF Settled, ClosesOpen, Touches
  <2>2. CASE versions[v] # NoRow => versions[v].is_current
    BY <1>2, <1>5, <2>1, <2>2 DEF ClosesOpen
  <2>3. CASE versions[v] # NoRow /\ ~ versions[v].is_current
    <3>1. Overtaken(s, e)
      BY <1>1, <2>3 DEF Consistent, SessionInv
    <3>2. PICK u \in CurrentIn(versions, e) : wVersions[s][u] = NoRow
      BY <3>1 DEF Overtaken, Owns
    <3>3. u \in VersionIds \ {v}
      BY <2>3, <3>2 DEF CurrentIn
    <3>4. u \in CurrentIn(versions', e)
      BY <1>2, <3>2
    <3> QED
      BY <1>5, <1>6, <3>2, <3>3, <3>4 DEF Overtaken, Owns
  <2> QED
    BY <2>2, <2>3
<1>9. TargetInv(s)' /\ SessionInv(s)'
  <2>1. EmployeesSeen(s)[e] # NoRow
    BY <1>1 DEF Consistent, SessionInv
  <2>2. \A f \in EmployeeIds : f = e \/ Settled(s, f)'
    BY <1>1, <1>4, <1>5, <1>7
  <2> QED
    BY <1>5, <1>6, <1>8, <2>1, <2>2 DEF TargetInv, SessionInv, Midway
<1>10. FactsKept(s)'
  <2>1. versions[v] # NoRow =>
          /\ closed.employee_id = versions[v].employee_id
          /\ closed.attributes = versions[v].attributes
          /\ closed.valid_from = versions[v].valid_from
    BY <1>1, <1>4, SeenType DEF Consistent, FactsKept
  <2> QED
    BY <1>2, <1>5, <2>1 DEF Consistent, FactsKept
<1>11. OthersKept(s)
  BY <1>2, <1>5, <1>6 DEF OthersKept
<1>12. LocksExclusive'
  <2>1. \A o \in Sessions \ {s} : wVersions[o][v] = NoRow
    BY <1>1 DEF VersionHolders
  <2> QED
    BY <1>2, <1>5, <2>1 DEF Consistent, LocksExclusive
<1>13. SequenceAhead'
  <2>1. ~ (v > versionSeq)
    BY <1>1, SeenType DEF Consistent, SequenceAhead
  <2> QED
    BY <1>2, <1>5, <2>1 DEF Consistent, SequenceAhead
<1> QED
  BY <1>2, <1>9, <1>10, <1>11, <1>12, <1>13, OneSessionStep

LEMMA InsertVersionStep ==
    ASSUME Consistent, TypeInv', NEW s \in Sessions, InsertVersion(s),
           pc[s] \in {"add_first_version", "add_version"},
           NEW e, e = Row(s).id, NEW a, a = RowAttributes(Row(s))
    PROVE  Consistent'
<1> DEFINE inserted == NewVersion(Row(s), local[s].valid_from)
<1>1. /\ TypeInv /\ e \in EmployeeIds /\ a \in Attributes
      /\ versionSeq + 1 \in VersionIds /\ versionSeq \in Nat /\ versionSeq' = versionSeq + 1
  BY HireAtWork DEF Consistent, InsertVersion, TypeInv, TypeOK, Midway
<1>2. CASE CurrentIn(VersionsSeen(s), e) # {}
  BY <1>1, <1>2, FailStep DEF InsertVersion
<1>3. CASE CurrentIn(VersionsSeen(s), e) = {}
  <2>0. PICK v \in VersionIds : v = versionSeq + 1
    BY <1>1
  <2>1. /\ wVersions' = [wVersions EXCEPT ![s][v] = inserted]
        /\ UNCHANGED << employees, versions, wEmployees >>
        /\ IF pc[s] = "add_first_version"
             THEN Accept(s)
             ELSE Goto(s, "update_current") /\ UNCHANGED << req, local >>
    BY <1>3, <2>0 DEF InsertVersion, tables
  <2>2. PICK new \in Version :
          /\ new.employee_id = e /\ new.is_current /\ new.attributes = a
          /\ VersionWritten(s, v, new)
    <3>1. local[s].valid_from \in Nat
      BY <1>1 DEF TypeInv, TypeOK, Reads
    <3>2. inserted \in Version
      BY <1>1, <3>1 DEF Version, NewVersion
    <3>3. inserted.employee_id = e /\ inserted.is_current /\ inserted.attributes = a
      BY DEF NewVersion
    <3> HIDE DEF inserted
    <3> QED
      BY <2>1, <3>2, <3>3 DEF VersionWritten
  <2>3. v > versionSeq /\ \A u \in VersionIds : u > v => u > versionSeq
    BY <1>1, <2>0 DEF VersionIds
  <2> HIDE DEF inserted
  <2>4. /\ versions[v] = NoRow /\ \A o \in Sessions : wVersions[o][v] = NoRow
        /\ VersionsSeen(s)[v] = NoRow
    BY <1>1, <2>3, SeenType DEF Consistent, SequenceAhead
  <2>5. /\ wVersions'[s][v] = new
        /\ \A u \in VersionIds \ {v} : wVersions'[s][u] = wVersions[s][u]
        /\ \A o \in Sessions \ {s} : wVersions'[o] = wVersions[o]
        /\ VersionsSeen(s)'[v] = new
        /\ \A u \in VersionIds \ {v} : VersionsSeen(s)'[u] = VersionsSeen(s)[u]
        /\ EmployeesSeen(s)' = EmployeesSeen(s)
        /\ \A f \in EmployeeIds :
             /\ f # new.employee_id
             /\ VersionsSeen(s)[v] # NoRow => VersionsSeen(s)[v].employee_id # f
             /\ Settled(s, f)
             => Settled(s, f)'
    <3>1. UNCHANGED << employees, versions, wEmployees >>
      BY <2>1
    <3> QED
      BY <1>1, <2>2, <3>1, VersionWrite
  <2>6. \A f \in EmployeeIds \ {e} : Settled(s, f)'
    <3>1. \A f \in EmployeeIds \ {e} : Settled(s, f)
      BY DEF Consistent, SessionInv
    <3> QED
      BY <2>2, <2>4, <2>5, <3>1
  <2>7. Owns(s, e) /\ Owns(s, e)'
    <3>1. Owns(s, e)
      BY <1>1, <1>3, SeenType DEF Owns, CurrentIn
    <3> QED
      BY <2>1, <2>2, <2>5, <3>1, NoRowDistinct DEF Owns, CurrentIn
  <2>8. ClosesOpen(s, e)'
    <3>1. ClosesOpen(s, e)
      <4>1. CASE pc[s] = "add_first_version"
        BY <4>1 DEF Consistent, SessionInv, ClosesOpen
      <4>2. CASE pc[s] = "add_version"
        BY <2>7, <4>2 DEF Consistent, SessionInv, Overtaken
      <4> QED
        BY <4>1, <4>2
    <3> QED
      BY <2>1, <2>4, <2>5, <3>1 DEF ClosesOpen
  <2>9. OneCurrent(s, e, a)'
    <3>1. EmployeesSeen(s)[e] # NoRow
      <4>1. CASE pc[s] = "add_first_version"
        BY <1>1, <4>1, SeenType DEF Consistent, SessionInv
      <4>2. CASE pc[s] = "add_version"
        BY <4>2 DEF Consistent, SessionInv
      <4> QED
        BY <4>1, <4>2
    <3>2. CurrentIn(VersionsSeen(s)', e) = {v}
      <4>1. v \in CurrentIn(VersionsSeen(s)', e)
        BY <1>1, <2>2, <2>5, NoRowDistinct DEF CurrentIn
      <4>2. \A u \in VersionIds \ {v} : u \notin CurrentIn(VersionsSeen(s)', e)
        BY <1>3, <2>5 DEF CurrentIn
      <4>3. CurrentIn(VersionsSeen(s)', e) \subseteq VersionIds
        BY DEF CurrentIn
      <4> QED
        BY <4>1, <4>2, <4>3
    <3> QED
      BY <1>1, <2>2, <2>5, <3>1, <3>2 DEF OneCurrent
  <2>10. TargetInv(s)' /\ SessionInv(s)'
    <3>1. CASE pc[s] = "add_first_version"
      <4>1. pc'[s] = "row"
        BY <1>1, <2>1, <3>1, AcceptOthers
      <4>2. EmployeesSeen(s)[e].current = a
        BY <1>1, <3>1, SeenType DEF Consistent, SessionInv
      <4>3. Settled(s, e)'
        BY <2>5, <2>7, <2>8, <2>9, <4>2 DEF Settled
      <4> QED
        BY <1>1, <2>6, <4>1, <4>3, CalmSession DEF CalmLabels
    <3>2. CASE pc[s] = "add_version"
      <4>1. pc'[s] = "update_current" /\ Row(s)' = Row(s)
        BY <1>1, <2>1, <3>2, GotoOthers DEF Row
      <4> QED
        BY <2>6, <2>7, <2>8, <2>9, <4>1 DEF TargetInv, SessionInv, Midway
    <3> QED
      BY <3>1, <3>2
  <2>11. FactsKept(s)'
    BY <2>1, <2>4, <2>5 DEF Consistent, FactsKept
  <2>12. OthersKept(s)
    BY <1>1, <2>1, <2>5, GotoOthers, AcceptOthers DEF OthersKept
  <2>13. LocksExclusive'
    BY <2>1, <2>4, <2>5 DEF Consistent, LocksExclusive
  <2>14. SequenceAhead'
    BY <1>1, <2>0, <2>1, <2>3, <2>5 DEF Consistent, SequenceAhead
  <2> QED
    BY <2>1, <2>10, <2>11, <2>12, <2>13, <2>14, OneSessionStep
<1> QED
  BY <1>2, <1>3

LEMMA UpdateCurrentStep ==
    ASSUME Consistent, TypeInv', NEW s \in Sessions, UpdateCurrent(s),
           NEW e, e = Row(s).id, NEW a, a = RowAttributes(Row(s)),
           NEW row, row = EmployeesSeen(s)[e]
    PROVE  Consistent'
<1> DEFINE new == Transferred(row, a)
<1>1. /\ TypeInv /\ pc[s] = "update_current" /\ e \in EmployeeIds /\ a \in Attributes
      /\ UNCHANGED versionSeq
  BY HireAtWork DEF Consistent, UpdateCurrent, Midway
<1>2. CASE row = NoRow
  BY <1>1, <1>2, FailStep DEF UpdateCurrent, TypeInv, TypeOK
<1>3. CASE row # NoRow
  <2>1. /\ Accept(s)
        /\ UNCHANGED << employees, versions, wVersions >>
        /\ row.current = a => UNCHANGED wEmployees
        /\ row.current # a => /\ EmployeeHolders(s, e) = {}
                              /\ wEmployees' = [wEmployees EXCEPT ![s][e] = new]
    BY <1>3 DEF UpdateCurrent, tables
  <2>2. /\ pc'[s] = "row"
        /\ \A o \in Sessions \ {s} : pc'[o] = pc[o] /\ req'[o] = req[o] /\ local'[o] = local[o]
    BY <1>1, <2>1, AcceptOthers
  <2>3. OneCurrent(s, e, a) /\ Owns(s, e) /\ ClosesOpen(s, e)
    BY <1>1 DEF Consistent, SessionInv
  <2>4. \A f \in EmployeeIds \ {e} : Settled(s, f)
    BY DEF Consistent, SessionInv
  <2>5. CASE row.current = a
    <3>1. Settled(s, e)
      BY <2>3, <2>5 DEF Settled
    <3>2. \A f \in EmployeeIds : Settled(s, f)'
      BY <1>1, <2>1, <2>4, <2>5, <3>1, FrameSettled
    <3>3. TargetInv(s)' /\ SessionInv(s)'
      BY <2>2, <3>2, CalmSession DEF CalmLabels
    <3> QED
      BY <1>1, <2>1, <2>2, <2>5, <3>3, NoWriteStep
  <2>6. CASE row.current # a
    <3>1. row \in Employee
      BY <1>1, <1>3, SeenType
    <3>2. /\ new \in Employee /\ new.current = a
          /\ new.hired_as = row.hired_as /\ new.hire_datetime = row.hire_datetime
      BY <1>1, <3>1 DEF Employee, Transferred
    <3> HIDE DEF new
    <3>3. /\ wEmployees'[s][e] = new
          /\ \A f \in EmployeeIds \ {e} : wEmployees'[s][f] = wEmployees[s][f]
          /\ \A o \in Sessions \ {s} : wEmployees'[o] = wEmployees[o]
          /\ EmployeesSeen(s)'[e] = new
          /\ VersionsSeen(s)' = VersionsSeen(s)
          /\ Owns(s, e)' = Owns(s, e) /\ ClosesOpen(s, e)' = ClosesOpen(s, e)
          /\ \A f \in EmployeeIds \ {e} : Settled(s, f) => Settled(s, f)'
      <4>1. EmployeeWritten(s, e, new) /\ UNCHANGED << employees, versions, wVersions >>
        BY <2>1, <2>6 DEF EmployeeWritten
      <4> QED
        BY <1>1, <3>2, <4>1, EmployeeWrite
    <3>4. Settled(s, e)'
      BY <2>3, <3>2, <3>3, NoRowDistinct DEF Settled, OneCurrent
    <3>5. TargetInv(s)' /\ SessionInv(s)'
      BY <2>2, <2>4, <3>3, <3>4, CalmSession DEF CalmLabels
    <3>6. FactsKept(s)'
      <4>1. employees[e] # NoRow =>
              new.hired_as = employees[e].hired_as /\ new.hire_datetime = employees[e].hire_datetime
        BY <1>1, <3>2, SeenType DEF Consistent, FactsKept
      <4> QED
        BY <2>1, <3>3, <4>1 DEF Consistent, FactsKept
    <3>7. OthersKept(s)
      BY <2>1, <2>2, <3>3 DEF OthersKept
    <3>8. LocksExclusive'
      <4>1. \A o \in Sessions \ {s} : wEmployees[o][e] = NoRow
        BY <2>1, <2>6 DEF EmployeeHolders
      <4> QED
        BY <2>1, <3>3, <4>1 DEF Consistent, LocksExclusive
    <3>9. SequenceAhead'
      BY <1>1, <2>1 DEF Consistent, SequenceAhead
    <3> QED
      BY <2>1, <3>5, <3>6, <3>7, <3>8, <3>9, OneSessionStep
  <2> QED
    BY <2>5, <2>6
<1> QED
  BY <1>2, <1>3

-----------------------------------------------------------------------------
(***************************************************************************)
(* The commit: what session s publishes, and what that does to the others. *)
(***************************************************************************)
LEMMA CommitEffects ==
    ASSUME Consistent, TypeInv', NEW s \in Sessions, Commit(s)
    PROVE  /\ TypeInv
           /\ \A f \in EmployeeIds : Settled(s, f)
           /\ \A e \in EmployeeIds :
                employees'[e] = IF wEmployees[s][e] = NoRow THEN employees[e] ELSE wEmployees[s][e]
           /\ \A v \in VersionIds :
                versions'[v] = IF wVersions[s][v] = NoRow THEN versions[v] ELSE wVersions[s][v]
           /\ employees' = EmployeesSeen(s) /\ versions' = VersionsSeen(s)
           /\ \A e \in EmployeeIds : wEmployees'[s][e] = NoRow
           /\ \A v \in VersionIds : wVersions'[s][v] = NoRow
           /\ OthersKept(s)
           /\ pc'[s] = "refresh" /\ UNCHANGED versionSeq
<1>1. TypeInv
  BY DEF Consistent
<1>2. \A f \in EmployeeIds : Settled(s, f)
  BY DEF Consistent, SessionInv, Commit, Midway
<1>3. employees' = EmployeesSeen(s) /\ versions' = VersionsSeen(s)
  BY DEF Commit
<1>4. DropWrites(s) /\ Goto(s, "refresh") /\ UNCHANGED << versionSeq, req, local >>
  BY DEF Commit, sequences
<1>5. OthersKept(s)
  BY <1>1, <1>4, Dropped, GotoOthers DEF OthersKept
<1> QED
  BY <1>1, <1>2, <1>3, <1>4, <1>5, Dropped, GotoOthers, SeenType

\* An employee that s does not touch is the same after its commit.
LEMMA UntouchedByCommit ==
    ASSUME Consistent, TypeInv', NEW s \in Sessions, Commit(s), NEW f \in EmployeeIds, ~ Touches(s, f)
    PROVE  /\ employees'[f] = employees[f]
           /\ \A v \in VersionIds :
                \/ versions[v] # NoRow /\ versions[v].employee_id = f
                \/ versions'[v] # NoRow /\ versions'[v].employee_id = f
                => versions'[v] = versions[v]
           /\ CurrentIn(versions', f) = CurrentIn(versions, f)
<1>1. employees'[f] = employees[f]
  BY CommitEffects DEF Touches
<1>2. ASSUME NEW v \in VersionIds,
             \/ versions[v] # NoRow /\ versions[v].employee_id = f
             \/ versions'[v] # NoRow /\ versions'[v].employee_id = f
      PROVE  versions'[v] = versions[v]
  <2>1. CASE wVersions[s][v] = NoRow
    BY <2>1, CommitEffects
  <2>2. CASE wVersions[s][v] # NoRow
    <3>1. wVersions[s][v].employee_id # f
      BY <2>2 DEF Touches
    <3>2. versions[v] # NoRow => versions[v].employee_id # f
      BY <2>2, <3>1 DEF Consistent, FactsKept
    <3> QED
      BY <1>2, <2>2, <3>1, <3>2, CommitEffects
  <2> QED
    BY <2>1, <2>2
<1>3. CurrentIn(versions', f) = CurrentIn(versions, f)
  BY <1>2 DEF CurrentIn
<1> QED
  BY <1>1, <1>2, <1>3

\* Two sessions never both hold the same employee in a state to commit.
LEMMA NoOverlap ==
    ASSUME Consistent, NEW s \in Sessions, NEW o \in Sessions, o # s, NEW f \in EmployeeIds,
           Settled(s, f), Touches(s, f), EmployeesSeen(o)[f] # NoRow, Owns(o, f)
    PROVE  FALSE
<1>1. Owns(s, f) /\ EmployeesSeen(s)[f] # NoRow /\ TypeInv
  BY DEF Settled, OneCurrent, Consistent
<1>2. CASE employees[f] = NoRow
  BY <1>1, <1>2, SeenType DEF Consistent, LocksExclusive
<1>3. CASE employees[f] # NoRow
  <2>1. PICK v \in VersionIds : CurrentIn(versions, f) = {v}
    BY <1>3 DEF Consistent, OneVersionEach, OneVersion
  <2>2. wVersions[s][v] # NoRow /\ wVersions[o][v] # NoRow
    BY <1>1, <2>1 DEF Owns
  <2> QED
    BY <2>2 DEF Consistent, LocksExclusive
<1> QED
  BY <1>2, <1>3

\* After the commit of s no other session owns an employee that s has touched.
LEMMA CommitOvertakes ==
    ASSUME Consistent, TypeInv', NEW s \in Sessions, Commit(s), NEW o \in Sessions, o # s,
           NEW f \in EmployeeIds, Touches(s, f)
    PROVE  ~ Owns(o, f)'
<1>1. /\ Owns(s, f)
      /\ TypeInv /\ versions' = VersionsSeen(s) /\ wVersions'[o] = wVersions[o]
  BY CommitEffects DEF Settled, OthersKept
<1>2. PICK w \in VersionIds : CurrentIn(versions', f) = {w}
  BY CommitEffects DEF Settled, OneCurrent
<1>3. wVersions[s][w] # NoRow
  <2>1. CASE w \in CurrentIn(versions, f)
    BY <1>1, <2>1 DEF Owns
  <2>2. CASE w \notin CurrentIn(versions, f)
    <3>1. w \in CurrentIn(versions', f)
      BY <1>2
    <3>2. versions'[w] # versions[w]
      BY <2>2, <3>1 DEF CurrentIn
    <3> QED
      BY <3>2, CommitEffects
  <2> QED
    BY <2>1, <2>2
<1>4. wVersions[o][w] = NoRow
  BY <1>3 DEF Consistent, LocksExclusive
<1> QED
  BY <1>1, <1>2, <1>4 DEF Owns

\* What another session knows of employee f survives the commit of s.
LEMMA OtherAfterCommit ==
    ASSUME Consistent, TypeInv', NEW s \in Sessions, Commit(s), NEW o \in Sessions, o # s,
           NEW f \in EmployeeIds
    PROVE  /\ EmployeesSeen(o)[f] # NoRow => EmployeesSeen(o)'[f] # NoRow
           /\ ClosesOpen(o, f) => ClosesOpen(o, f)'
           /\ ~ Owns(o, f) => ~ Owns(o, f)'
           /\ \A a : OneCurrent(o, f, a) /\ Owns(o, f) =>
                /\ OneCurrent(o, f, a)' /\ Owns(o, f)'
                /\ EmployeesSeen(o)'[f] = EmployeesSeen(o)[f]
<1>1. /\ TypeInv
      /\ wEmployees'[o] = wEmployees[o] /\ wVersions'[o] = wVersions[o]
  BY CommitEffects DEF OthersKept
<1>2. EmployeesSeen(o)[f] # NoRow => EmployeesSeen(o)'[f] # NoRow
  BY <1>1, CommitEffects, SeenType, SeenNext
<1>3. ClosesOpen(o, f) => ClosesOpen(o, f)'
  <2>1. \A v \in VersionIds : wVersions[o][v] # NoRow => versions'[v] = versions[v]
    BY CommitEffects DEF Consistent, LocksExclusive
  <2> QED
    BY <1>1, <2>1 DEF ClosesOpen
<1>4. CASE Touches(s, f)
  <2>1. ~ Owns(o, f)'
    BY <1>4, CommitOvertakes
  <2>2. ~ (EmployeesSeen(o)[f] # NoRow /\ Owns(o, f))
    BY <1>4, CommitEffects, NoOverlap
  <2>3. \A a : ~ (OneCurrent(o, f, a) /\ Owns(o, f))
    BY <2>2 DEF OneCurrent
  <2> QED
    BY <1>2, <1>3, <2>1, <2>3
<1>5. CASE ~ Touches(s, f)
  <2>1. /\ employees'[f] = employees[f]
        /\ CurrentIn(versions', f) = CurrentIn(versions, f)
        /\ \A v \in VersionIds :
             \/ versions[v] # NoRow /\ versions[v].employee_id = f
             \/ versions'[v] # NoRow /\ versions'[v].employee_id = f
             => versions'[v] = versions[v]
    BY <1>5, UntouchedByCommit
  <2>2. EmployeesSeen(o)'[f] = EmployeesSeen(o)[f]
    BY <1>1, <2>1, SeenType, SeenNext
  <2>3. Owns(o, f)' = Owns(o, f)
    BY <1>1, <2>1 DEF Owns
  <2>4. ASSUME NEW v \in VersionIds,
               \/ VersionsSeen(o)[v] # NoRow /\ VersionsSeen(o)[v].employee_id = f
               \/ VersionsSeen(o)'[v] # NoRow /\ VersionsSeen(o)'[v].employee_id = f
        PROVE  VersionsSeen(o)'[v] = VersionsSeen(o)[v]
    BY <1>1, <2>1, <2>4, SeenType, SeenNext
  <2>5. CurrentIn(VersionsSeen(o)', f) = CurrentIn(VersionsSeen(o), f)
    BY <2>4 DEF CurrentIn
  <2>6. ASSUME NEW a, OneCurrent(o, f, a) PROVE OneCurrent(o, f, a)'
    <3>1. PICK v \in VersionIds : /\ CurrentIn(VersionsSeen(o), f) = {v}
                                  /\ VersionsSeen(o)[v].attributes = a
      BY <2>6 DEF OneCurrent
    <3>2. VersionsSeen(o)[v] # NoRow /\ VersionsSeen(o)[v].employee_id = f
      BY <3>1 DEF CurrentIn
    <3>3. VersionsSeen(o)'[v].attributes = a
      BY <2>4, <3>1, <3>2
    <3> QED
      BY <2>2, <2>5, <2>6, <3>1, <3>3 DEF OneCurrent
  <2> QED
    BY <1>2, <1>3, <2>2, <2>3, <2>6
<1> QED
  BY <1>4, <1>5

\* Another session keeps its part of the invariant when s commits.
LEMMA OtherSessionAfterCommit ==
    ASSUME Consistent, TypeInv', NEW s \in Sessions, Commit(s), NEW o \in Sessions, o # s,
           NEW e, e = Row(o).id, NEW a, a = RowAttributes(Row(o)),
           NEW t, t = local[o].target
    PROVE  TargetInv(o)' /\ FactsKept(o)' /\ SessionInv(o)'
<1>1. /\ TypeInv /\ TargetInv(o) /\ FactsKept(o) /\ SessionInv(o)
      /\ wEmployees'[o] = wEmployees[o] /\ wVersions'[o] = wVersions[o]
      /\ pc'[o] = pc[o] /\ req'[o] = req[o] /\ local'[o] = local[o]
      /\ Row(o)' = Row(o)
  BY CommitEffects DEF Consistent, OthersKept, Row
<1>2. pc[o] \in {"exists", "add_employee", "get_current", "close_select", "close_update"} \cup Midway
        => e \in EmployeeIds
  BY <1>1, HireAtWork
<1>3. \A v \in VersionIds : wVersions[o][v] # NoRow => versions'[v] = versions[v]
  BY CommitEffects DEF Consistent, LocksExclusive
<1>4. \A f \in EmployeeIds : wEmployees[o][f] # NoRow => employees'[f] = employees[f]
  BY CommitEffects DEF Consistent, LocksExclusive
<1>5. FactsKept(o)'
  BY <1>1, <1>3, <1>4 DEF FactsKept
<1>6. ASSUME NEW f \in EmployeeIds, Settled(o, f) PROVE Settled(o, f)'
  <2>1. Touches(o, f)' => Touches(o, f)
    BY <1>1 DEF Touches
  <2>2. CASE Touches(o, f)
    <3>1. /\ OneCurrent(o, f, EmployeesSeen(o)[f].current)
          /\ Owns(o, f) /\ ClosesOpen(o, f)
      BY <1>6, <2>2 DEF Settled
    <3>2. /\ ClosesOpen(o, f)' /\ Owns(o, f)'
          /\ EmployeesSeen(o)'[f] = EmployeesSeen(o)[f]
          /\ \A b : OneCurrent(o, f, b) => OneCurrent(o, f, b)'
      BY <3>1, OtherAfterCommit
    <3>3. OneCurrent(o, f, EmployeesSeen(o)[f].current)'
      BY <3>1, <3>2 DEF OneCurrent
    <3> QED
      BY <3>2, <3>3 DEF Settled
  <2>3. CASE ~ Touches(o, f)
    BY <2>1, <2>3 DEF Settled
  <2> QED
    BY <2>2, <2>3
<1>7. \A f \in EmployeeIds : (pc[o] \in Midway /\ f = e) \/ Settled(o, f)'
  BY <1>1, <1>6 DEF SessionInv
<1>8. pc[o] = "add_first_version" =>
        /\ employees'[e] = NoRow
        /\ wEmployees[o][e] # NoRow
        /\ wEmployees[o][e].current = a
        /\ \A v \in VersionIds : wVersions[o][v] # NoRow => wVersions[o][v].employee_id # e
  BY <1>1, <1>2, <1>4 DEF SessionInv, Midway
<1>9. pc[o] \in {"get_current", "close_select", "close_update", "add_version"} =>
        EmployeesSeen(o)'[e] # NoRow
  BY <1>1, <1>2, OtherAfterCommit DEF SessionInv, Midway
<1>10. pc[o] = "close_update" =>
         /\ t \in VersionIds /\ VersionsSeen(o)'[t] # NoRow
         /\ VersionsSeen(o)'[t].employee_id = e
         /\ versions'[t] # NoRow /\ ~ versions'[t].is_current => ~ Owns(o, e)'
  <2> SUFFICES ASSUME pc[o] = "close_update"
               PROVE  /\ t \in VersionIds /\ VersionsSeen(o)'[t] # NoRow
                      /\ VersionsSeen(o)'[t].employee_id = e
                      /\ versions'[t] # NoRow /\ ~ versions'[t].is_current => ~ Owns(o, e)'
    OBVIOUS
  <2>1. /\ t \in VersionIds /\ VersionsSeen(o)[t] # NoRow /\ VersionsSeen(o)[t].employee_id = e
        /\ versions[t] # NoRow /\ ~ versions[t].is_current => ~ Owns(o, e)
        /\ e \in EmployeeIds
    BY <1>1, <1>2 DEF TargetInv, SessionInv, Overtaken
  <2>2. CASE versions'[t] = versions[t]
    <3>1. VersionsSeen(o)'[t] = VersionsSeen(o)[t]
      BY <1>1, <2>1, <2>2, SeenType, SeenNext
    <3> QED
      BY <2>1, <2>2, <3>1, OtherAfterCommit
  <2>3. CASE versions'[t] # versions[t]
    <3>1. wVersions[s][t] # NoRow /\ versions'[t] = wVersions[s][t] /\ wVersions[o][t] = NoRow
      BY <1>3, <2>1, <2>3, CommitEffects
    <3>2. versions[t] # NoRow /\ versions[t].employee_id = e
      BY <1>1, <2>1, <3>1, SeenType
    <3>3. wVersions[s][t].employee_id = e
      BY <2>1, <3>1, <3>2 DEF Consistent, FactsKept
    <3>4. Touches(s, e)
      BY <2>1, <3>1, <3>3 DEF Touches
    <3>5. VersionsSeen(o)'[t] = wVersions[s][t]
      BY <1>1, <2>1, <3>1, SeenNext
    <3> QED
      BY <2>1, <3>1, <3>3, <3>4, <3>5, CommitOvertakes
  <2> QED
    BY <2>2, <2>3
<1>11. pc[o] = "add_version" => ClosesOpen(o, e)' \/ ~ Owns(o, e)'
  BY <1>1, <1>2, OtherAfterCommit DEF SessionInv, Overtaken, Midway
<1>12. pc[o] = "update_current" => OneCurrent(o, e, a)' /\ Owns(o, e)' /\ ClosesOpen(o, e)'
  BY <1>1, <1>2, OtherAfterCommit DEF SessionInv, Midway
<1>13. pc[o] = "add_employee" => wEmployees[o][e] = NoRow
  BY <1>1 DEF SessionInv
<1>14. TargetInv(o)'
  BY <1>1, <1>10 DEF TargetInv
<1>15. SessionInv(o)'
  BY <1>1, <1>7, <1>8, <1>9, <1>10, <1>11, <1>12, <1>13 DEF SessionInv, Overtaken
<1> QED
  BY <1>5, <1>14, <1>15

LEMMA CommitStep ==
    ASSUME Consistent, TypeInv', NEW s \in Sessions, Commit(s)
    PROVE  Consistent'
<1>1. OneVersionEach'
  <2> SUFFICES ASSUME NEW f \in EmployeeIds PROVE OneVersion(f)'
    BY DEF OneVersionEach
  <2>1. CASE Touches(s, f)
    <3>1. OneCurrent(s, f, EmployeesSeen(s)[f].current)
      BY <2>1, CommitEffects DEF Settled
    <3> QED
      BY <3>1, CommitEffects DEF OneCurrent, OneVersion
  <2>2. CASE ~ Touches(s, f)
    <3>1. OneVersion(f)
      BY DEF Consistent, OneVersionEach
    <3> QED
      BY <2>2, <3>1, UntouchedByCommit DEF OneVersion
  <2> QED
    BY <2>1, <2>2
<1>2. LocksExclusive'
  BY CommitEffects DEF Consistent, LocksExclusive, OthersKept
<1>3. SequenceAhead'
  BY CommitEffects DEF Consistent, SequenceAhead, OthersKept
<1>4. TargetInv(s)' /\ FactsKept(s)' /\ SessionInv(s)'
  <2>1. FactsKept(s)'
    BY CommitEffects DEF FactsKept
  <2>2. \A f \in EmployeeIds : Settled(s, f)'
    BY CommitEffects DEF Settled, Touches
  <2> QED
    BY <2>1, <2>2, CommitEffects, CalmSession DEF CalmLabels
<1>5. ASSUME NEW o \in Sessions, o # s PROVE TargetInv(o)' /\ FactsKept(o)' /\ SessionInv(o)'
  BY <1>5, OtherSessionAfterCommit
<1> QED
  BY <1>1, <1>2, <1>3, <1>4, <1>5 DEF Consistent

\* The employees that s has touched agree with their versions after its commit.
LEMMA CommitSyncs ==
    ASSUME Consistent, TypeInv', NEW s \in Sessions, Commit(s), NEW f \in EmployeeIds,
           Touches(s, f)
    PROVE  InSync(employees, versions, f)'
<1>1. OneCurrent(s, f, EmployeesSeen(s)[f].current)
  BY CommitEffects DEF Settled
<1> QED
  BY <1>1, CommitEffects DEF OneCurrent, InSync

\* The others agree as before.
LEMMA CommitKeepsSync ==
    ASSUME Consistent, TypeInv', NEW s \in Sessions, Commit(s), NEW f \in EmployeeIds,
           ~ Touches(s, f), InSync(employees, versions, f)
    PROVE  InSync(employees, versions, f)'
<1>1. /\ employees'[f] = employees[f]
      /\ \A v \in VersionIds :
           \/ versions[v] # NoRow /\ versions[v].employee_id = f
           \/ versions'[v] # NoRow /\ versions'[v].employee_id = f
           => versions'[v] = versions[v]
      /\ CurrentIn(versions', f) = CurrentIn(versions, f)
  BY UntouchedByCommit
<1>2. CASE employees[f] = NoRow
  BY <1>1, <1>2 DEF InSync
<1>3. CASE employees[f] # NoRow
  <2>1. PICK v \in VersionIds : /\ CurrentIn(versions, f) = {v}
                                /\ versions[v].attributes = employees[f].current
    BY <1>3 DEF InSync
  <2>2. versions'[v] = versions[v]
    BY <1>1, <2>1 DEF CurrentIn
  <2> QED
    BY <1>1, <1>3, <2>1, <2>2 DEF InSync
<1> QED
  BY <1>2, <1>3

-----------------------------------------------------------------------------
(***************************************************************************)
(* The theorems.                                                           *)
(***************************************************************************)
LEMMA InvInit == Init => IInv
<1> SUFFICES ASSUME Init PROVE IInv
  OBVIOUS
<1>1. TypeInv
  BY TypeInit
<1>2. /\ \A e \in EmployeeIds : employees[e] = NoRow
      /\ \A v \in VersionIds : versions[v] = NoRow
      /\ \A s \in Sessions : /\ \A e \in EmployeeIds : wEmployees[s][e] = NoRow
                             /\ \A v \in VersionIds : wVersions[s][v] = NoRow
                             /\ pc[s] = "idle"
  BY DEF Init, NoEmployees, NoVersions
<1>3. CurrentStateInSync /\ OneVersionEach
  BY <1>2 DEF CurrentStateInSync, InSync, OneVersionEach, OneVersion
<1>4. LocksExclusive /\ SequenceAhead
  BY <1>2 DEF LocksExclusive, SequenceAhead
<1>5. ASSUME NEW s \in Sessions PROVE TargetInv(s) /\ FactsKept(s) /\ SessionInv(s)
  BY <1>2 DEF TargetInv, FactsKept, SessionInv, Settled, Touches, Midway
<1> QED
  BY <1>1, <1>3, <1>4, <1>5 DEF IInv, Consistent

\* Statements that write no employee and no version.
LEMMA CalmActions ==
    ASSUME Consistent, TypeInv', NEW s \in Sessions,
           \/ Receive(s) \/ RejectDimension(s) \/ SelectDimension(s) \/ UpdateDimension(s)
           \/ CheckDepartment(s) \/ Refresh(s)
    PROVE  Consistent'
<1>1. TypeInv
  BY DEF Consistent
<1> USE DEF tables, writes, sequences
<1>2. CASE Receive(s)
  <2>1. /\ pc[s] = "idle" /\ pc'[s] = "row" /\ \A o \in Sessions \ {s} : pc'[o] = pc[o]
        /\ UNCHANGED << employees, versions, wEmployees, wVersions, versionSeq, local >>
    BY <1>1, <1>2, GotoOthers DEF Receive
  <2>2. PICK request : req' = [req EXCEPT ![s] = request]
    BY <1>2 DEF Receive
  <2>3. \A o \in Sessions \ {s} : req'[o] = req[o]
    BY <1>1, <2>2 DEF TypeInv, TypeOK
  <2>4. pc[s] \notin Midway /\ pc'[s] \in CalmLabels
    BY <2>1 DEF CalmLabels, Midway
  <2>5. UNCHANGED << employees, versions, wEmployees, wVersions, versionSeq >>
    BY <2>1
  <2> QED
    BY <2>1, <2>3, <2>4, <2>5, CalmStep
<1>3. CASE RejectDimension(s)
  BY <1>1, <1>3, RejectOthers, CalmStep DEF RejectDimension, AtDimensionRow, CalmLabels, Midway
<1>4. CASE SelectDimension(s)
  <2>1. /\ pc[s] = "row" /\ pc'[s] = "upsert"
        /\ \A o \in Sessions \ {s} : pc'[o] = pc[o]
    BY <1>1, <1>4, GotoOthers DEF SelectDimension, AtDimensionRow
  <2>2. \A o \in Sessions \ {s} : local'[o] = local[o] /\ req'[o] = req[o]
    BY <1>1, <1>4 DEF SelectDimension, TypeInv, TypeOK
  <2>3. pc[s] \notin Midway /\ pc'[s] \in CalmLabels
    BY <2>1 DEF CalmLabels, Midway
  <2>4. UNCHANGED << employees, versions, wEmployees, wVersions, versionSeq >>
    BY <1>4 DEF SelectDimension
  <2> QED
    BY <2>1, <2>2, <2>3, <2>4, CalmStep
<1>5. CASE UpdateDimension(s)
  BY <1>1, <1>5, AcceptOthers, CalmStep DEF UpdateDimension, CalmLabels, Midway
<1>6. CASE CheckDepartment(s)
  <2>1. /\ pc[s] = "row" /\ pc'[s] = "check_job"
        /\ \A o \in Sessions \ {s} : pc'[o] = pc[o]
    BY <1>1, <1>6, GotoOthers DEF CheckDepartment
  <2>2. \A o \in Sessions \ {s} : local'[o] = local[o] /\ req'[o] = req[o]
    BY <1>1, <1>6 DEF CheckDepartment, TypeInv, TypeOK
  <2>3. pc[s] \notin Midway /\ pc'[s] \in CalmLabels
    BY <2>1 DEF CalmLabels, Midway
  <2>4. UNCHANGED << employees, versions, wEmployees, wVersions, versionSeq >>
    BY <1>6 DEF CheckDepartment
  <2> QED
    BY <2>1, <2>2, <2>3, <2>4, CalmStep
<1>7. CASE Refresh(s)
  BY <1>1, <1>7, GotoOthers, CalmStep DEF Refresh, CalmLabels, Midway
<1> QED
  BY <1>2, <1>3, <1>4, <1>5, <1>6, <1>7

LEMMA InsertDimensionStep ==
    ASSUME Consistent, TypeInv', NEW s \in Sessions, InsertDimension(s)
    PROVE  Consistent'
<1>1. TypeInv /\ UNCHANGED versionSeq /\ versionSeq \in Nat /\ pc[s] = "upsert"
  BY DEF Consistent, InsertDimension, TypeInv, TypeOK
<1>2. CASE Fail(s)
  BY <1>1, <1>2, FailStep
<1>3. CASE ~ Fail(s)
  BY <1>1, <1>3, AcceptOthers, CalmStep DEF InsertDimension, tables, CalmLabels, Midway
<1> QED
  BY <1>2, <1>3

LEMMA CheckJobStep ==
    ASSUME Consistent, TypeInv', NEW s \in Sessions, CheckJob(s)
    PROVE  Consistent'
<1> DEFINE errors == HireErrors(Row(s), local[s].department_known,
                                Known(s, "jobs", Row(s).job_id))
<1>1. /\ TypeInv /\ pc[s] = "check_job"
      /\ UNCHANGED << employees, versions, wEmployees, wVersions, versionSeq >>
      /\ IF errors # << >>
           THEN Reject(s, errors)
           ELSE Goto(s, "exists") /\ UNCHANGED << req, local >>
  BY DEF Consistent, CheckJob, tables, sequences, writes
<1> HIDE DEF errors
<1>2. CASE errors # << >>
  BY <1>1, <1>2, RejectOthers, CalmStep DEF CalmLabels, Midway
<1>3. CASE errors = << >>
  BY <1>1, <1>3, GotoOthers, CalmStep DEF CalmLabels, Midway
<1> QED
  BY <1>2, <1>3

LEMMA ConsistentStep == Consistent /\ [Next]_vars => Consistent'
<1> SUFFICES ASSUME Consistent, [Next]_vars PROVE Consistent'
  OBVIOUS
<1>1. TypeInv'
  BY TypeStep DEF Consistent
<1>2. CASE UNCHANGED vars
  <2>1. \A o \in Sessions : TargetInv(o)' /\ FactsKept(o)' /\ SessionInv(o)'
    BY <1>2, FrameSession DEF Consistent, vars, tables, writes, sequences
  <2>2. OneVersionEach' /\ LocksExclusive' /\ SequenceAhead'
    BY <1>2 DEF Consistent, vars, tables, writes, sequences, OneVersionEach, OneVersion, CurrentIn,
                LocksExclusive, SequenceAhead
  <2> QED
    BY <1>1, <2>1, <2>2 DEF Consistent
<1>3. CASE Quiet
  BY <1>2, <1>3 DEF Quiet
<1>4. ASSUME NEW s \in Sessions, Abort(s) \/ DeadlockVictim(s) PROVE Consistent'
  <2>1. Fail(s) /\ UNCHANGED versionSeq /\ versionSeq \in Nat
    BY <1>4 DEF Abort, DeadlockVictim, Consistent, TypeInv, TypeOK
  <2> QED
    BY <1>1, <2>1, FailStep
<1>5. ASSUME NEW s \in Sessions, Receive(s) \/ Statement(s) PROVE Consistent'
  <2>1. CASE AddFirstVersion(s) \/ AddVersion(s)
    BY <1>1, <2>1, InsertVersionStep DEF AddFirstVersion, AddVersion
  <2>2. CASE \/ Receive(s) \/ RejectDimension(s) \/ SelectDimension(s) \/ UpdateDimension(s)
             \/ CheckDepartment(s) \/ Refresh(s)
    BY <1>1, <2>2, CalmActions
  <2>3. CASE \/ InsertDimension(s) \/ CheckJob(s) \/ Exists(s) \/ AddEmployee(s)
             \/ GetCurrent(s) \/ CloseSelect(s) \/ Commit(s)
    BY <1>1, <2>3, InsertDimensionStep, CheckJobStep, ExistsStep, AddEmployeeStep,
       GetCurrentStep, CloseSelectStep, CommitStep
  <2>4. CASE CloseUpdate(s)
    BY <1>1, <2>4, CloseUpdateStep
  <2>5. CASE UpdateCurrent(s)
    BY <1>1, <2>5, UpdateCurrentStep
  <2>6. CASE OutOfRangeLookUp(s)
    BY <1>4, <2>6, OutOfRangeIsAbort
  <2> QED
    BY <1>5, <2>1, <2>2, <2>3, <2>4, <2>5, <2>6 DEF Statement
<1> QED
  BY <1>2, <1>3, <1>4, <1>5 DEF Next

\* Only a commit changes the catalogs, employees and employee_versions.
LEMMA OnlyCommitPublishes ==
    ASSUME [Next]_vars
    PROVE  \/ \E s \in Sessions : Commit(s)
           \/ UNCHANGED << dimensions, employees, versions >>
<1> USE DEF tables, writes, sequences, Fail
<1>1. CASE UNCHANGED vars
  BY <1>1 DEF vars
<1>2. CASE Quiet
  BY <1>2 DEF Quiet, vars
<1>3. ASSUME NEW s \in Sessions, Receive(s) \/ Statement(s) \/ Abort(s) \/ DeadlockVictim(s)
      PROVE  Commit(s) \/ UNCHANGED << dimensions, employees, versions >>
  <2>1. CASE Receive(s) \/ Abort(s) \/ DeadlockVictim(s)
    BY <2>1 DEF Receive, Abort, DeadlockVictim
  <2>2. CASE RejectDimension(s) \/ SelectDimension(s) \/ InsertDimension(s) \/ UpdateDimension(s)
    BY <2>2 DEF RejectDimension, SelectDimension, InsertDimension, UpdateDimension
  <2>3. CASE CheckDepartment(s) \/ CheckJob(s) \/ Exists(s) \/ CloseSelect(s) \/ CloseUpdate(s)
             \/ Refresh(s)
    BY <2>3 DEF CheckDepartment, CheckJob, Exists, CloseSelect, CloseUpdate, Refresh
  <2>4. CASE AddEmployee(s) \/ GetCurrent(s)
    BY <2>4 DEF AddEmployee, GetCurrent
  <2>5. CASE AddFirstVersion(s) \/ AddVersion(s) \/ UpdateCurrent(s)
    BY <2>5 DEF AddFirstVersion, AddVersion, InsertVersion, UpdateCurrent
  <2> QED
    BY <1>3, <2>1, <2>2, <2>3, <2>4, <2>5, OutOfRangeIsAbort DEF Statement
<1> QED
  BY <1>1, <1>2, <1>3 DEF Next

LEMMA InvStep == IInv /\ [Next]_vars => IInv'
<1> SUFFICES ASSUME IInv, [Next]_vars PROVE IInv'
  OBVIOUS
<1>1. Consistent /\ Consistent' /\ TypeInv'
  BY ConsistentStep DEF IInv, Consistent
<1>2. ASSUME NEW f \in EmployeeIds PROVE InSync(employees, versions, f)'
  <2>1. InSync(employees, versions, f)
    BY DEF IInv, CurrentStateInSync
  <2>2. CASE UNCHANGED << employees, versions >>
    BY <2>1, <2>2 DEF InSync, CurrentIn
  <2>3. ASSUME NEW s \in Sessions, Commit(s) PROVE InSync(employees, versions, f)'
    BY <1>1, <2>1, <2>3, CommitSyncs, CommitKeepsSync
  <2> QED
    BY <2>2, <2>3, OnlyCommitPublishes
<1> QED
  BY <1>1, <1>2 DEF IInv, CurrentStateInSync

\* The inductive invariant holds however many handlers interleave.
THEOREM Invariance == Spec => []IInv
BY InvInit, InvStep, PTL DEF Spec

LEMMA ConsistentAlways == Spec => []Consistent
<1>1. IInv => Consistent
  BY DEF IInv
<1> QED
  BY <1>1, Invariance, PTL

\* Every variable keeps its type (models.py, the locals of ingest_batch.py).
THEOREM TypeCorrect == Spec => []TypeOK
<1>1. Consistent => TypeOK
  BY DEF Consistent, TypeInv
<1> QED
  BY <1>1, ConsistentAlways, PTL

\* However handlers interleave, abort and roll back, each committed employee has
\* exactly one current version, and the columns that employees keeps of it
\* agree with it (_persist_hire, close_current, update_current).
THEOREM InSyncAlways == Spec => []CurrentStateInSync
<1>1. IInv => CurrentStateInSync
  BY DEF IInv
<1> QED
  BY <1>1, Invariance, PTL

LEMMA HireFactsStep ==
    ASSUME Consistent, [Next]_vars
    PROVE  HireFactsKept
<1>1. CASE UNCHANGED << employees, versions >>
  BY <1>1 DEF HireFactsKept
<1>2. ASSUME NEW s \in Sessions, Commit(s) PROVE HireFactsKept
  <2>1. TypeInv'
    BY ConsistentStep DEF Consistent
  <2> QED
    BY <1>2, <2>1, CommitEffects DEF Consistent, FactsKept, HireFactsKept
<1> QED
  BY <1>1, <1>2, OnlyCommitPublishes

\* What an employee was hired as, and when, survives every step: update_current
\* keeps the hire columns of the row it saw, and no other session can have
\* inserted a different row of the same key in between (repositories.py).
THEOREM HireFactsAlwaysKept == Spec => HireFactsImmutable
<1>1. Consistent /\ [Next]_vars => [HireFactsKept]_vars
  BY HireFactsStep
<1> QED
  BY <1>1, ConsistentAlways, PTL DEF Spec, HireFactsImmutable

LEMMA HistoryStep ==
    ASSUME Consistent, [Next]_vars
    PROVE  HistoryKept
<1>0. TypeInv'
  BY ConsistentStep DEF Consistent
<1>1. CASE UNCHANGED << employees, versions >>
  BY <1>1 DEF HistoryKept
<1>2. ASSUME NEW s \in Sessions, Commit(s), NEW v \in VersionIds, versions[v] # NoRow
      PROVE  /\ versions'[v] # NoRow
             /\ versions'[v].employee_id = versions[v].employee_id
             /\ versions'[v].attributes = versions[v].attributes
             /\ versions'[v].valid_from = versions[v].valid_from
             /\ ~ versions[v].is_current => versions'[v] = versions[v]
  <2>1. CASE wVersions[s][v] = NoRow
    BY <1>2, <2>1, <1>0, CommitEffects DEF Consistent
  <2>2. CASE wVersions[s][v] # NoRow
    <3>1. /\ versions'[v] = wVersions[s][v]
          /\ wVersions[s][v].employee_id = versions[v].employee_id
          /\ wVersions[s][v].attributes = versions[v].attributes
          /\ wVersions[s][v].valid_from = versions[v].valid_from
      BY <1>2, <2>2, <1>0, CommitEffects DEF Consistent, FactsKept
    <3>2. wVersions[s][v].employee_id \in EmployeeIds
      BY <2>2 DEF Consistent, TypeInv, TypeOK, Version
    <3>3. versions[v].is_current
      BY <1>2, <2>2, <3>2, <1>0, CommitEffects DEF Consistent, Settled, Touches, ClosesOpen
    <3> QED
      BY <2>2, <3>1, <3>3
  <2> QED
    BY <2>1, <2>2
<1> QED
  BY <1>1, <1>2, OnlyCommitPublishes DEF HistoryKept

\* Committed history is only ever appended to: a commit publishes a closed
\* version only over the version that was current, although close_current
\* updates the row by its version_id whatever its state (repositories.py).
THEOREM HistoryAlwaysKept == Spec => HistoryAppendOnly
<1>1. Consistent /\ [Next]_vars => [HistoryKept]_vars
  BY HistoryStep
<1> QED
  BY <1>1, ConsistentAlways, PTL DEF Spec, HistoryAppendOnly
=============================================================================
