------------------------ MODULE BackupRestoreProofs ------------------------
(***************************************************************************)
(* What holds of backup, restore and reset for every number of handlers,   *)
(* every content of the tables and files and every upload: the tables keep *)
(* their keys, an answer tells what was committed, and a sequence falls    *)
(* behind its rows by the setval of a restore only.                        *)
(*                                                                         *)
(* The argument is about locks: what a transaction has written or read to  *)
(* write lies in tables whose rows no other session can change before it   *)
(* ends (Holding), because nobody holds a lock that conflicts with another *)
(* session's (LocksApart).                                                 *)
(***************************************************************************)
EXTENDS BackupRestore, TLAPS, FunctionTheorems, FiniteSetTheorems, WellFoundedInduction

(***************************************************************************)
(* The inductive invariant.                                                *)
(***************************************************************************)
\* The ids are numbers with a greatest one.
Numbered(rows) == \E top \in Nat : \A row \in rows : row.id \in Nat /\ row.id <= top

Content(t, rows) == Keyed(t, rows) /\ (t \in IdentityTables => Numbered(rows))

DatabaseOK ==
    /\ DOMAIN db = Tables /\ DOMAIN files = Tables
    /\ nextId \in [IdentityTables -> Nat \ {0}]
    /\ \A t \in Tables : Content(t, db[t])
    /\ \A t \in Tables : files[t] \notin {NoFile, Torn} => Content(t, files[t])

HandlersOK ==
    /\ DOMAIN work = Sessions /\ DOMAIN locks = Sessions /\ DOMAIN pc = Sessions
    /\ DOMAIN job = Sessions /\ answer \in [Sessions -> {"none", "200", "404", "500"}]

\* Nobody holds a lock that conflicts with a lock of somebody else.
LocksApart ==
    \A s, o \in Sessions :
        s # o => locks[s].exclusive \cap (locks[o].shared \cup locks[o].exclusive) = {}

\* The tables whose rows nobody but s can change: there is one ingestion.
Holding(s) == locks[s].exclusive \cup IF s = Ingester THEN locks[s].shared ELSE {}

RequestOK(s) ==
    /\ DOMAIN job[s] = {"op", "table", "rows", "step", "upload", "load_id", "errors",
                        "rejected", "committed"}
    /\ job[s].table \in Tables
    /\ job[s].step \in 1 .. 7
    /\ Content(job[s].table, job[s].rows)

\* An uncommitted row has an id that the sequence has left behind, or one that
\* is in the table anyway.
Drawn(t, rows) == \A row \in rows : row.id < nextId[t] \/ HasKey(db, t, row.id)

\* What s has written is well-formed and in tables that s holds.
TransactionOK(s) ==
    /\ DOMAIN locks[s] = {"shared", "exclusive"}
    /\ DOMAIN work[s] \subseteq Tables
    /\ \A t \in DOMAIN work[s] :
          /\ t \in Holding(s)
          /\ Content(t, work[s][t])
          /\ t \in IdentityTables => Drawn(t, work[s][t])

AdminSteps ==
    {"idle", "backup_select", "backup_open", "backup_close", "restore_read", "restore_truncate",
     "restore_insert", "restore_commit", "reset_truncate", "reset_refresh", "reset_commit"}
LoadingSteps == {"ingest_upsert", "ingest_check", "ingest_reject", "ingest_persist", "ingest_commit"}
RefreshSteps == {"refresh_hires", "refresh_average"}
IngestSteps == {"idle", "ingest_create"} \cup LoadingSteps \cup RefreshSteps

\* What the next statement of a restore rests on.
RestoreOK(s) ==
    LET t == job[s].table
    IN  /\ pc[s] = "restore_insert" => t \in locks[s].exclusive /\ Seen(s)[t] = {}
        /\ pc[s] = "restore_commit" /\ t \in IdentityTables =>
             /\ t \in locks[s].exclusive
             /\ \A row \in Seen(s)[t] : row.id < nextId[t]

\* What the next statement of an ingestion rests on.
IngestOK(s) ==
    /\ pc[s] \in LoadingSteps =>
         /\ "loads" \in locks[s].shared
         /\ job[s].load_id \in Nat /\ job[s].load_id < nextId["loads"]
    /\ pc[s] \in {"ingest_upsert", "ingest_check", "ingest_persist"} => DOMAIN work[s] \subseteq {"loads"}
    /\ pc[s] = "ingest_create" =>
         job[s].upload.target \in {"departments", "jobs", "hired_employees"}
    /\ pc[s] = "ingest_upsert" => job[s].upload.target \in {"departments", "jobs"}

PlaceOK(s) ==
    /\ s \in Admins => pc[s] \in AdminSteps
    /\ s = Ingester => pc[s] \in IngestSteps
    /\ pc[s] = "reset_truncate" => job[s].step <= 6

ReplyOK(s) ==
    /\ pc[s] # "idle" => answer[s] = "none"
    /\ job[s].committed => pc[s] \in {"idle"} \cup RefreshSteps
    /\ pc[s] \in {"backup_select", "backup_open", "backup_close"} => job[s].op = "backup"
    /\ answer[s] \in {"404", "500"} => ~ job[s].committed
    /\ answer[s] = "200" /\ job[s].op # "backup" => job[s].committed

SessionOK(s) ==
    RequestOK(s) /\ TransactionOK(s) /\ RestoreOK(s) /\ IngestOK(s) /\ PlaceOK(s) /\ ReplyOK(s)

BInv == DatabaseOK /\ HandlersOK /\ LocksApart /\ \A s \in Sessions : SessionOK(s)

-----------------------------------------------------------------------------
(***************************************************************************)
(* Finite sets of numbers.                                                 *)
(***************************************************************************)
Smaller == {ss \in Nat \X Nat : ss[1] < ss[2]}

LEMMA LeastNumber ==
    ASSUME NEW S, S \subseteq Nat, S # {}
    PROVE  \E m \in S : \A k \in S : m <= k
<1>1. IsWellFoundedOn(Smaller, Nat)
  BY NatLessThanWellFounded, Zenon DEF OpToRel, Smaller
<1>2. PICK m \in S : \A k \in S : ~ (<< k, m >> \in Smaller)
  BY <1>1, WFMin, Zenon
<1>3. ASSUME NEW k \in S PROVE m <= k
  <2>1. k \in Nat /\ m \in Nat
    OBVIOUS
  <2>2. ~ (<< k, m >> \in Smaller)
    BY <1>2
  <2>3. k < m => << k, m >> \in Smaller
    BY <2>1 DEF Smaller
  <2> QED
    BY <2>1, <2>2, <2>3
<1> QED
  BY <1>3

\* By the least k such that the first k elements have no bound.
LEMMA FiniteBounded ==
    ASSUME NEW S, IsFiniteSet(S), S \subseteq Nat
    PROVE  \E b \in Nat : \A n \in S : n <= b
<1>1. PICK c \in Nat : ExistsSurjection(1 .. c, S)
  BY FS_NatSurjection
<1>2. PICK f \in [1 .. c -> S] : \A n \in S : \E i \in 1 .. c : f[i] = n
  BY <1>1 DEF ExistsSurjection, Surjection
<1> DEFINE Bounds(k) == {b \in Nat : \A i \in 1 .. k : f[i] <= b}
           Unbounded == {k \in 0 .. c : Bounds(k) = {}}
<1>3. \A i \in 1 .. c : f[i] \in Nat
  BY <1>2
<1>4. ASSUME Unbounded # {} PROVE FALSE
  <2>1. Unbounded \subseteq Nat
    OBVIOUS
  <2>2. \E k \in Unbounded : \A l \in Unbounded : k <= l
    <3> HIDE DEF Unbounded
    <3> QED
      BY <1>4, <2>1, LeastNumber
  <2>3. PICK k \in Unbounded : \A l \in Unbounded : k <= l
    BY <2>2
  <2>4. k \in 0 .. c /\ Bounds(k) = {}
    OBVIOUS
  <2>5. k # 0
    <3>1. 0 \in Bounds(0)
      OBVIOUS
    <3> QED
      BY <3>1, <2>4
  <2>6. k - 1 \in 0 .. c /\ k - 1 \in Nat /\ ~ (k <= k - 1) /\ k \in 1 .. c
    BY <2>4, <2>5
  <2>7. k - 1 \notin Unbounded
    BY <2>3, <2>6
  <2>8. Bounds(k - 1) # {}
    BY <2>6, <2>7
  <2>9. PICK b \in Bounds(k - 1) : TRUE
    BY <2>8
  <2>10. PICK a \in Nat : a >= b /\ a >= f[k]
    BY <1>3, <2>6
  <2>11. ASSUME NEW i \in 1 .. k PROVE f[i] <= a
    <3>1. f[i] \in Nat
      BY <1>3, <2>6
    <3>2. CASE i = k
      BY <3>2, <2>10, <3>1
    <3>3. CASE i # k
      <4>1. i \in 1 .. k - 1
        BY <3>3, <2>6
      <4>2. f[i] <= b
        BY <4>1, <2>9
      <4> QED
        BY <4>2, <2>10, <3>1
    <3> QED
      BY <3>2, <3>3
  <2>12. a \in Bounds(k)
    BY <2>10, <2>11
  <2> QED
    BY <2>12, <2>4
<1>5. c \notin Unbounded
  <2> HIDE DEF Unbounded
  <2> QED
    BY <1>4
<1>6. PICK b \in Bounds(c) : TRUE
  BY <1>5
<1> QED
  BY <1>2, <1>6

\* The row that setval asks for is there.
LEMMA GreatestId ==
    ASSUME NEW rows, Numbered(rows), rows # {}
    PROVE  \E r \in rows : \A q \in rows : q.id <= r.id
<1> DEFINE Tops == {n \in Nat : \A row \in rows : row.id <= n}
<1>1. Tops # {}
  BY DEF Numbered
<1>2. \A row \in rows : row.id \in Nat
  BY DEF Numbered
<1>3. PICK n \in Tops : \A m \in Tops : n <= m
  BY <1>1, LeastNumber
<1>4. \E r \in rows : r.id = n
  <2>1. SUFFICES ASSUME \A r \in rows : r.id # n PROVE FALSE
    OBVIOUS
  <2>2. \A r \in rows : r.id < n
    BY <1>2, <2>1
  <2>3. n - 1 \in Nat
    BY <2>2, <1>2
  <2>4. \A r \in rows : r.id <= n - 1
    BY <2>2, <1>2
  <2>5. n - 1 \in Tops
    BY <2>3, <2>4
  <2> QED
    BY <2>5, <1>3
<1> QED
  BY <1>4

LEMMA FiniteNumbered ==
    ASSUME NEW rows, IsFiniteSet(rows), \A row \in rows : row.id \in Nat
    PROVE  Numbered(rows)
<1> DEFINE ids == {row.id : row \in rows}
           idOf == [row \in rows |-> row.id]
<1>1. IsFiniteSet(ids)
  <2>1. idOf \in Surjection(rows, ids)
    BY DEF Surjection
  <2> QED
    BY <2>1, FS_Surjection
<1>2. ids \subseteq Nat
  OBVIOUS
<1>3. PICK b \in Nat : \A n \in ids : n <= b
  BY <1>1, <1>2, FiniteBounded
<1> QED
  BY <1>3 DEF Numbered

LEMMA NumberedPart ==
    ASSUME NEW rows, Numbered(rows), NEW part,
           \A p \in part : \E row \in rows : p.id = row.id
    PROVE  Numbered(part)
BY DEF Numbered

LEMMA NumberedAnd ==
    ASSUME NEW rows, Numbered(rows), NEW row, row.id \in Nat
    PROVE  Numbered(rows \cup {row})
<1>1. PICK top \in Nat : \A r \in rows : r.id \in Nat /\ r.id <= top
  BY DEF Numbered
<1>2. PICK b \in Nat : b >= top /\ b >= row.id
  OBVIOUS
<1>3. \A r \in rows \cup {row} : r.id \in Nat /\ r.id <= b
  BY <1>1, <1>2
<1> QED
  BY <1>3 DEF Numbered

-----------------------------------------------------------------------------
(***************************************************************************)
(* The content of a table stays well-formed.                               *)
(***************************************************************************)
LEMMA NoRowsContent == ASSUME NEW t PROVE Content(t, {})
BY DEF Content, Keyed, Numbered

LEMMA PartContent ==
    ASSUME NEW t, NEW rows, Content(t, rows), NEW part \in SUBSET rows
    PROVE  Content(t, part)
BY NumberedPart DEF Content, Keyed

LEMMA InsertContent ==
    ASSUME NEW t, NEW rows, Content(t, rows), NEW row, KeyedRow(t, row),
           \A other \in rows : other.id # row.id,
           t \in IdentityTables => row.id \in Nat
    PROVE  Content(t, rows \cup {row})
<1>1. Keyed(t, rows \cup {row})
  BY DEF Content, Keyed
<1> QED
  BY <1>1, NumberedAnd DEF Content

\* An UPDATE of any columns but the key.
LEMMA UpdateContent ==
    ASSUME NEW t \in Tables, NEW rows, Content(t, rows), NEW F, DOMAIN F = rows,
           \A row \in rows : DOMAIN F[row] = DOMAIN row /\ F[row].id = row.id
    PROVE  Content(t, {F[row] : row \in rows})
<1> DEFINE new == {F[row] : row \in rows}
<1>1. \A row \in rows : KeyedRow(t, F[row])
  BY DEF Content, Keyed, KeyedRow
<1>2. ASSUME NEW row \in rows, NEW other \in rows, F[row].id = F[other].id
      PROVE  F[row] = F[other]
  BY <1>2 DEF Content, Keyed
<1>3. Keyed(t, new)
  BY <1>1, <1>2 DEF Keyed
<1>4. t \in IdentityTables => Numbered(new)
  <2>1. \A n \in new : \E row \in rows : n.id = row.id
    OBVIOUS
  <2> QED
    BY <2>1, NumberedPart DEF Content
<1> QED
  BY <1>3, <1>4 DEF Content

LEMMA TableSet ==
    /\ Tables = {"departments", "jobs", "employees", "employee_versions", "loads",
                 "rejected_records"}
    /\ Len(TableNames) = 6
    /\ \A i \in 1 .. 6 : TableNames[i] \in Tables
    /\ IdentityTables \subseteq Tables
<1>1. Len(TableNames) = 6
  BY DEF TableNames
<1>2. Tables = {TableNames[1], TableNames[2], TableNames[3], TableNames[4], TableNames[5],
                TableNames[6]}
  BY <1>1 DEF Tables
<1>3. Tables = {"departments", "jobs", "employees", "employee_versions", "loads",
                "rejected_records"}
  BY <1>2 DEF TableNames
<1>4. IdentityTables \subseteq Tables
  BY <1>3 DEF IdentityTables
<1> QED
  BY <1>1, <1>3, <1>4 DEF Tables

LEMMA FileContent ==
    ASSUME NEW t \in Tables, NEW rows, Content(t, rows), NEW now
    PROVE  Content(t, FromAvro(t, rows, now)) /\ Content(t, ToAvro(t, rows))
<1>1. CASE t # "employees"
  BY <1>1 DEF FromAvro, ToAvro
<1>2. CASE t = "employees"
  <2> DEFINE From == [e \in rows |-> [e EXCEPT !.first_loaded_at = now]]
             To == [e \in rows |-> [e EXCEPT !.first_loaded_at = Millis(@)]]
  <2>1. \A e \in rows : DOMAIN e = {"id", "hired_as", "current", "first_loaded_at"}
    BY <1>2 DEF Content, Keyed, KeyedRow
  <2>2. DOMAIN From = rows /\ \A e \in rows : DOMAIN From[e] = DOMAIN e /\ From[e].id = e.id
    BY <2>1
  <2>3. DOMAIN To = rows /\ \A e \in rows : DOMAIN To[e] = DOMAIN e /\ To[e].id = e.id
    BY <2>1
  <2>4. FromAvro(t, rows, now) = {From[e] : e \in rows} /\ ToAvro(t, rows) = {To[e] : e \in rows}
    BY <1>2 DEF FromAvro, ToAvro
  <2> HIDE DEF From, To
  <2> QED
    BY <2>2, <2>3, <2>4, UpdateContent
<1> QED
  BY <1>1, <1>2

\* Only employees are changed on the way through a file.
LEMMA SameIds ==
    ASSUME NEW t \in IdentityTables, NEW rows, NEW now
    PROVE  FromAvro(t, rows, now) = rows
BY DEF FromAvro, IdentityTables

-----------------------------------------------------------------------------
(***************************************************************************)
(* What the sessions hold apart from one another.                          *)
(***************************************************************************)
LEMMA HoldingApart ==
    ASSUME LocksApart, NEW s \in Sessions, NEW o \in Sessions, s # o, NEW t \in Holding(s)
    PROVE  t \notin Holding(o)
<1>1. locks[s].exclusive \cap (locks[o].shared \cup locks[o].exclusive) = {}
  BY DEF LocksApart
<1>2. locks[o].exclusive \cap (locks[s].shared \cup locks[s].exclusive) = {}
  BY DEF LocksApart
<1> QED
  BY <1>1, <1>2 DEF Holding

\* The statement takes its locks beside those of the others.
LEMMA AcquireLocks ==
    ASSUME HandlersOK, LocksApart, NEW s \in Sessions, TransactionOK(s), Acquire(s)
    PROVE  /\ LocksApart'
           /\ DOMAIN locks' = Sessions
           /\ \A o \in Sessions \ {s} : locks'[o] = locks[o]
           /\ DOMAIN locks'[s] = {"shared", "exclusive"}
           /\ locks'[s].shared = locks[s].shared \cup NextLocks(s).shared
           /\ locks'[s].exclusive = locks[s].exclusive \cup NextLocks(s).exclusive
           /\ Holding(s) \subseteq Holding(s)'
<1>1. /\ DOMAIN locks' = Sessions
      /\ \A o \in Sessions \ {s} : locks'[o] = locks[o]
      /\ DOMAIN locks'[s] = {"shared", "exclusive"}
      /\ locks'[s].shared = locks[s].shared \cup NextLocks(s).shared
      /\ locks'[s].exclusive = locks[s].exclusive \cup NextLocks(s).exclusive
  BY DEF HandlersOK, TransactionOK, Acquire
<1>2. ASSUME NEW o \in Sessions \ {s}
      PROVE  /\ locks[o].exclusive \cap (NextLocks(s).shared \cup NextLocks(s).exclusive) = {}
             /\ locks[o].shared \cap NextLocks(s).exclusive = {}
  BY DEF Acquire, WaitsFor
<1>3. ASSUME NEW p \in Sessions, NEW o \in Sessions, p # o
      PROVE  locks'[p].exclusive \cap (locks'[o].shared \cup locks'[o].exclusive) = {}
  <2>1. locks[p].exclusive \cap (locks[o].shared \cup locks[o].exclusive) = {}
    BY <1>3 DEF LocksApart
  <2>2. CASE p # s /\ o # s
    BY <2>1, <2>2, <1>1
  <2>3. CASE p = s
    BY <2>1, <2>3, <1>1, <1>2, <1>3
  <2>4. CASE o = s
    BY <2>1, <2>4, <1>1, <1>2, <1>3
  <2> QED
    BY <2>2, <2>3, <2>4
<1>4. LocksApart'
  BY <1>3 DEF LocksApart
<1> QED
  BY <1>1, <1>4 DEF Holding

\* The step of s leaves to the others what is theirs, and the rows and the
\* sequences of the tables that s does not hold.
KeepsOthers(s) ==
    /\ \A o \in Sessions \ {s} :
         /\ work'[o] = work[o] /\ locks'[o] = locks[o] /\ pc'[o] = pc[o]
         /\ job'[o] = job[o] /\ answer'[o] = answer[o]
    /\ \A t \in Tables : t \notin Holding(s) =>
         /\ db'[t] = db[t]
         /\ t \in IdentityTables => nextId'[t] >= nextId[t]

\* What is shown of every step of s.
StepOK(s) == DatabaseOK' /\ HandlersOK' /\ LocksApart' /\ KeepsOthers(s) /\ SessionOK(s)'

LEMMA KeptSession ==
    ASSUME BInv, NEW s \in Sessions, NEW o \in Sessions, s # o, KeepsOthers(s), DatabaseOK'
    PROVE  SessionOK(o)'
<1> USE TableSet
<1>1. /\ work'[o] = work[o] /\ locks'[o] = locks[o] /\ pc'[o] = pc[o]
      /\ job'[o] = job[o] /\ answer'[o] = answer[o]
  BY DEF KeepsOthers
<1>2. Holding(o)' = Holding(o)
  BY <1>1 DEF Holding
<1>3. ASSUME NEW t \in Holding(o), t \in Tables
      PROVE  db'[t] = db[t] /\ (t \in IdentityTables => nextId'[t] >= nextId[t])
  BY <1>3, HoldingApart DEF KeepsOthers, BInv
<1>4. SessionOK(o) /\ DatabaseOK
  BY DEF BInv
<1>5. \A t \in IdentityTables : nextId[t] \in Nat /\ nextId'[t] \in Nat
  BY <1>4 DEF DatabaseOK
<1>6. RequestOK(o)'
  BY <1>1, <1>4 DEF SessionOK, RequestOK
<1>7. TransactionOK(o)'
  <2>1. ASSUME NEW t \in DOMAIN work[o], t \in IdentityTables
        PROVE  Drawn(t, work[o][t])'
    <3>1. Drawn(t, work[o][t]) /\ t \in Holding(o) /\ t \in Tables /\ Content(t, work[o][t])
      BY <1>4, <2>1 DEF SessionOK, TransactionOK
    <3>2. db'[t] = db[t] /\ nextId'[t] >= nextId[t]
      BY <3>1, <1>3, <2>1
    <3>3. \A row \in work[o][t] : row.id \in Nat
      BY <3>1, <2>1 DEF Content, Numbered
    <3> QED
      BY <3>1, <3>2, <3>3, <1>1, <1>5, <2>1 DEF Drawn, HasKey
  <2> QED
    BY <2>1, <1>1, <1>2, <1>4 DEF SessionOK, TransactionOK
<1>8. RestoreOK(o)'
  <2> DEFINE t == job[o].table
  <2>1. t \in Tables /\ RestoreOK(o)
    BY <1>4 DEF SessionOK, RequestOK
  <2>2. ASSUME t \in locks[o].exclusive
        PROVE  Seen(o)'[t] = Seen(o)[t] /\ (t \in IdentityTables => nextId'[t] >= nextId[t])
    BY <1>1, <1>3, <2>1, <2>2 DEF Holding, Seen
  <2>3. ASSUME pc'[o] = "restore_insert" PROVE t \in locks'[o].exclusive /\ Seen(o)'[t] = {}
    BY <1>1, <2>1, <2>2, <2>3 DEF RestoreOK
  <2>4. ASSUME pc'[o] = "restore_commit", t \in IdentityTables
        PROVE  t \in locks'[o].exclusive /\ \A row \in Seen(o)'[t] : row.id < nextId'[t]
    <3>1. t \in locks[o].exclusive /\ \A row \in Seen(o)[t] : row.id < nextId[t]
      BY <1>1, <2>1, <2>4 DEF RestoreOK
    <3>2. Content(t, Seen(o)[t])
      BY <2>1, <1>4 DEF Seen, DatabaseOK, SessionOK, TransactionOK
    <3>3. \A row \in Seen(o)[t] : row.id \in Nat
      BY <3>2, <2>4 DEF Content, Numbered
    <3>4. Seen(o)'[t] = Seen(o)[t] /\ nextId'[t] >= nextId[t]
      BY <2>2, <2>4, <3>1
    <3>5. ASSUME NEW row \in Seen(o)'[t] PROVE row.id < nextId'[t]
      <4>1. row \in Seen(o)[t]
        BY <3>4
      <4>2. row.id \in Nat /\ row.id < nextId[t]
        BY <4>1, <3>1, <3>3
      <4>3. nextId[t] \in Nat /\ nextId'[t] \in Nat
        BY <1>5, <2>4
      <4> HIDE DEF t
      <4> QED
        BY <4>2, <4>3, <3>4
    <3> QED
      BY <1>1, <3>1, <3>5
  <2> QED
    BY <1>1, <2>3, <2>4 DEF RestoreOK
<1>9. IngestOK(o)'
  <2>1. ASSUME pc[o] \in LoadingSteps
        PROVE  job[o].load_id < nextId'["loads"]
    <3>1. /\ "loads" \in locks[o].shared /\ job[o].load_id \in Nat
          /\ job[o].load_id < nextId["loads"]
      BY <1>4, <2>1 DEF SessionOK, IngestOK
    <3>2. o = Ingester
      BY <1>4, <2>1, SessionsAssumption
      DEF SessionOK, PlaceOK, Sessions, AdminSteps, LoadingSteps
    <3>3. nextId'["loads"] >= nextId["loads"]
      BY <3>1, <3>2, <1>3 DEF Holding, IdentityTables
    <3> QED
      BY <3>1, <3>3, <1>5 DEF IdentityTables
  <2> QED
    BY <1>1, <1>4, <2>1 DEF SessionOK, IngestOK
<1>10. PlaceOK(o)' /\ ReplyOK(o)'
  BY <1>1, <1>4 DEF SessionOK, PlaceOK, ReplyOK
<1> QED
  BY <1>6, <1>7, <1>8, <1>9, <1>10 DEF SessionOK

LEMMA StepKeepsInv ==
    ASSUME BInv, NEW s \in Sessions, StepOK(s)
    PROVE  BInv'
<1>1. \A o \in Sessions : SessionOK(o)'
  BY KeptSession DEF StepOK
<1> QED
  BY <1>1 DEF StepOK, BInv

-----------------------------------------------------------------------------
(***************************************************************************)
(* Reading, writing and answering.                                         *)
(***************************************************************************)
\* What s sees of a table is well-formed, and different from the table only
\* where s holds it.
LEMMA SeenTable ==
    ASSUME BInv, NEW s \in Sessions, NEW t \in Tables
    PROVE  /\ Content(t, Seen(s)[t])
           /\ t \in IdentityTables => Drawn(t, Seen(s)[t])
           /\ Seen(s)[t] # db[t] => t \in Holding(s)
<1>1. SessionOK(s) /\ DatabaseOK
  BY DEF BInv
<1>2. Drawn(t, db[t])
  BY DEF Drawn, HasKey
<1>3. CASE t \in DOMAIN work[s]
  <2>1. Seen(s)[t] = work[s][t]
    BY <1>3 DEF Seen
  <2> QED
    BY <2>1, <1>1, <1>3 DEF SessionOK, TransactionOK
<1>4. CASE t \notin DOMAIN work[s]
  <2>1. Seen(s)[t] = db[t]
    BY <1>4 DEF Seen
  <2> QED
    BY <2>1, <1>1, <1>2 DEF DatabaseOK
<1> QED
  BY <1>3, <1>4

LEMMA WriteTransaction ==
    ASSUME HandlersOK, NEW s \in Sessions, NEW d, Write(s, d), db' = db,
           DOMAIN locks'[s] = {"shared", "exclusive"},
           \A t \in Tables : d[t] # db[t] =>
             /\ t \in Holding(s)' /\ Content(t, d[t])
             /\ t \in IdentityTables =>
                  \A row \in d[t] : row.id < nextId'[t] \/ HasKey(db, t, row.id)
    PROVE  /\ DOMAIN work' = Sessions /\ \A o \in Sessions \ {s} : work'[o] = work[o]
           /\ DOMAIN work'[s] = {t \in Tables : d[t] # db[t]}
           /\ TransactionOK(s)'
           /\ \A t \in Tables : Seen(s)'[t] = d[t]
<1>1. /\ DOMAIN work' = Sessions /\ \A o \in Sessions \ {s} : work'[o] = work[o]
      /\ work'[s] = [t \in {u \in Tables : d[u] # db[u]} |-> d[t]]
  BY DEF HandlersOK, Write
<1>2. ASSUME NEW t \in DOMAIN work'[s]
      PROVE  /\ t \in Holding(s)' /\ Content(t, work'[s][t])
             /\ t \in IdentityTables => Drawn(t, work[s][t])'
  <2>1. t \in Tables /\ d[t] # db[t] /\ work'[s][t] = d[t]
    BY <1>1
  <2> QED
    BY <2>1 DEF Drawn, HasKey
<1>3. TransactionOK(s)'
  BY <1>1, <1>2 DEF TransactionOK
<1>4. \A t \in Tables : Seen(s)'[t] = d[t]
  BY <1>1 DEF Seen
<1> QED
  BY <1>1, <1>3, <1>4

LEMMA SameDatabase ==
    ASSUME BInv, UNCHANGED << db, files >>, nextId' \in [IdentityTables -> Nat \ {0}]
    PROVE  DatabaseOK'
BY DEF BInv, DatabaseOK

LEMMA NextDrawn ==
    ASSUME BInv, NEW t \in IdentityTables, nextId' = [nextId EXCEPT ![t] = @ + 1]
    PROVE  /\ nextId' \in [IdentityTables -> Nat \ {0}]
           /\ \A u \in IdentityTables : nextId'[u] >= nextId[u]
           /\ nextId[t] \in Nat /\ nextId'[t] = nextId[t] + 1
BY DEF BInv, DatabaseOK

LEMMA SameSequences ==
    ASSUME BInv, UNCHANGED nextId
    PROVE  /\ nextId' \in [IdentityTables -> Nat \ {0}]
           /\ \A u \in IdentityTables : nextId'[u] >= nextId[u]
BY DEF BInv, DatabaseOK

LEMMA AnswerStep ==
    ASSUME BInv, NEW s \in Sessions, NEW status \in {"200", "404", "500"}, NEW committed,
           Answer(s, status, committed), DatabaseOK',
           \A t \in Tables : t \notin Holding(s) =>
                /\ db'[t] = db[t]
                /\ t \in IdentityTables => nextId'[t] >= nextId[t],
           status \in {"404", "500"} => ~ committed,
           status = "200" /\ job[s].op # "backup" => committed
    PROVE  StepOK(s)
<1> USE TableSet
<1>1. HandlersOK /\ LocksApart
  BY DEF BInv
<1>2. /\ work' = [work EXCEPT ![s] = NoWrites] /\ locks' = [locks EXCEPT ![s] = NoLocks]
      /\ pc' = [pc EXCEPT ![s] = "idle"] /\ answer' = [answer EXCEPT ![s] = status]
      /\ job' = [job EXCEPT ![s] = [NoJob EXCEPT !.op = job[s].op, !.committed = committed]]
  BY DEF Answer, EndTransaction, Goto
<1>3. /\ work'[s] = NoWrites /\ locks'[s] = NoLocks /\ pc'[s] = "idle" /\ answer'[s] = status
      /\ job'[s] = [NoJob EXCEPT !.op = job[s].op, !.committed = committed]
  BY <1>1, <1>2 DEF HandlersOK
<1>4. HandlersOK'
  BY <1>1, <1>2 DEF HandlersOK
<1>5. KeepsOthers(s)
  BY <1>1, <1>2 DEF HandlersOK, KeepsOthers
<1>6. LocksApart'
  <2>1. ASSUME NEW p \in Sessions, NEW o \in Sessions, p # o
        PROVE  locks'[p].exclusive \cap (locks'[o].shared \cup locks'[o].exclusive) = {}
    <3>1. CASE p = s
      BY <3>1, <1>3 DEF NoLocks
    <3>2. CASE o = s
      BY <3>2, <1>3 DEF NoLocks
    <3>3. CASE p # s /\ o # s
      BY <3>3, <2>1, <1>1, <1>5 DEF LocksApart, KeepsOthers
    <3> QED
      BY <3>1, <3>2, <3>3
  <2> QED
    BY <2>1 DEF LocksApart
<1>7. /\ DOMAIN job'[s] = {"op", "table", "rows", "step", "upload", "load_id", "errors",
                           "rejected", "committed"}
      /\ job'[s].table = "departments" /\ job'[s].step = 1 /\ job'[s].rows = {}
      /\ job'[s].op = job[s].op /\ job'[s].committed = committed
  BY <1>3 DEF NoJob
<1>8. RequestOK(s)'
  BY <1>7, NoRowsContent DEF RequestOK
<1>9. TransactionOK(s)'
  BY <1>3 DEF TransactionOK, NoWrites, NoLocks
<1>10. RestoreOK(s)' /\ IngestOK(s)' /\ PlaceOK(s)'
  BY <1>3 DEF RestoreOK, IngestOK, PlaceOK, LoadingSteps, AdminSteps, IngestSteps
<1>11. ReplyOK(s)'
  BY <1>3, <1>7 DEF ReplyOK
<1> QED
  BY <1>4, <1>5, <1>6, <1>8, <1>9, <1>10, <1>11 DEF StepOK, SessionOK

LEMMA FailStep ==
    ASSUME BInv, NEW s \in Sessions, Fail(s), pc[s] \notin {"idle"} \cup RefreshSteps,
           nextId' \in [IdentityTables -> Nat \ {0}],
           \A t \in IdentityTables : nextId'[t] >= nextId[t]
    PROVE  StepOK(s)
<1>1. ~ job[s].committed
  BY DEF BInv, SessionOK, ReplyOK
<1>2. DatabaseOK'
  BY SameDatabase DEF Fail
<1> QED
  BY <1>1, <1>2, AnswerStep DEF Fail

LEMMA RefreshEnds ==
    ASSUME BInv, NEW s \in Sessions, Answer(s, "200", TRUE), UNCHANGED << db, files, nextId >>
    PROVE  StepOK(s)
BY SameSequences, SameDatabase, AnswerStep

-----------------------------------------------------------------------------
(***************************************************************************)
(* The steps, one by one.                                                  *)
(***************************************************************************)
LEMMA PostSteps ==
    ASSUME BInv, NEW s \in Sessions, Post(s)
    PROVE  StepOK(s)
<1> USE TableSet
<1>1. HandlersOK /\ LocksApart /\ SessionOK(s)
  BY DEF BInv
<1>2. /\ UNCHANGED << db, files, nextId, work, locks >>
      /\ answer' = [answer EXCEPT ![s] = "none"]
  BY DEF Post, PostBackup, PostRestore, PostReset, PostUpload
<1> DEFINE Fit(new, label) ==
             /\ DOMAIN new = {"op", "table", "rows", "step", "upload", "load_id", "errors",
                              "rejected", "committed"}
             /\ new.table \in Tables /\ new.step = 1 /\ new.rows = {} /\ new.committed = FALSE
             /\ label = "backup_select" => new.op = "backup"
             /\ label = "ingest_create" => new.upload \in Uploads
             /\ label \in {"backup_select", "restore_read", "reset_truncate", "ingest_create"}
             /\ s \in Admins => label # "ingest_create"
             /\ s = Ingester => label = "ingest_create"
<1>3. PICK new, label : /\ job' = [job EXCEPT ![s] = new] /\ pc' = [pc EXCEPT ![s] = label]
                        /\ Fit(new, label)
  <2>1. CASE s \in Admins /\ PostBackup(s)
    <3>1. PICK t \in Tables :
            job' = [job EXCEPT ![s] = [NoJob EXCEPT !.op = "backup", !.table = t]]
      BY <2>1 DEF PostBackup
    <3>2. s \in Admins /\ pc' = [pc EXCEPT ![s] = "backup_select"]
      BY <2>1 DEF PostBackup, Goto
    <3>3. Fit([NoJob EXCEPT !.op = "backup", !.table = t], "backup_select")
      BY <3>2, SessionsAssumption DEF NoJob
    <3> HIDE DEF Fit
    <3> QED
      BY <3>1, <3>2, <3>3
  <2>2. CASE s \in Admins /\ PostRestore(s)
    <3>1. PICK t \in Tables :
            job' = [job EXCEPT ![s] = [NoJob EXCEPT !.op = "restore", !.table = t]]
      BY <2>2 DEF PostRestore
    <3>2. s \in Admins /\ pc' = [pc EXCEPT ![s] = "restore_read"]
      BY <2>2 DEF PostRestore, Goto
    <3>3. Fit([NoJob EXCEPT !.op = "restore", !.table = t], "restore_read")
      BY <3>2, SessionsAssumption DEF NoJob
    <3> HIDE DEF Fit
    <3> QED
      BY <3>1, <3>2, <3>3
  <2>3. CASE s \in Admins /\ PostReset(s)
    <3>1. /\ job' = [job EXCEPT ![s] = [NoJob EXCEPT !.op = "reset"]]
          /\ pc' = [pc EXCEPT ![s] = "reset_truncate"]
      BY <2>3 DEF PostReset, Goto
    <3>2. Fit([NoJob EXCEPT !.op = "reset"], "reset_truncate")
      BY <2>3, SessionsAssumption DEF NoJob
    <3> HIDE DEF Fit
    <3> QED
      BY <3>1, <3>2
  <2>4. CASE PostUpload(s)
    <3>1. PICK u \in Uploads :
            job' = [job EXCEPT ![s] = [NoJob EXCEPT !.op = "ingest", !.upload = u]]
      BY <2>4 DEF PostUpload
    <3>2. s = Ingester /\ pc' = [pc EXCEPT ![s] = "ingest_create"]
      BY <2>4 DEF PostUpload, Goto
    <3>3. Fit([NoJob EXCEPT !.op = "ingest", !.upload = u], "ingest_create")
      BY <3>2, SessionsAssumption DEF NoJob
    <3> HIDE DEF Fit
    <3> QED
      BY <3>1, <3>2, <3>3
  <2> QED
    BY <2>1, <2>2, <2>3, <2>4 DEF Post
<1>4. /\ DOMAIN new = {"op", "table", "rows", "step", "upload", "load_id", "errors",
                       "rejected", "committed"}
      /\ new.table \in Tables /\ new.step = 1 /\ new.rows = {} /\ new.committed = FALSE
      /\ label = "backup_select" => new.op = "backup"
      /\ label = "ingest_create" => new.upload \in Uploads
  BY <1>3
<1>5. /\ label \in {"backup_select", "restore_read", "reset_truncate", "ingest_create"}
      /\ s \in Admins => label # "ingest_create"
      /\ s = Ingester => label = "ingest_create"
  BY <1>3
<1> HIDE DEF Fit
<1>6. HandlersOK'
  BY <1>1, <1>2, <1>3 DEF HandlersOK
<1>7. job'[s] = new /\ pc'[s] = label /\ answer'[s] = "none"
  BY <1>1, <1>2, <1>3 DEF HandlersOK
<1>8. LocksApart'
  BY <1>1, <1>2 DEF LocksApart
<1>9. KeepsOthers(s)
  BY <1>1, <1>2, <1>3, SameSequences DEF HandlersOK, KeepsOthers
<1>10. DatabaseOK'
  BY <1>2, SameSequences, SameDatabase
<1>11. RequestOK(s)'
  BY <1>4, <1>7, NoRowsContent DEF RequestOK
<1>12. TransactionOK(s)'
  BY <1>1, <1>2 DEF SessionOK, TransactionOK, Holding, Drawn, HasKey
<1>13. RestoreOK(s)' /\ PlaceOK(s)' /\ ReplyOK(s)'
  BY <1>4, <1>5, <1>7 DEF RestoreOK, PlaceOK, ReplyOK, AdminSteps, IngestSteps
<1>14. IngestOK(s)'
  BY <1>4, <1>5, <1>7, UploadsAssumption DEF IngestOK, LoadingSteps
<1> QED
  BY <1>6, <1>8, <1>9, <1>10, <1>11, <1>12, <1>13, <1>14 DEF StepOK, SessionOK

LEMMA BackupSelectStep ==
    ASSUME BInv, NEW s \in Sessions, BackupSelect(s)
    PROVE  StepOK(s)
<1> USE TableSet
<1> DEFINE t == job[s].table
<1>1. HandlersOK /\ LocksApart /\ SessionOK(s) /\ DatabaseOK
  BY DEF BInv
<1>2. UNCHANGED << db, files, nextId, work, answer >> /\ Acquire(s) /\ pc[s] = "backup_select"
  BY DEF BackupSelect
<1>3. DatabaseOK'
  BY <1>2, SameSequences, SameDatabase
<1>4. /\ LocksApart' /\ DOMAIN locks' = Sessions
      /\ \A o \in Sessions \ {s} : locks'[o] = locks[o]
      /\ DOMAIN locks'[s] = {"shared", "exclusive"} /\ Holding(s) \subseteq Holding(s)'
  BY <1>1, <1>2, AcquireLocks DEF SessionOK
<1>5. job' = [job EXCEPT ![s].rows = ToAvro(t, db[t])] /\ pc' = [pc EXCEPT ![s] = "backup_open"]
  BY DEF BackupSelect, Goto
<1>6. t \in Tables /\ Content(t, ToAvro(t, db[t]))
  BY <1>1, FileContent DEF SessionOK, RequestOK, DatabaseOK
<1>7. HandlersOK' /\ KeepsOthers(s)
  BY <1>1, <1>2, <1>4, <1>5, SameSequences DEF HandlersOK, KeepsOthers
<1>8. /\ pc'[s] = "backup_open" /\ DOMAIN job'[s] = DOMAIN job[s]
      /\ job'[s].rows = ToAvro(t, db[t]) /\ job'[s].table = t /\ job'[s].step = job[s].step
      /\ job'[s].op = job[s].op /\ job'[s].committed = job[s].committed
  BY <1>1, <1>5 DEF HandlersOK, SessionOK, RequestOK
<1>9. RequestOK(s)'
  BY <1>1, <1>6, <1>8 DEF SessionOK, RequestOK
<1>10. TransactionOK(s)'
  BY <1>1, <1>2, <1>4 DEF SessionOK, TransactionOK, Drawn, HasKey
<1>11. RestoreOK(s)' /\ IngestOK(s)' /\ PlaceOK(s)' /\ ReplyOK(s)'
  BY <1>1, <1>2, <1>8 DEF SessionOK, RestoreOK, IngestOK, PlaceOK, ReplyOK, AdminSteps,
                          IngestSteps, LoadingSteps, RefreshSteps
<1> QED
  BY <1>3, <1>4, <1>7, <1>9, <1>10, <1>11 DEF StepOK, SessionOK

LEMMA BackupOpenStep ==
    ASSUME BInv, NEW s \in Sessions, BackupOpen(s)
    PROVE  StepOK(s)
<1> USE TableSet
<1>1. HandlersOK /\ LocksApart /\ SessionOK(s) /\ DatabaseOK
  BY DEF BInv
<1>2. /\ UNCHANGED << db, nextId, work, locks, job, answer >> /\ pc[s] = "backup_open"
      /\ files' = [files EXCEPT ![job[s].table] = Torn]
      /\ pc' = [pc EXCEPT ![s] = "backup_close"]
  BY DEF BackupOpen, Goto
<1>3. DatabaseOK'
  BY <1>1, <1>2 DEF DatabaseOK
<1>4. HandlersOK' /\ KeepsOthers(s) /\ LocksApart' /\ pc'[s] = "backup_close"
  BY <1>1, <1>2, SameSequences DEF HandlersOK, KeepsOthers, LocksApart
<1>5. RequestOK(s)' /\ TransactionOK(s)'
  BY <1>1, <1>2 DEF SessionOK, RequestOK, TransactionOK, Drawn, HasKey, Holding
<1>6. RestoreOK(s)' /\ IngestOK(s)' /\ PlaceOK(s)' /\ ReplyOK(s)'
  BY <1>1, <1>2, <1>4 DEF SessionOK, RestoreOK, IngestOK, PlaceOK, ReplyOK, AdminSteps,
                          IngestSteps, LoadingSteps, RefreshSteps
<1> QED
  BY <1>3, <1>4, <1>5, <1>6 DEF StepOK, SessionOK

LEMMA BackupCloseStep ==
    ASSUME BInv, NEW s \in Sessions, BackupClose(s)
    PROVE  StepOK(s)
<1> USE TableSet
<1> DEFINE t == job[s].table
<1>1. SessionOK(s) /\ DatabaseOK
  BY DEF BInv
<1>2. /\ pc[s] = "backup_close" /\ Answer(s, "200", FALSE) /\ UNCHANGED << db, nextId >>
      /\ \E content \in {job[s].rows} \cup (IF files[t] = Torn THEN {} ELSE {Torn}) :
            files' = [files EXCEPT ![t] = content]
  BY DEF BackupClose
<1>3. PICK content \in {job[s].rows, Torn} : files' = [files EXCEPT ![t] = content]
  BY <1>2
<1>4. t \in Tables /\ (content # Torn => Content(t, content))
  BY <1>1 DEF SessionOK, RequestOK
<1>5. DatabaseOK'
  <2>1. DOMAIN files' = Tables
    BY <1>1, <1>3 DEF DatabaseOK
  <2>2. ASSUME NEW u \in Tables, files'[u] \notin {NoFile, Torn} PROVE Content(u, files'[u])
    BY <1>1, <1>3, <1>4, <2>2 DEF DatabaseOK
  <2> QED
    BY <1>1, <1>2, <2>1, <2>2 DEF DatabaseOK
<1>6. job[s].op = "backup"
  BY <1>1, <1>2 DEF SessionOK, ReplyOK
<1> QED
  BY <1>2, <1>5, <1>6, SameSequences, AnswerStep

LEMMA RestoreReadStep ==
    ASSUME BInv, NEW s \in Sessions, RestoreRead(s)
    PROVE  StepOK(s)
<1> USE TableSet
<1> DEFINE t == job[s].table
<1>1. HandlersOK /\ LocksApart /\ SessionOK(s) /\ DatabaseOK
  BY DEF BInv
<1>2. pc[s] = "restore_read" /\ UNCHANGED << nextId, db, files >>
  BY DEF RestoreRead, Fail
<1>3. CASE Answer(s, "404", FALSE)
  BY <1>2, <1>3, SameSequences, SameDatabase, AnswerStep
<1>4. CASE Fail(s)
  BY <1>2, <1>4, SameSequences, FailStep DEF RefreshSteps
<1>5. CASE /\ files[t] \notin {NoFile, Torn}
           /\ job' = [job EXCEPT ![s].rows = files[t]]
           /\ Goto(s, "restore_truncate")
           /\ UNCHANGED << work, locks, answer >>
  <2>1. DatabaseOK'
    BY <1>2, SameSequences, SameDatabase
  <2>2. HandlersOK' /\ KeepsOthers(s) /\ LocksApart' /\ pc'[s] = "restore_truncate"
    BY <1>1, <1>2, <1>5, SameSequences DEF HandlersOK, KeepsOthers, LocksApart, Goto
  <2>3. /\ DOMAIN job'[s] = DOMAIN job[s]
        /\ job'[s].rows = files[t] /\ job'[s].table = t /\ job'[s].step = job[s].step
        /\ job'[s].op = job[s].op /\ job'[s].committed = job[s].committed
    BY <1>1, <1>5 DEF HandlersOK, SessionOK, RequestOK
  <2>4. RequestOK(s)'
    BY <1>1, <1>5, <2>3 DEF SessionOK, RequestOK, DatabaseOK
  <2>5. TransactionOK(s)'
    BY <1>1, <1>2, <1>5 DEF SessionOK, TransactionOK, Drawn, HasKey, Holding
  <2>6. RestoreOK(s)' /\ IngestOK(s)' /\ PlaceOK(s)' /\ ReplyOK(s)'
    BY <1>1, <1>2, <1>5, <2>2, <2>3 DEF SessionOK, RestoreOK, IngestOK, PlaceOK, ReplyOK,
       AdminSteps, IngestSteps, LoadingSteps, RefreshSteps
  <2> QED
    BY <2>1, <2>2, <2>4, <2>5, <2>6 DEF StepOK, SessionOK
<1> QED
  BY <1>3, <1>4, <1>5 DEF RestoreRead

\* What a statement leaves to be shown: what it does to the session itself.
LEMMA StatementFrame ==
    ASSUME BInv, NEW s \in Sessions, NEW label, Acquire(s), UNCHANGED << db, files, answer >>,
           nextId' \in [IdentityTables -> Nat \ {0}],
           \A t \in IdentityTables : t \notin Holding(s) => nextId'[t] >= nextId[t],
           pc' = [pc EXCEPT ![s] = label],
           DOMAIN job' = Sessions, \A o \in Sessions \ {s} : job'[o] = job[o],
           DOMAIN work' = Sessions, \A o \in Sessions \ {s} : work'[o] = work[o]
    PROVE  /\ DatabaseOK' /\ HandlersOK' /\ LocksApart' /\ KeepsOthers(s)
           /\ pc'[s] = label /\ answer'[s] = answer[s]
           /\ DOMAIN locks'[s] = {"shared", "exclusive"}
           /\ locks'[s].shared = locks[s].shared \cup NextLocks(s).shared
           /\ locks'[s].exclusive = locks[s].exclusive \cup NextLocks(s).exclusive
           /\ Holding(s) \subseteq Holding(s)'
<1>1. HandlersOK /\ LocksApart /\ SessionOK(s)
  BY DEF BInv
<1>2. /\ LocksApart' /\ DOMAIN locks' = Sessions
      /\ \A o \in Sessions \ {s} : locks'[o] = locks[o]
      /\ DOMAIN locks'[s] = {"shared", "exclusive"}
      /\ locks'[s].shared = locks[s].shared \cup NextLocks(s).shared
      /\ locks'[s].exclusive = locks[s].exclusive \cup NextLocks(s).exclusive
      /\ Holding(s) \subseteq Holding(s)'
  BY <1>1, AcquireLocks DEF SessionOK
<1>3. HandlersOK' /\ pc'[s] = label
  BY <1>1, <1>2 DEF HandlersOK
<1>4. KeepsOthers(s)
  BY <1>1, <1>2, TableSet DEF HandlersOK, KeepsOthers
<1> QED
  BY <1>2, <1>3, <1>4, SameDatabase

LEMMA RestoreTruncateStep ==
    ASSUME BInv, NEW s \in Sessions, RestoreTruncate(s)
    PROVE  StepOK(s)
<1> USE TableSet
<1> DEFINE t == job[s].table
           d == Emptied(Seen(s), t)
<1>1. HandlersOK /\ SessionOK(s) /\ t \in Tables
  BY DEF BInv, SessionOK, RequestOK
<1>2. /\ UNCHANGED << db, files, nextId, job, answer >> /\ pc[s] = "restore_truncate"
      /\ Acquire(s) /\ Write(s, d) /\ pc' = [pc EXCEPT ![s] = "restore_insert"]
  BY DEF RestoreTruncate, Goto
<1>3. DOMAIN work' = Sessions /\ \A o \in Sessions \ {s} : work'[o] = work[o]
  BY <1>1, <1>2 DEF Write, HandlersOK
<1>4. /\ DatabaseOK' /\ HandlersOK' /\ LocksApart' /\ KeepsOthers(s)
      /\ pc'[s] = "restore_insert" /\ answer'[s] = answer[s]
      /\ DOMAIN locks'[s] = {"shared", "exclusive"}
      /\ locks'[s].exclusive = locks[s].exclusive \cup NextLocks(s).exclusive
      /\ Holding(s) \subseteq Holding(s)'
  BY <1>1, <1>2, <1>3, SameSequences, StatementFrame DEF HandlersOK
<1>5. Cascade(t) \subseteq locks'[s].exclusive
  BY <1>2, <1>4 DEF NextLocks
<1>6. ASSUME NEW u \in Tables, d[u] # db[u]
      PROVE  /\ u \in Holding(s)' /\ Content(u, d[u])
             /\ u \in IdentityTables =>
                  \A row \in d[u] : row.id < nextId'[u] \/ HasKey(db, u, row.id)
  <2>1. CASE u \in Cascade(t)
    <3>1. d[u] = {}
      BY <2>1 DEF Emptied
    <3> QED
      BY <2>1, <3>1, <1>5, NoRowsContent DEF Holding
  <2>2. CASE u \notin Cascade(t)
    <3>1. d[u] = Seen(s)[u]
      BY <2>2 DEF Emptied
    <3> QED
      BY <3>1, <1>2, <1>4, <1>6, SeenTable DEF Drawn
  <2> QED
    BY <2>1, <2>2
<1>7. TransactionOK(s)' /\ \A u \in Tables : Seen(s)'[u] = d[u]
  <2> HIDE DEF d
  <2> QED
    BY <1>1, <1>2, <1>4, <1>6, WriteTransaction
<1>8. t \in Cascade(t) /\ d[t] = {}
  BY <1>1 DEF Cascade, Emptied
<1>9. RestoreOK(s)'
  BY <1>1, <1>2, <1>4, <1>5, <1>7, <1>8 DEF RestoreOK
<1>10. RequestOK(s)' /\ IngestOK(s)' /\ PlaceOK(s)' /\ ReplyOK(s)'
  BY <1>1, <1>2, <1>4 DEF SessionOK, RequestOK, IngestOK, PlaceOK, ReplyOK, AdminSteps,
                          IngestSteps, LoadingSteps, RefreshSteps
<1> QED
  BY <1>4, <1>7, <1>9, <1>10 DEF StepOK, SessionOK

LEMMA CommitSeen ==
    ASSUME BInv, NEW s \in Sessions, db' = Seen(s), UNCHANGED << nextId, files >>
    PROVE  /\ DatabaseOK'
           /\ \A t \in Tables : t \notin Holding(s) =>
                db'[t] = db[t] /\ (t \in IdentityTables => nextId'[t] >= nextId[t])
<1>1. \A t \in Tables : Content(t, db'[t]) /\ (db'[t] # db[t] => t \in Holding(s))
  BY SeenTable
<1>2. DOMAIN db' = Tables
  BY DEF Seen
<1> QED
  BY <1>1, <1>2, SameSequences DEF BInv, DatabaseOK

LEMMA RestoreCommitStep ==
    ASSUME BInv, NEW s \in Sessions, RestoreCommit(s)
    PROVE  StepOK(s)
BY CommitSeen, AnswerStep DEF RestoreCommit

LEMMA ResetCommitStep ==
    ASSUME BInv, NEW s \in Sessions, ResetCommit(s)
    PROVE  StepOK(s)
BY CommitSeen, AnswerStep DEF ResetCommit

\* setval puts the sequence behind the greatest id of the file.
LEMMA ResyncedSequence ==
    ASSUME BInv, NEW t \in Tables, NEW rows, Content(t, rows), nextId' = Resynced(t, rows)
    PROVE  /\ nextId' \in [IdentityTables -> Nat \ {0}]
           /\ \A u \in IdentityTables \ {t} : nextId'[u] = nextId[u]
           /\ t \in IdentityTables => \A row \in rows : row.id < nextId'[t]
<1>1. nextId \in [IdentityTables -> Nat \ {0}]
  BY DEF BInv, DatabaseOK
<1>2. CASE t \in IdentityTables /\ rows # {}
  <2> DEFINE top == CHOOSE r \in rows : \A q \in rows : q.id <= r.id
  <2>1. top \in rows /\ \A q \in rows : q.id <= top.id
    BY <1>2, GreatestId DEF Content
  <2>2. \A row \in rows : row.id \in Nat
    BY <1>2 DEF Content, Numbered
  <2>3. nextId' = [nextId EXCEPT ![t] = top.id + 1]
    BY <1>2 DEF Resynced
  <2> HIDE DEF top
  <2>4. top.id \in Nat
    BY <2>1, <2>2
  <2>5. nextId'[t] = top.id + 1
    BY <1>1, <1>2, <2>3
  <2>6. nextId' \in [IdentityTables -> Nat \ {0}]
    BY <1>1, <1>2, <2>3, <2>4
  <2>7. \A u \in IdentityTables \ {t} : nextId'[u] = nextId[u]
    BY <1>1, <2>3
  <2>8. \A row \in rows : row.id < nextId'[t]
    BY <2>1, <2>2, <2>4, <2>5
  <2> QED
    BY <2>6, <2>7, <2>8
<1>3. CASE ~ (t \in IdentityTables /\ rows # {})
  BY <1>1, <1>3 DEF Resynced
<1> QED
  BY <1>2, <1>3

LEMMA RestoreInsertStep ==
    ASSUME BInv, NEW s \in Sessions, RestoreInsert(s)
    PROVE  StepOK(s)
<1> USE TableSet
<1> DEFINE t == job[s].table
           rows == job[s].rows
           d == Loaded(Seen(s), t, rows, clock)
<1>1. HandlersOK /\ SessionOK(s) /\ t \in Tables /\ Content(t, rows)
  BY DEF BInv, SessionOK, RequestOK
<1>2. pc[s] = "restore_insert" /\ UNCHANGED << db, files >>
  BY DEF RestoreInsert, Fail
<1>3. CASE Fail(s) /\ UNCHANGED nextId
  BY <1>2, <1>3, SameSequences, FailStep DEF RefreshSteps
<1>4. CASE /\ Acquire(s) /\ Write(s, d) /\ nextId' = Resynced(t, rows)
           /\ Goto(s, "restore_commit") /\ UNCHANGED << job, answer >>
  <2>1. t \in locks[s].exclusive /\ Seen(s)[t] = {}
    BY <1>1, <1>2 DEF SessionOK, RestoreOK
  <2>2. /\ nextId' \in [IdentityTables -> Nat \ {0}]
        /\ \A u \in IdentityTables \ {t} : nextId'[u] = nextId[u]
        /\ t \in IdentityTables => \A row \in rows : row.id < nextId'[t]
    BY <1>1, <1>4, ResyncedSequence
  <2>3. \A u \in IdentityTables : u \notin Holding(s) => nextId'[u] >= nextId[u]
    BY <2>1, <2>2, SameSequences DEF Holding
  <2>4. DOMAIN work' = Sessions /\ \A o \in Sessions \ {s} : work'[o] = work[o]
    BY <1>1, <1>4 DEF Write, HandlersOK
  <2>5. /\ DatabaseOK' /\ HandlersOK' /\ LocksApart' /\ KeepsOthers(s)
        /\ pc'[s] = "restore_commit" /\ answer'[s] = answer[s]
        /\ DOMAIN locks'[s] = {"shared", "exclusive"}
        /\ locks[s].exclusive \subseteq locks'[s].exclusive
        /\ Holding(s) \subseteq Holding(s)'
    <3>1. pc' = [pc EXCEPT ![s] = "restore_commit"] /\ Acquire(s)
      BY <1>4 DEF Goto
    <3>2. DOMAIN job' = Sessions /\ \A o \in Sessions \ {s} : job'[o] = job[o]
      BY <1>1, <1>4 DEF HandlersOK
    <3>3. UNCHANGED << db, files, answer >>
      BY <1>2, <1>4
    <3> QED
      BY <2>2, <2>3, <2>4, <3>1, <3>2, <3>3, StatementFrame
  <2>6. d[t] = FromAvro(t, rows, clock) /\ \A u \in Tables \ {t} : d[u] = Seen(s)[u]
    BY <1>1, <2>1 DEF Loaded, Seen
  <2>7. Content(t, d[t])
    BY <1>1, <2>6, FileContent
  <2>8. t \in IdentityTables => \A row \in d[t] : row.id < nextId'[t]
    <3> HIDE DEF d
    <3>1. ASSUME t \in IdentityTables PROVE d[t] = rows
      <4>1. FromAvro(t, rows, clock) = rows
        <5> HIDE DEF t, rows
        <5> QED
          BY <3>1, SameIds, Zenon
      <4> QED
        BY <4>1, <2>6
    <3> QED
      BY <2>2, <3>1
  <2>9. ASSUME NEW u \in Tables, d[u] # db[u]
        PROVE  /\ u \in Holding(s)' /\ Content(u, d[u])
               /\ u \in IdentityTables =>
                    \A row \in d[u] : row.id < nextId'[u] \/ HasKey(db, u, row.id)
    <3>1. CASE u = t
      BY <3>1, <2>1, <2>5, <2>7, <2>8 DEF Holding
    <3>2. CASE u # t
      <4>1. d[u] = Seen(s)[u]
        BY <3>2, <2>6
      <4>2. u \in IdentityTables => Drawn(u, d[u]) /\ nextId'[u] = nextId[u]
        BY <4>1, <3>2, <2>2, SeenTable
      <4>3. u \in Holding(s)' /\ Content(u, d[u])
        BY <4>1, <2>5, <2>9, SeenTable
      <4> QED
        BY <4>2, <4>3 DEF Drawn
    <3> QED
      BY <3>1, <3>2
  <2>10. TransactionOK(s)' /\ \A u \in Tables : Seen(s)'[u] = d[u]
    <3>1. HandlersOK /\ Write(s, d) /\ db' = db /\ DOMAIN locks'[s] = {"shared", "exclusive"}
      BY <1>1, <1>2, <1>4, <2>5
    <3> HIDE DEF d
    <3> QED
      BY <2>9, <3>1, WriteTransaction
  <2>11. RestoreOK(s)'
    BY <1>1, <1>4, <2>1, <2>5, <2>8, <2>10 DEF RestoreOK
  <2>12. RequestOK(s)' /\ IngestOK(s)' /\ PlaceOK(s)' /\ ReplyOK(s)'
    BY <1>1, <1>2, <1>4, <2>5 DEF SessionOK, RequestOK, IngestOK, PlaceOK, ReplyOK,
       AdminSteps, IngestSteps, LoadingSteps, RefreshSteps
  <2> QED
    BY <2>5, <2>10, <2>11, <2>12 DEF StepOK, SessionOK
<1> QED
  BY <1>3, <1>4 DEF RestoreInsert

LEMMA ResetTruncateStep ==
    ASSUME BInv, NEW s \in Sessions, ResetTruncate(s)
    PROVE  StepOK(s)
<1> USE TableSet
<1> DEFINE t == TableNames[job[s].step]
           d == Emptied(Seen(s), t)
           label == IF job[s].step < Len(TableNames) THEN "reset_truncate" ELSE "reset_refresh"
<1>1. HandlersOK /\ SessionOK(s)
  BY DEF BInv
<1>2. /\ UNCHANGED << db, files, nextId, answer >> /\ pc[s] = "reset_truncate"
      /\ Acquire(s) /\ Write(s, d) /\ pc' = [pc EXCEPT ![s] = label]
      /\ job' = [job EXCEPT ![s].step = @ + 1]
  BY DEF ResetTruncate, AfterTruncate, Goto
<1>3. job[s].step \in 1 .. 6 /\ t \in Tables
  BY <1>1, <1>2 DEF SessionOK, RequestOK, PlaceOK
<1>4. /\ DOMAIN work' = Sessions /\ \A o \in Sessions \ {s} : work'[o] = work[o]
      /\ DOMAIN job' = Sessions /\ \A o \in Sessions \ {s} : job'[o] = job[o]
  BY <1>1, <1>2 DEF Write, HandlersOK
<1>5. /\ DatabaseOK' /\ HandlersOK' /\ LocksApart' /\ KeepsOthers(s)
      /\ pc'[s] = label /\ answer'[s] = answer[s]
      /\ DOMAIN locks'[s] = {"shared", "exclusive"}
      /\ locks'[s].exclusive = locks[s].exclusive \cup NextLocks(s).exclusive
      /\ Holding(s) \subseteq Holding(s)'
  <2> HIDE DEF label
  <2> QED
    BY <1>1, <1>2, <1>4, SameSequences, StatementFrame
<1>6. Cascade(t) \subseteq locks'[s].exclusive
  BY <1>2, <1>5 DEF NextLocks
<1>7. ASSUME NEW u \in Tables, d[u] # db[u]
      PROVE  /\ u \in Holding(s)' /\ Content(u, d[u])
             /\ u \in IdentityTables =>
                  \A row \in d[u] : row.id < nextId'[u] \/ HasKey(db, u, row.id)
  <2>1. CASE u \in Cascade(t)
    <3>1. d[u] = {}
      BY <2>1 DEF Emptied
    <3> QED
      BY <2>1, <3>1, <1>6, NoRowsContent DEF Holding
  <2>2. CASE u \notin Cascade(t)
    <3>1. d[u] = Seen(s)[u]
      BY <2>2 DEF Emptied
    <3> QED
      BY <3>1, <1>2, <1>5, <1>7, SeenTable DEF Drawn
  <2> QED
    BY <2>1, <2>2
<1>8. TransactionOK(s)'
  <2> HIDE DEF d
  <2> QED
    BY <1>1, <1>2, <1>5, <1>7, WriteTransaction
<1>9. /\ DOMAIN job'[s] = DOMAIN job[s] /\ job'[s].table = job[s].table
      /\ job'[s].rows = job[s].rows /\ job'[s].step = job[s].step + 1
      /\ job'[s].op = job[s].op /\ job'[s].committed = job[s].committed
  BY <1>1, <1>2 DEF HandlersOK, SessionOK, RequestOK
<1>10. label \in {"reset_truncate", "reset_refresh"}
       /\ (label = "reset_truncate" => job'[s].step <= 6)
  BY <1>3, <1>9
<1>11. RequestOK(s)'
  BY <1>1, <1>3, <1>9 DEF SessionOK, RequestOK
<1>12. PlaceOK(s)' /\ RestoreOK(s)' /\ IngestOK(s)' /\ ReplyOK(s)'
  <2> HIDE DEF label
  <2> QED
    BY <1>1, <1>2, <1>5, <1>9, <1>10 DEF SessionOK, PlaceOK, RestoreOK, IngestOK, ReplyOK,
       AdminSteps, IngestSteps, LoadingSteps, RefreshSteps
<1> QED
  BY <1>5, <1>8, <1>11, <1>12 DEF StepOK, SessionOK

\* The statements that change nothing but the place of the handler.
LEMMA ReadingStep ==
    ASSUME BInv, NEW s \in Sessions, NEW label, Acquire(s),
           UNCHANGED << db, files, nextId, answer, work, job >>,
           pc' = [pc EXCEPT ![s] = label],
           \/ pc[s] = "reset_refresh" /\ label = "reset_commit"
           \/ pc[s] = "refresh_hires" /\ label = "refresh_average"
    PROVE  StepOK(s)
<1> USE TableSet
<1>1. HandlersOK /\ SessionOK(s)
  BY DEF BInv
<1>2. /\ DatabaseOK' /\ HandlersOK' /\ LocksApart' /\ KeepsOthers(s)
      /\ pc'[s] = label /\ answer'[s] = answer[s]
      /\ DOMAIN locks'[s] = {"shared", "exclusive"}
      /\ Holding(s) \subseteq Holding(s)'
  BY <1>1, SameSequences, StatementFrame DEF HandlersOK
<1>3. RequestOK(s)' /\ TransactionOK(s)'
  BY <1>1, <1>2 DEF SessionOK, RequestOK, TransactionOK, Drawn, HasKey
<1>4. RestoreOK(s)' /\ IngestOK(s)' /\ PlaceOK(s)' /\ ReplyOK(s)'
  BY <1>1, <1>2 DEF SessionOK, RestoreOK, IngestOK, PlaceOK, ReplyOK, AdminSteps,
                    IngestSteps, LoadingSteps, RefreshSteps
<1> QED
  BY <1>2, <1>3, <1>4 DEF StepOK, SessionOK

LEMMA OnlyIngester ==
    ASSUME BInv, NEW s \in Sessions, pc[s] \in {"ingest_create"} \cup LoadingSteps \cup RefreshSteps
    PROVE  s = Ingester
<1>1. s \in Admins => pc[s] \in AdminSteps
  BY DEF BInv, SessionOK, PlaceOK
<1> QED
  BY <1>1 DEF Sessions, AdminSteps, LoadingSteps, RefreshSteps

\* An INSERT under a fresh id, or a row that replaces the one with its id.
LEMMA InsertOrReplace ==
    ASSUME NEW t \in Tables, NEW rows, Content(t, rows), NEW row, KeyedRow(t, row),
           t \in IdentityTables => row.id \in Nat, NEW id, id = row.id
    PROVE  Content(t, {r \in rows : r.id # id} \cup {row})
<1>1. Content(t, {r \in rows : r.id # id})
  BY PartContent
<1> QED
  BY <1>1, InsertContent

LEMMA IngestCreateStep ==
    ASSUME BInv, NEW s \in Sessions, IngestCreate(s)
    PROVE  StepOK(s)
<1> USE TableSet
<1> DEFINE l == nextId["loads"]
           row == [id |-> l, accepted |-> 0, rejected |-> 0]
           d == With(db, "loads", row)
           label == IF job[s].upload.target = "hired_employees"
                      THEN "ingest_check" ELSE "ingest_upsert"
<1>1. HandlersOK /\ SessionOK(s) /\ DatabaseOK
  BY DEF BInv
<1>2. /\ pc[s] = "ingest_create" /\ nextId' = [nextId EXCEPT !["loads"] = @ + 1]
      /\ UNCHANGED << db, files >>
  BY DEF IngestCreate, Fail
<1>3. /\ nextId' \in [IdentityTables -> Nat \ {0}]
      /\ \A t \in IdentityTables : nextId'[t] >= nextId[t]
      /\ l \in Nat /\ nextId'["loads"] = l + 1
  BY <1>2, NextDrawn DEF IdentityTables
<1>4. CASE Fail(s)
  BY <1>2, <1>3, <1>4, FailStep DEF RefreshSteps
<1>5. CASE /\ ~ HasKey(db, "loads", l) /\ Acquire(s) /\ Write(s, d)
           /\ job' = [job EXCEPT ![s].load_id = l] /\ Goto(s, label) /\ UNCHANGED answer
  <2>1. /\ DOMAIN work' = Sessions /\ \A o \in Sessions \ {s} : work'[o] = work[o]
        /\ DOMAIN job' = Sessions /\ \A o \in Sessions \ {s} : job'[o] = job[o]
    BY <1>1, <1>5 DEF Write, HandlersOK
  <2>2. pc' = [pc EXCEPT ![s] = label] /\ UNCHANGED << db, files, answer >> /\ Acquire(s)
    BY <1>2, <1>5 DEF Goto
  <2>3. /\ DatabaseOK' /\ HandlersOK' /\ LocksApart' /\ KeepsOthers(s)
        /\ pc'[s] = label /\ answer'[s] = answer[s]
        /\ DOMAIN locks'[s] = {"shared", "exclusive"}
        /\ locks'[s].shared = locks[s].shared \cup NextLocks(s).shared
    <3> HIDE DEF label
    <3> QED
      BY <1>3, <2>1, <2>2, StatementFrame
  <2>4. s = Ingester
    BY <1>2, OnlyIngester
  <2>5. "loads" \in locks'[s].shared /\ "loads" \in Holding(s)'
    BY <1>2, <2>3, <2>4 DEF NextLocks, Holding
  <2>6. d["loads"] = db["loads"] \cup {row} /\ \A u \in Tables \ {"loads"} : d[u] = db[u]
    BY <1>1 DEF With, DatabaseOK
  <2>7. Content("loads", db["loads"] \cup {row})
    <3>1. Content("loads", db["loads"]) /\ KeyedRow("loads", row)
      BY <1>1 DEF DatabaseOK, KeyedRow
    <3>2. \A other \in db["loads"] : other.id # row.id
      BY <1>5 DEF HasKey
    <3> QED
      BY <3>1, <3>2, <1>3, InsertContent
  <2>8. ASSUME NEW u \in Tables, d[u] # db[u]
        PROVE  /\ u \in Holding(s)' /\ Content(u, d[u])
               /\ u \in IdentityTables =>
                    \A r \in d[u] : r.id < nextId'[u] \/ HasKey(db, u, r.id)
    <3>1. u = "loads"
      BY <2>6, <2>8
    <3>2. ASSUME NEW r \in db["loads"] \cup {row}
          PROVE  r.id < nextId'["loads"] \/ HasKey(db, "loads", r.id)
      BY <1>3 DEF HasKey
    <3> QED
      BY <3>1, <3>2, <2>5, <2>6, <2>7
  <2>9. TransactionOK(s)' /\ DOMAIN work'[s] \subseteq {"loads"}
    <3>1. TransactionOK(s)' /\ DOMAIN work'[s] = {u \in Tables : d[u] # db[u]}
      <4> HIDE DEF d
      <4> QED
        BY <1>1, <1>2, <1>5, <2>3, <2>8, WriteTransaction
    <3> QED
      BY <3>1, <2>6
  <2>10. /\ DOMAIN job'[s] = DOMAIN job[s] /\ job'[s].table = job[s].table
         /\ job'[s].rows = job[s].rows /\ job'[s].step = job[s].step
         /\ job'[s].op = job[s].op /\ job'[s].committed = job[s].committed
         /\ job'[s].upload = job[s].upload /\ job'[s].load_id = l
    BY <1>1, <1>5 DEF HandlersOK, SessionOK, RequestOK
  <2>11. /\ label \in {"ingest_check", "ingest_upsert"}
         /\ label = "ingest_upsert" => job[s].upload.target \in {"departments", "jobs"}
    BY <1>1, <1>2 DEF SessionOK, IngestOK
  <2>12. IngestOK(s)'
    <3>1. l < nextId'["loads"]
      BY <1>3
    <3> HIDE DEF label
    <3> QED
      BY <1>3, <2>3, <2>5, <2>9, <2>10, <2>11, <3>1 DEF IngestOK
  <2>13. RequestOK(s)' /\ PlaceOK(s)' /\ RestoreOK(s)' /\ ReplyOK(s)'
    <3> HIDE DEF label
    <3> QED
      BY <1>1, <1>2, <2>3, <2>4, <2>10, <2>11, SessionsAssumption
      DEF SessionOK, RequestOK, PlaceOK, RestoreOK, ReplyOK, AdminSteps, IngestSteps,
          LoadingSteps, RefreshSteps
  <2> QED
    BY <2>3, <2>9, <2>12, <2>13 DEF StepOK, SessionOK
<1> QED
  BY <1>4, <1>5 DEF IngestCreate

LEMMA IngestUpsertStep ==
    ASSUME BInv, NEW s \in Sessions, IngestUpsert(s)
    PROVE  StepOK(s)
<1> USE TableSet
<1> DEFINE u == job[s].upload
           row == [id |-> u.id, name |-> u.name]
           rows == {r \in db[u.target] : r.id # u.id} \cup {row}
           d == [Seen(s) EXCEPT ![u.target] = rows]
<1>1. HandlersOK /\ SessionOK(s) /\ DatabaseOK
  BY DEF BInv
<1>2. /\ pc[s] = "ingest_upsert" /\ Acquire(s) /\ Write(s, d)
      /\ UNCHANGED << db, files, nextId, job, answer >>
      /\ pc' = [pc EXCEPT ![s] = "ingest_commit"]
  BY DEF IngestUpsert, Goto
<1>3. s = Ingester /\ u.target \in {"departments", "jobs"}
  BY <1>1, <1>2, OnlyIngester DEF SessionOK, IngestOK, LoadingSteps
<1>4. /\ DOMAIN work' = Sessions /\ \A o \in Sessions \ {s} : work'[o] = work[o]
      /\ DOMAIN job' = Sessions /\ \A o \in Sessions \ {s} : job'[o] = job[o]
  BY <1>1, <1>2 DEF Write, HandlersOK
<1>5. /\ DatabaseOK' /\ HandlersOK' /\ LocksApart' /\ KeepsOthers(s)
      /\ pc'[s] = "ingest_commit" /\ answer'[s] = answer[s]
      /\ DOMAIN locks'[s] = {"shared", "exclusive"}
      /\ locks'[s].shared = locks[s].shared \cup NextLocks(s).shared
      /\ Holding(s) \subseteq Holding(s)'
  BY <1>2, <1>4, SameSequences, StatementFrame
<1>6. u.target \in Holding(s)'
  BY <1>2, <1>3, <1>5 DEF NextLocks, Holding
<1>7. d[u.target] = rows /\ \A t \in Tables \ {u.target} : d[t] = Seen(s)[t]
  BY <1>3 DEF Seen
<1>8. Content(u.target, rows)
  <2>1. Content(u.target, db[u.target]) /\ KeyedRow(u.target, row)
    BY <1>1, <1>3 DEF DatabaseOK, KeyedRow
  <2> QED
    BY <2>1, <1>3, InsertOrReplace DEF IdentityTables
<1>9. ASSUME NEW t \in Tables, d[t] # db[t]
      PROVE  /\ t \in Holding(s)' /\ Content(t, d[t])
             /\ t \in IdentityTables =>
                  \A r \in d[t] : r.id < nextId'[t] \/ HasKey(db, t, r.id)
  <2>1. CASE t = u.target
    BY <2>1, <1>3, <1>6, <1>7, <1>8 DEF IdentityTables
  <2>2. CASE t # u.target
    BY <2>2, <1>2, <1>5, <1>7, <1>9, SeenTable DEF Drawn
  <2> QED
    BY <2>1, <2>2
<1>10. TransactionOK(s)'
  <2> HIDE DEF d
  <2> QED
    BY <1>1, <1>2, <1>5, <1>9, WriteTransaction
<1>11. RequestOK(s)' /\ PlaceOK(s)' /\ RestoreOK(s)' /\ ReplyOK(s)' /\ IngestOK(s)'
  BY <1>1, <1>2, <1>3, <1>5, SessionsAssumption
  DEF SessionOK, RequestOK, PlaceOK, RestoreOK, ReplyOK, IngestOK, AdminSteps, IngestSteps,
      LoadingSteps, RefreshSteps
<1> QED
  BY <1>5, <1>10, <1>11 DEF StepOK, SessionOK

LEMMA IngestCheckStep ==
    ASSUME BInv, NEW s \in Sessions, IngestCheck(s)
    PROVE  StepOK(s)
<1> USE TableSet
<1>1. HandlersOK /\ SessionOK(s)
  BY DEF BInv
<1>2. PICK errors, rejected, label :
         /\ job' = [job EXCEPT ![s].errors = errors, ![s].rejected = rejected]
         /\ pc' = [pc EXCEPT ![s] = label] /\ label \in {"ingest_persist", "ingest_reject"}
  BY DEF IngestCheck, Goto
<1>3. /\ pc[s] = "ingest_check" /\ Acquire(s)
      /\ UNCHANGED << db, files, nextId, work, answer >>
  BY DEF IngestCheck
<1>4. s = Ingester
  BY <1>3, OnlyIngester DEF LoadingSteps
<1>5. /\ DatabaseOK' /\ HandlersOK' /\ LocksApart' /\ KeepsOthers(s)
      /\ pc'[s] = label /\ answer'[s] = answer[s]
      /\ DOMAIN locks'[s] = {"shared", "exclusive"}
      /\ locks'[s].shared = locks[s].shared \cup NextLocks(s).shared
      /\ Holding(s) \subseteq Holding(s)'
  <2>1. /\ DOMAIN work' = Sessions /\ \A o \in Sessions \ {s} : work'[o] = work[o]
        /\ DOMAIN job' = Sessions /\ \A o \in Sessions \ {s} : job'[o] = job[o]
    BY <1>1, <1>2, <1>3 DEF HandlersOK
  <2> QED
    BY <1>2, <1>3, <2>1, SameSequences, StatementFrame
<1>6. /\ DOMAIN job'[s] = DOMAIN job[s] /\ job'[s].table = job[s].table
      /\ job'[s].rows = job[s].rows /\ job'[s].step = job[s].step
      /\ job'[s].op = job[s].op /\ job'[s].committed = job[s].committed
      /\ job'[s].upload = job[s].upload /\ job'[s].load_id = job[s].load_id
  BY <1>1, <1>2 DEF HandlersOK, SessionOK, RequestOK
<1>7. TransactionOK(s)'
  BY <1>1, <1>3, <1>5 DEF SessionOK, TransactionOK, Drawn, HasKey
<1>8. RequestOK(s)'
  <2>1. /\ DOMAIN job[s] = {"op", "table", "rows", "step", "upload", "load_id", "errors",
                             "rejected", "committed"}
        /\ job[s].table \in Tables /\ job[s].step \in 1 .. 7
        /\ Content(job[s].table, job[s].rows)
    BY <1>1 DEF SessionOK, RequestOK
  <2>2. Content(job'[s].table, job'[s].rows)
    BY <1>6, <2>1
  <2> QED
    BY <1>6, <2>1, <2>2 DEF RequestOK
<1>9. PlaceOK(s)' /\ RestoreOK(s)'
  BY <1>2, <1>4, <1>5, SessionsAssumption
  DEF PlaceOK, RestoreOK, AdminSteps, IngestSteps, LoadingSteps, RefreshSteps
<1>10. ReplyOK(s)'
  BY <1>1, <1>2, <1>3, <1>5, <1>6 DEF SessionOK, ReplyOK, RefreshSteps
<1>11. IngestOK(s)'
  BY <1>1, <1>2, <1>3, <1>5, <1>6 DEF SessionOK, IngestOK, LoadingSteps
<1> QED
  BY <1>5, <1>7, <1>8, <1>9, <1>10, <1>11 DEF StepOK, SessionOK

LEMMA IngestRejectStep ==
    ASSUME BInv, NEW s \in Sessions, IngestReject(s)
    PROVE  StepOK(s)
<1> USE TableSet
<1> DEFINE r == nextId["rejected_records"]
           row == [id |-> r, load_id |-> job[s].load_id]
           d == With(Seen(s), "rejected_records", row)
           label == IF job[s].errors = 1 THEN "ingest_commit" ELSE "ingest_reject"
<1>1. HandlersOK /\ SessionOK(s)
  BY DEF BInv
<1>2. /\ pc[s] = "ingest_reject" /\ nextId' = [nextId EXCEPT !["rejected_records"] = @ + 1]
      /\ UNCHANGED << db, files >>
  BY DEF IngestReject, Fail
<1>3. /\ nextId' \in [IdentityTables -> Nat \ {0}]
      /\ \A t \in IdentityTables : nextId'[t] >= nextId[t]
      /\ r \in Nat /\ nextId'["rejected_records"] = r + 1 /\ nextId'["loads"] = nextId["loads"]
  <2>1. nextId'["loads"] = nextId["loads"]
    BY <1>2, SameSequences DEF BInv, DatabaseOK, IdentityTables
  <2> QED
    BY <1>2, <2>1, NextDrawn DEF IdentityTables
<1>4. CASE Fail(s)
  BY <1>2, <1>3, <1>4, FailStep DEF RefreshSteps
<1>5. CASE /\ ~ HasKey(Seen(s), "rejected_records", r) /\ Acquire(s) /\ Write(s, d)
           /\ job' = [job EXCEPT ![s].errors = @ - 1] /\ Goto(s, label) /\ UNCHANGED answer
  <2>1. /\ DOMAIN work' = Sessions /\ \A o \in Sessions \ {s} : work'[o] = work[o]
        /\ DOMAIN job' = Sessions /\ \A o \in Sessions \ {s} : job'[o] = job[o]
    BY <1>1, <1>5 DEF Write, HandlersOK
  <2>2. pc' = [pc EXCEPT ![s] = label] /\ UNCHANGED << db, files, answer >> /\ Acquire(s)
    BY <1>2, <1>5 DEF Goto
  <2>3. /\ DatabaseOK' /\ HandlersOK' /\ LocksApart' /\ KeepsOthers(s)
        /\ pc'[s] = label /\ answer'[s] = answer[s]
        /\ DOMAIN locks'[s] = {"shared", "exclusive"}
        /\ locks'[s].shared = locks[s].shared \cup NextLocks(s).shared
        /\ Holding(s) \subseteq Holding(s)'
    <3> HIDE DEF label
    <3> QED
      BY <1>3, <2>1, <2>2, StatementFrame
  <2>4. s = Ingester
    BY <1>2, OnlyIngester DEF LoadingSteps
  <2>5. "rejected_records" \in Holding(s)'
    BY <1>2, <2>3, <2>4 DEF NextLocks, Holding
  <2>6. /\ d["rejected_records"] = Seen(s)["rejected_records"] \cup {row}
        /\ \A t \in Tables \ {"rejected_records"} : d[t] = Seen(s)[t]
    BY DEF With, Seen
  <2>7. Content("rejected_records", Seen(s)["rejected_records"] \cup {row})
    <3>1. Content("rejected_records", Seen(s)["rejected_records"])
      BY SeenTable
    <3>2. KeyedRow("rejected_records", row)
      BY DEF KeyedRow
    <3>3. \A other \in Seen(s)["rejected_records"] : other.id # row.id
      BY <1>5 DEF HasKey
    <3> QED
      BY <3>1, <3>2, <3>3, <1>3, InsertContent
  <2>8. ASSUME NEW t \in IdentityTables
        PROVE  \A q \in d[t] : q.id < nextId'[t] \/ HasKey(db, t, q.id)
    <3>1. ASSUME NEW q \in Seen(s)[t] PROVE q.id < nextId'[t] \/ HasKey(db, t, q.id)
      <4>1. q.id < nextId[t] \/ HasKey(db, t, q.id)
        BY SeenTable DEF Drawn
      <4>2. q.id \in Nat
        BY SeenTable DEF Content, Numbered
      <4>3. nextId[t] \in Nat /\ nextId'[t] \in Nat /\ nextId'[t] >= nextId[t]
        BY <1>3 DEF BInv, DatabaseOK
      <4> QED
        BY <4>1, <4>2, <4>3
    <3>2. t = "rejected_records" => row.id < nextId'[t]
      BY <1>3
    <3> HIDE DEF d, row
    <3> QED
      BY <2>6, <3>1, <3>2
  <2>9. ASSUME NEW t \in Tables, d[t] # db[t]
        PROVE  t \in Holding(s)' /\ Content(t, d[t])
    <3>1. CASE t = "rejected_records"
      BY <3>1, <2>5, <2>6, <2>7
    <3>2. CASE t # "rejected_records"
      BY <3>2, <2>3, <2>6, <2>9, SeenTable
    <3> QED
      BY <3>1, <3>2
  <2>10. TransactionOK(s)'
    <3> HIDE DEF d
    <3> QED
      BY <1>1, <1>2, <1>5, <2>3, <2>8, <2>9, WriteTransaction
  <2>11. /\ DOMAIN job'[s] = DOMAIN job[s] /\ job'[s].table = job[s].table
         /\ job'[s].rows = job[s].rows /\ job'[s].step = job[s].step
         /\ job'[s].op = job[s].op /\ job'[s].committed = job[s].committed
         /\ job'[s].upload = job[s].upload /\ job'[s].load_id = job[s].load_id
    BY <1>1, <1>5 DEF HandlersOK, SessionOK, RequestOK
  <2>12. label \in {"ingest_commit", "ingest_reject"}
    OBVIOUS
  <2>13. RequestOK(s)' /\ PlaceOK(s)' /\ RestoreOK(s)' /\ ReplyOK(s)' /\ IngestOK(s)'
    <3> HIDE DEF label
    <3> QED
      BY <1>1, <1>2, <1>3, <2>3, <2>4, <2>11, <2>12, SessionsAssumption
      DEF SessionOK, RequestOK, PlaceOK, RestoreOK, ReplyOK, IngestOK, AdminSteps,
          IngestSteps, LoadingSteps, RefreshSteps
  <2> QED
    BY <2>3, <2>10, <2>13 DEF StepOK, SessionOK
<1> QED
  BY <1>4, <1>5 DEF IngestReject

\* _persist_hire inserts one version and at most one employee, and updates rows
\* that are there.
LEMMA PersistedTables ==
    ASSUME NEW d, DOMAIN d = Tables, NEW u, NEW v \in Nat, NEW now,
           Content("employees", d["employees"]),
           Content("employee_versions", d["employee_versions"]),
           ~ HasKey(d, "employee_versions", v)
    PROVE  /\ \A t \in Tables \ {"employees", "employee_versions"} :
                Persisted(d, u, v, now)[t] = d[t]
           /\ \A t \in {"employees", "employee_versions"} : Content(t, Persisted(d, u, v, now)[t])
           /\ \A row \in Persisted(d, u, v, now)["employee_versions"] :
                row.id = v \/ HasKey(d, "employee_versions", row.id)
<1> USE TableSet
<1> DEFINE new == NewVersion(u, v)
           employee == [id |-> u.id, hired_as |-> u.attributes, current |-> u.attributes,
                        first_loaded_at |-> now]
<1>1. KeyedRow("employee_versions", new) /\ new.id = v
  BY DEF NewVersion, KeyedRow
<1>2. "employee_versions" \in IdentityTables /\ "employees" \notin IdentityTables
  BY DEF IdentityTables
<1>3. CASE ~ HasKey(d, "employees", u.id)
  <2> DEFINE versions == d["employee_versions"] \cup {new}
             employees == d["employees"] \cup {employee}
  <2>1. /\ Persisted(d, u, v, now)["employees"] = employees
        /\ Persisted(d, u, v, now)["employee_versions"] = versions
        /\ \A t \in Tables \ {"employees", "employee_versions"} :
              Persisted(d, u, v, now)[t] = d[t]
    BY <1>3 DEF Persisted
  <2>2. Content("employees", employees)
    <3>1. KeyedRow("employees", employee)
      BY DEF KeyedRow
    <3>2. \A other \in d["employees"] : other.id # employee.id
      BY <1>3 DEF HasKey
    <3> HIDE DEF employee
    <3> QED
      BY <3>1, <3>2, <1>2, InsertContent
  <2>3. Content("employee_versions", versions)
    <3>1. \A other \in d["employee_versions"] : other.id # new.id
      BY <1>1 DEF HasKey
    <3> HIDE DEF new
    <3> QED
      BY <3>1, <1>1, <1>2, InsertContent
  <2>4. \A row \in versions : row.id = v \/ HasKey(d, "employee_versions", row.id)
    BY <1>1 DEF HasKey
  <2> HIDE DEF versions, employees
  <2> QED
    BY <2>1, <2>2, <2>3, <2>4
<1>4. CASE HasKey(d, "employees", u.id)
  <2> DEFINE E == [e \in d["employees"] |->
                     IF e.id = u.id THEN [e EXCEPT !.current = u.attributes] ELSE e]
             V == [c \in d["employee_versions"] |->
                     IF c \in CurrentOf(d, u.id) THEN [c EXCEPT !.is_current = FALSE] ELSE c]
             employees == {E[e] : e \in d["employees"]}
             updated == {V[c] : c \in d["employee_versions"]}
             versions == updated \cup {new}
  <2>1. /\ Persisted(d, u, v, now)["employees"] = employees
        /\ Persisted(d, u, v, now)["employee_versions"] = versions
        /\ \A t \in Tables \ {"employees", "employee_versions"} :
              Persisted(d, u, v, now)[t] = d[t]
    <3> DEFINE X == {IF e.id = u.id THEN [e EXCEPT !.current = u.attributes] ELSE e :
                        e \in d["employees"]}
               Y == {IF c \in CurrentOf(d, u.id) THEN [c EXCEPT !.is_current = FALSE] ELSE c :
                        c \in d["employee_versions"]} \cup {new}
    <3>1. X = employees /\ Y = versions
      <4>1. \A e \in d["employees"] :
               E[e] = IF e.id = u.id THEN [e EXCEPT !.current = u.attributes] ELSE e
        OBVIOUS
      <4>2. \A c \in d["employee_versions"] :
               V[c] = IF c \in CurrentOf(d, u.id) THEN [c EXCEPT !.is_current = FALSE] ELSE c
        OBVIOUS
      <4> HIDE DEF E, V, new
      <4>3. X = employees
        <5>1. ASSUME NEW x \in X PROVE x \in employees
          <6>1. PICK e \in d["employees"] :
                   x = IF e.id = u.id THEN [e EXCEPT !.current = u.attributes] ELSE e
            OBVIOUS
          <6>2. x = E[e]
            BY <4>1, <6>1
          <6> QED
            BY <6>2
        <5>2. ASSUME NEW x \in employees PROVE x \in X
          <6>1. PICK e \in d["employees"] : x = E[e]
            OBVIOUS
          <6>2. x = IF e.id = u.id THEN [e EXCEPT !.current = u.attributes] ELSE e
            BY <4>1, <6>1
          <6> QED
            BY <6>2
        <5> HIDE DEF X, employees
        <5> QED
          BY <5>1, <5>2
      <4>4. Y = versions
        <5>1. ASSUME NEW x \in Y, x # new PROVE x \in versions
          <6>1. PICK c \in d["employee_versions"] :
                   x = IF c \in CurrentOf(d, u.id) THEN [c EXCEPT !.is_current = FALSE] ELSE c
            BY <5>1
          <6>2. x = V[c]
            BY <4>2, <6>1
          <6> QED
            BY <6>2
        <5>2. ASSUME NEW x \in versions, x # new PROVE x \in Y
          <6>1. PICK c \in d["employee_versions"] : x = V[c]
            BY <5>2
          <6>2. x = IF c \in CurrentOf(d, u.id) THEN [c EXCEPT !.is_current = FALSE] ELSE c
            BY <4>2, <6>1
          <6> QED
            BY <6>2
        <5>3. new \in Y /\ new \in versions
          OBVIOUS
        <5> HIDE DEF Y, versions
        <5> QED
          BY <5>1, <5>2, <5>3
      <4> QED
        BY <4>3, <4>4
    <3>2. Persisted(d, u, v, now) =
             [d EXCEPT !["employees"] = X, !["employee_versions"] = Y]
      BY <1>4 DEF Persisted
    <3> HIDE DEF X, Y, employees, versions
    <3> QED
      BY <3>1, <3>2
  <2>2. \A e \in d["employees"] : DOMAIN E[e] = DOMAIN e /\ E[e].id = e.id
    <3>1. \A e \in d["employees"] : DOMAIN e = {"id", "hired_as", "current", "first_loaded_at"}
      BY DEF Content, Keyed, KeyedRow
    <3> QED
      BY <3>1
  <2>3. \A c \in d["employee_versions"] : DOMAIN V[c] = DOMAIN c /\ V[c].id = c.id
    <3>1. \A c \in d["employee_versions"] :
             DOMAIN c = {"id", "employee_id", "attributes", "is_current"}
      BY DEF Content, Keyed, KeyedRow
    <3> QED
      BY <3>1
  <2>4. DOMAIN E = d["employees"] /\ DOMAIN V = d["employee_versions"]
    OBVIOUS
  <2> HIDE DEF E, V
  <2>5. Content("employees", employees)
    BY <2>2, <2>4, UpdateContent
  <2>6. Content("employee_versions", updated)
    BY <2>3, <2>4, UpdateContent
  <2>7. \A row \in updated : HasKey(d, "employee_versions", row.id)
    BY <2>3 DEF HasKey
  <2>8. Content("employee_versions", versions)
    <3>1. \A other \in updated : other.id # new.id
      BY <2>7, <1>1
    <3> HIDE DEF new, updated
    <3> QED
      BY <3>1, <1>1, <1>2, <2>6, InsertContent
  <2>9. \A row \in versions : row.id = v \/ HasKey(d, "employee_versions", row.id)
    BY <1>1, <2>7
  <2> HIDE DEF versions, employees
  <2> QED
    BY <2>1, <2>5, <2>8, <2>9
<1> QED
  BY <1>3, <1>4

LEMMA IngestPersistStep ==
    ASSUME BInv, NEW s \in Sessions, IngestPersist(s)
    PROVE  StepOK(s)
<1> USE TableSet
<1> DEFINE u == job[s].upload
           v == nextId["employee_versions"]
           d == Persisted(Seen(s), u, v, clock)
<1>1. HandlersOK /\ SessionOK(s)
  BY DEF BInv
<1>2. pc[s] = "ingest_persist" /\ UNCHANGED << db, files >>
  BY DEF IngestPersist, Fail
<1>3. nextId' = nextId \/ nextId' = [nextId EXCEPT !["employee_versions"] = @ + 1]
  BY DEF IngestPersist
<1>4. /\ nextId' \in [IdentityTables -> Nat \ {0}]
      /\ \A t \in IdentityTables : nextId'[t] >= nextId[t]
      /\ nextId'["loads"] = nextId["loads"]
      /\ v \in Nat
  <2>1. nextId \in [IdentityTables -> Nat \ {0}]
    BY DEF BInv, DatabaseOK
  <2>2. nextId'["loads"] = nextId["loads"] /\ v \in Nat
    BY <1>3, <2>1 DEF IdentityTables
  <2> QED
    BY <1>3, <2>2, SameSequences, NextDrawn DEF IdentityTables
<1>5. s = Ingester /\ DOMAIN work[s] \subseteq {"loads"}
  BY <1>1, <1>2, OnlyIngester DEF LoadingSteps, SessionOK, IngestOK
<1>6. CASE Fail(s)
  BY <1>2, <1>4, <1>6, FailStep DEF RefreshSteps
<1>7. CASE Acquire(s) /\ Goto(s, "ingest_commit") /\ UNCHANGED << job, answer >>
           /\ \/ UNCHANGED work
              \/ /\ Write(s, d) /\ ~ HasKey(db, "employee_versions", v)
                 /\ nextId' = [nextId EXCEPT !["employee_versions"] = @ + 1]
  <2>1. /\ DOMAIN work' = Sessions /\ \A o \in Sessions \ {s} : work'[o] = work[o]
        /\ DOMAIN job' = Sessions /\ \A o \in Sessions \ {s} : job'[o] = job[o]
    BY <1>1, <1>7 DEF Write, HandlersOK
  <2>2. pc' = [pc EXCEPT ![s] = "ingest_commit"] /\ UNCHANGED << db, files, answer >> /\ Acquire(s)
    BY <1>2, <1>7 DEF Goto
  <2>3. /\ DatabaseOK' /\ HandlersOK' /\ LocksApart' /\ KeepsOthers(s)
        /\ pc'[s] = "ingest_commit" /\ answer'[s] = answer[s]
        /\ DOMAIN locks'[s] = {"shared", "exclusive"}
        /\ locks'[s].shared = locks[s].shared \cup NextLocks(s).shared
        /\ Holding(s) \subseteq Holding(s)'
    BY <1>4, <2>1, <2>2, StatementFrame
  <2>4. {"employees", "employee_versions"} \subseteq Holding(s)'
    BY <1>2, <1>5, <2>3 DEF NextLocks, Holding
  <2>5. ASSUME UNCHANGED work PROVE TransactionOK(s)'
    <3>1. ASSUME NEW t \in DOMAIN work[s], t \in IdentityTables PROVE Drawn(t, work[s][t])'
      <4>1. Drawn(t, work[s][t]) /\ Content(t, work[s][t])
        BY <1>1, <3>1 DEF SessionOK, TransactionOK
      <4>2. \A row \in work[s][t] : row.id \in Nat
        BY <4>1, <3>1 DEF Content, Numbered
      <4>3. nextId[t] \in Nat /\ nextId'[t] \in Nat /\ nextId'[t] >= nextId[t]
        BY <1>4, <3>1 DEF BInv, DatabaseOK
      <4>4. ASSUME NEW row \in work[s][t] PROVE row.id < nextId'[t] \/ HasKey(db, t, row.id)
        BY <4>1, <4>2, <4>3 DEF Drawn
      <4> QED
        BY <4>4, <2>2, <2>5 DEF Drawn, HasKey
    <3> QED
      BY <1>1, <2>3, <2>5, <3>1 DEF SessionOK, TransactionOK
  <2>6. ASSUME Write(s, d), ~ HasKey(db, "employee_versions", v),
               nextId' = [nextId EXCEPT !["employee_versions"] = @ + 1]
        PROVE  TransactionOK(s)'
    <3>1. /\ DOMAIN Seen(s) = Tables
          /\ \A t \in {"employees", "employee_versions"} : Seen(s)[t] = db[t]
      BY <1>5 DEF Seen
    <3>2. ~ HasKey(Seen(s), "employee_versions", v)
      BY <2>6, <3>1 DEF HasKey
    <3>3. /\ Content("employees", Seen(s)["employees"])
          /\ Content("employee_versions", Seen(s)["employee_versions"])
      BY SeenTable
    <3>4. /\ \A t \in Tables \ {"employees", "employee_versions"} : d[t] = Seen(s)[t]
          /\ \A t \in {"employees", "employee_versions"} : Content(t, d[t])
          /\ \A row \in d["employee_versions"] :
                row.id = v \/ HasKey(Seen(s), "employee_versions", row.id)
      BY <1>4, <3>1, <3>2, <3>3, PersistedTables
    <3>5. v < nextId'["employee_versions"]
      BY <2>6, NextDrawn DEF IdentityTables
    <3>6. \A row \in d["employee_versions"] :
             row.id < nextId'["employee_versions"] \/ HasKey(db, "employee_versions", row.id)
      BY <3>1, <3>4, <3>5 DEF HasKey
    <3> HIDE DEF d
    <3>7. ASSUME NEW t \in Tables, d[t] # db[t]
          PROVE  /\ t \in Holding(s)' /\ Content(t, d[t])
                 /\ t \in IdentityTables =>
                      \A row \in d[t] : row.id < nextId'[t] \/ HasKey(db, t, row.id)
      <4>1. CASE t \in {"employees", "employee_versions"}
        BY <4>1, <2>4, <3>4, <3>6 DEF IdentityTables
      <4>2. CASE t \notin {"employees", "employee_versions"}
        <5>1. d[t] = Seen(s)[t]
          BY <4>2, <3>4
        <5>2. t \in IdentityTables => nextId'[t] = nextId[t] /\ Drawn(t, d[t])
          BY <5>1, <4>2, <2>6, SeenTable DEF BInv, DatabaseOK
        <5> QED
          BY <5>1, <5>2, <3>7, <2>3, SeenTable DEF Drawn
      <4> QED
        BY <4>1, <4>2
    <3> QED
      BY <1>1, <1>2, <2>3, <2>6, <3>7, WriteTransaction
  <2>7. RequestOK(s)' /\ PlaceOK(s)' /\ RestoreOK(s)' /\ ReplyOK(s)' /\ IngestOK(s)'
    BY <1>1, <1>2, <1>4, <1>5, <1>7, <2>3, SessionsAssumption
    DEF SessionOK, RequestOK, PlaceOK, RestoreOK, ReplyOK, IngestOK, AdminSteps, IngestSteps,
        LoadingSteps, RefreshSteps
  <2> QED
    BY <1>7, <2>3, <2>5, <2>6, <2>7 DEF StepOK, SessionOK
<1> QED
  BY <1>6, <1>7 DEF IngestPersist

LEMMA IngestCommitStep ==
    ASSUME BInv, NEW s \in Sessions, IngestCommit(s)
    PROVE  StepOK(s)
<1> USE TableSet
<1> DEFINE finished == [id |-> job[s].load_id, accepted |-> 1 - job[s].rejected,
                        rejected |-> job[s].rejected]
           rows == {l \in db["loads"] : l.id # job[s].load_id} \cup {finished}
<1>1. HandlersOK /\ LocksApart /\ SessionOK(s) /\ DatabaseOK
  BY DEF BInv
<1>2. /\ pc[s] = "ingest_commit" /\ UNCHANGED << nextId, files, answer >>
      /\ db' = [Seen(s) EXCEPT !["loads"] = rows]
      /\ job' = [job EXCEPT ![s].committed = TRUE]
      /\ pc' = [pc EXCEPT ![s] = "refresh_hires"]
      /\ work' = [work EXCEPT ![s] = NoWrites] /\ locks' = [locks EXCEPT ![s] = NoLocks]
  BY DEF IngestCommit, EndTransaction, Goto
<1>3. s = Ingester /\ "loads" \in Holding(s) /\ job[s].load_id \in Nat
  BY <1>1, <1>2, OnlyIngester DEF LoadingSteps, SessionOK, IngestOK, Holding
<1>4. db'["loads"] = rows /\ \A t \in Tables \ {"loads"} : db'[t] = Seen(s)[t]
  BY <1>2 DEF Seen
<1>5. Content("loads", rows)
  <2>1. Content("loads", db["loads"]) /\ KeyedRow("loads", finished)
    BY <1>1 DEF DatabaseOK, KeyedRow
  <2> QED
    BY <2>1, <1>3, InsertOrReplace
<1>6. DatabaseOK'
  <2>1. DOMAIN db' = Tables
    BY <1>2 DEF Seen
  <2> HIDE DEF rows
  <2>2. \A t \in Tables : Content(t, db'[t])
    BY <1>4, <1>5, SeenTable
  <2> QED
    BY <1>1, <1>2, <2>1, <2>2 DEF DatabaseOK
<1>7. HandlersOK'
  BY <1>1, <1>2 DEF HandlersOK
<1>8. /\ pc'[s] = "refresh_hires" /\ work'[s] = NoWrites /\ locks'[s] = NoLocks
      /\ answer'[s] = answer[s]
      /\ DOMAIN job'[s] = DOMAIN job[s] /\ job'[s].table = job[s].table
      /\ job'[s].rows = job[s].rows /\ job'[s].step = job[s].step
  BY <1>1, <1>2 DEF HandlersOK, SessionOK, RequestOK
<1>9. KeepsOthers(s)
  <2>1. \A t \in Tables : t \notin Holding(s) => db'[t] = db[t]
    BY <1>3, <1>4, SeenTable
  <2> QED
    BY <1>1, <1>2, <2>1, SameSequences DEF HandlersOK, KeepsOthers
<1>10. LocksApart'
  <2>1. ASSUME NEW p \in Sessions, NEW o \in Sessions, p # o
        PROVE  locks'[p].exclusive \cap (locks'[o].shared \cup locks'[o].exclusive) = {}
    <3>1. CASE p = s
      BY <3>1, <1>8 DEF NoLocks
    <3>2. CASE o = s
      BY <3>2, <1>8 DEF NoLocks
    <3>3. CASE p # s /\ o # s
      BY <3>3, <2>1, <1>1, <1>9 DEF LocksApart, KeepsOthers
    <3> QED
      BY <3>1, <3>2, <3>3
  <2> QED
    BY <2>1 DEF LocksApart
<1>11. RequestOK(s)'
  BY <1>1, <1>8 DEF SessionOK, RequestOK
<1>12. TransactionOK(s)'
  BY <1>8 DEF TransactionOK, NoWrites, NoLocks
<1>13. RestoreOK(s)' /\ IngestOK(s)' /\ PlaceOK(s)'
  BY <1>3, <1>8, SessionsAssumption
  DEF RestoreOK, IngestOK, PlaceOK, LoadingSteps, AdminSteps, IngestSteps, RefreshSteps
<1>14. ReplyOK(s)'
  BY <1>1, <1>2, <1>8 DEF SessionOK, ReplyOK, RefreshSteps
<1> QED
  BY <1>6, <1>7, <1>9, <1>10, <1>11, <1>12, <1>13, <1>14 DEF StepOK, SessionOK

LEMMA StatementSteps ==
    ASSUME BInv, NEW s \in Sessions, Statement(s)
    PROVE  StepOK(s)
<1>1. CASE ResetRefresh(s) \/ RefreshHires(s)
  BY <1>1, ReadingStep DEF ResetRefresh, RefreshHires, Goto
<1>2. CASE RefreshAverage(s)
  BY <1>2, RefreshEnds DEF RefreshAverage
<1> QED
  BY <1>1, <1>2, BackupSelectStep, BackupOpenStep, BackupCloseStep, RestoreReadStep,
     RestoreTruncateStep, RestoreInsertStep, RestoreCommitStep, ResetTruncateStep,
     ResetCommitStep, IngestCreateStep, IngestUpsertStep, IngestCheckStep, IngestRejectStep,
     IngestPersistStep, IngestCommitStep
  DEF Statement

LEMMA InterruptedSteps ==
    ASSUME BInv, NEW s \in Sessions, RefreshFails(s) \/ Abort(s) \/ DeadlockVictim(s)
    PROVE  StepOK(s)
<1>1. CASE RefreshFails(s)
  BY <1>1, RefreshEnds DEF RefreshFails
<1>2. CASE Abort(s)
  BY <1>2, SameSequences, FailStep DEF Abort, Fail, Refreshing, RefreshSteps
<1>3. CASE DeadlockVictim(s)
  <2>1. CASE Refreshing(s)
    BY <1>3, <2>1, RefreshEnds DEF DeadlockVictim, RefreshFails
  <2>2. CASE ~ Refreshing(s)
    <3>1. pc[s] # "idle"
      <4>1. SUFFICES ASSUME pc[s] = "idle" PROVE WaitsFor(s) = {}
        BY <1>3 DEF DeadlockVictim, InWaitCycle
      <4>2. NextLocks(s) = NoLocks
        BY <4>1 DEF NextLocks
      <4> QED
        BY <4>2 DEF WaitsFor, NoLocks
    <3>2. Fail(s) /\ UNCHANGED nextId
      BY <1>3, <2>2 DEF DeadlockVictim
    <3> QED
      BY <2>2, <3>1, <3>2, SameSequences, FailStep DEF Refreshing, RefreshSteps
  <2> QED
    BY <2>1, <2>2
<1> QED
  BY <1>1, <1>2, <1>3

-----------------------------------------------------------------------------
(***************************************************************************)
(* The invariant and what follows from it.                                 *)
(***************************************************************************)
LEMMA BInvInit == Init => BInv
<1> SUFFICES ASSUME Init PROVE BInv
  OBVIOUS
<1> USE TableSet
<1>1. PICK start \in {<< Populated, Backed >>, << Empty, Backed >>,
                      << Populated, [t \in Tables |-> NoFile] >>} :
         db = start[1] /\ files = start[2]
  BY DEF Init
<1>2. ASSUME NEW t \in Tables PROVE Content(t, Populated[t]) /\ Content(t, Backed[t])
  <2>1. IsFiniteSet(Populated[t]) /\ Keyed(t, Populated[t])
    BY PopulatedAssumption
  <2>2. t \in IdentityTables => \A row \in Populated[t] : row.id \in Nat
    BY PopulatedAssumption
  <2>3. Content(t, Populated[t])
    BY <2>1, <2>2, FiniteNumbered DEF Content
  <2> QED
    BY <2>3, FileContent DEF Backed
<1>3. ASSUME NEW t \in Tables PROVE Content(t, Empty[t]) /\ IsFiniteSet(Empty[t])
  BY NoRowsContent, FS_EmptySet DEF Empty
<1>4. db \in {Populated, Empty} /\ files \in {Backed, [t \in Tables |-> NoFile]}
  BY <1>1
<1>5. DOMAIN db = Tables /\ DOMAIN files = Tables
  BY <1>4, PopulatedAssumption DEF Empty, Backed
<1>6. \A t \in Tables : Content(t, db[t]) /\ IsFiniteSet(db[t])
  BY <1>2, <1>3, <1>4, PopulatedAssumption
<1>7. \A t \in Tables : files[t] \notin {NoFile, Torn} => Content(t, files[t])
  BY <1>2, <1>4
<1>8. nextId \in [IdentityTables -> Nat \ {0}]
  <2>1. nextId = [t \in IdentityTables |-> Cardinality(db[t]) + 1]
    BY DEF Init
  <2>2. \A t \in IdentityTables : Cardinality(db[t]) \in Nat
    BY <1>6, FS_CardinalityType
  <2> QED
    BY <2>1, <2>2
<1>9. DatabaseOK
  BY <1>5, <1>6, <1>7, <1>8 DEF DatabaseOK
<1>10. /\ work = [s \in Sessions |-> NoWrites] /\ locks = [s \in Sessions |-> NoLocks]
       /\ pc = [s \in Sessions |-> "idle"] /\ job = [s \in Sessions |-> NoJob]
       /\ answer = [s \in Sessions |-> "none"]
  BY DEF Init
<1>11. HandlersOK
  BY <1>10 DEF HandlersOK
<1>12. LocksApart
  BY <1>10 DEF LocksApart, NoLocks
<1>13. ASSUME NEW s \in Sessions PROVE SessionOK(s)
  <2>1. RequestOK(s)
    <3>1. job[s] = NoJob
      BY <1>10
    <3> QED
      BY <3>1, NoRowsContent DEF RequestOK, NoJob
  <2>2. TransactionOK(s)
    <3>1. work[s] = NoWrites /\ DOMAIN work[s] = {} /\ locks[s] = NoLocks
      BY <1>10 DEF NoWrites
    <3> QED
      BY <3>1 DEF TransactionOK, NoLocks
  <2>3. /\ pc[s] = "idle" /\ answer[s] = "none" /\ work[s] = NoWrites /\ job[s] = NoJob
    BY <1>10
  <2>4. RestoreOK(s) /\ PlaceOK(s)
    BY <2>3 DEF RestoreOK, PlaceOK, LoadingSteps, AdminSteps, IngestSteps
  <2>5. IngestOK(s) /\ ReplyOK(s)
    BY <2>3 DEF IngestOK, ReplyOK, NoJob, LoadingSteps
  <2> QED
    BY <2>1, <2>2, <2>4, <2>5 DEF SessionOK
<1> QED
  BY <1>9, <1>11, <1>12, <1>13 DEF BInv

LEMMA BInvNext ==
    ASSUME BInv, [Next]_vars
    PROVE  BInv'
<1>1. CASE UNCHANGED vars
  BY <1>1 DEF vars, BInv, DatabaseOK, HandlersOK, LocksApart, SessionOK, RequestOK,
     TransactionOK, Holding, Drawn, HasKey, RestoreOK, Seen, IngestOK, PlaceOK, ReplyOK
<1>2. CASE Quiet
  BY <1>1, <1>2 DEF Quiet
<1>3. ASSUME NEW s \in Sessions,
             Post(s) \/ Statement(s) \/ RefreshFails(s) \/ Abort(s) \/ DeadlockVictim(s)
      PROVE  BInv'
  BY <1>3, PostSteps, StatementSteps, InterruptedSteps, StepKeepsInv
<1> QED
  BY <1>1, <1>2, <1>3 DEF Next

LEMMA BInvAlways == Spec => []BInv
BY BInvInit, BInvNext, PTL DEF Spec

\* Whatever rows are loaded and uploaded, whatever the files hold, and however
\* many handlers run the operations at once, no table, no uncommitted table and
\* no complete file ever has two rows under one key or rows of other columns.
THEOREM TypeAlways == Spec => []TypeOK
<1>1. BInv => TypeOK
  <2> SUFFICES ASSUME BInv PROVE TypeOK
    OBVIOUS
  <2>1. DatabaseOK /\ HandlersOK /\ \A s \in Sessions : RequestOK(s) /\ TransactionOK(s)
    BY DEF BInv, SessionOK
  <2>2. \A s \in Sessions : \A t \in DOMAIN work[s] : Keyed(t, work[s][t])
    BY <2>1 DEF TransactionOK, Content
  <2>3. DOMAIN nextId = IdentityTables /\ \A t \in IdentityTables : nextId[t] \in Nat \ {0}
    BY <2>1 DEF DatabaseOK
  <2>4. \A t \in Tables : /\ Keyed(t, db[t])
                          /\ files[t] \notin {NoFile, Torn} => Keyed(t, files[t])
    BY <2>1 DEF DatabaseOK, Content
  <2>5. \A s \in Sessions : job[s].table \in Tables /\ job[s].step \in 1 .. Len(TableNames) + 1
    BY <2>1, TableSet DEF RequestOK
  <2> QED
    BY <2>1, <2>2, <2>3, <2>4, <2>5 DEF TypeOK, HandlersOK
<1> QED
  BY <1>1, BInvAlways, PTL

\* After a 404 or a 500 nothing of the request is committed, after a 200 all of
\* it: also when the deadlock detector or a crash ended one of its statements.
THEOREM AnswersAreTrue == Spec => []AnswerTellsOutcome
<1>1. BInv => AnswerTellsOutcome
  BY DEF BInv, SessionOK, ReplyOK, AnswerTellsOutcome
<1> QED
  BY <1>1, BInvAlways, PTL

-----------------------------------------------------------------------------
(***************************************************************************)
(* Sequences and their rows.                                               *)
(***************************************************************************)
LEMMA StaysAhead ==
    ASSUME BInv, BInv', NEW t \in IdentityTables, nextId'[t] >= nextId[t],
           \A row \in db'[t] : row.id < nextId[t] \/ HasKey(db, t, row.id),
           Behind(t)'
    PROVE  Behind(t)
<1>1. PICK row \in db'[t] : row.id >= nextId'[t]
  BY DEF Behind
<1>2. nextId[t] \in Nat /\ nextId'[t] \in Nat
  BY DEF BInv, DatabaseOK
<1>3. row.id \in Nat
  BY TableSet DEF BInv, DatabaseOK, Content, Numbered
<1>4. ~ (row.id < nextId[t]) /\ row.id >= nextId[t]
  BY <1>1, <1>2, <1>3
<1>5. PICK old \in db[t] : old.id = row.id
  BY <1>4 DEF HasKey
<1> QED
  BY <1>4, <1>5 DEF Behind

\* Only a commit changes the tables, and only the setval of a restore can turn
\* a sequence back.
LEMMA SequencesAdvance ==
    ASSUME BInv, NEW s \in Sessions, NEW t \in IdentityTables,
           Post(s) \/ Statement(s) \/ RefreshFails(s) \/ Abort(s) \/ DeadlockVictim(s),
           ~ (RestoreInsert(s) /\ job[s].table = t)
    PROVE  /\ nextId'[t] >= nextId[t]
           /\ db' = db \/ RestoreCommit(s) \/ ResetCommit(s) \/ IngestCommit(s)
<1>1. nextId[t] \in Nat /\ nextId \in [IdentityTables -> Nat \ {0}]
  BY DEF BInv, DatabaseOK
<1>2. CASE Post(s) \/ RefreshFails(s) \/ Abort(s) \/ DeadlockVictim(s)
  <2>1. CASE Post(s)
    <3>1. db' = db /\ nextId' = nextId
      BY <2>1 DEF Post, PostBackup, PostRestore, PostReset, PostUpload
    <3> QED
      BY <1>1, <3>1
  <2>2. CASE RefreshFails(s) \/ Abort(s) \/ DeadlockVictim(s)
    <3>1. db' = db /\ nextId' = nextId
      BY <2>2 DEF RefreshFails, Abort, DeadlockVictim, Fail
    <3> QED
      BY <1>1, <3>1
  <2> QED
    BY <1>2, <2>1, <2>2
<1>3. CASE BackupSelect(s) \/ BackupOpen(s) \/ BackupClose(s) \/ RestoreRead(s)
           \/ RestoreTruncate(s) \/ ResetTruncate(s) \/ ResetRefresh(s) \/ IngestUpsert(s)
           \/ IngestCheck(s) \/ RefreshHires(s) \/ RefreshAverage(s)
  <2>1. db' = db /\ nextId' = nextId
    BY <1>3 DEF BackupSelect, BackupOpen, BackupClose, RestoreRead, RestoreTruncate,
       ResetTruncate, ResetRefresh, IngestUpsert, IngestCheck, RefreshHires, RefreshAverage, Fail
  <2> QED
    BY <1>1, <2>1
<1>4. CASE RestoreCommit(s) \/ ResetCommit(s) \/ IngestCommit(s)
  <2>1. nextId' = nextId
    BY <1>4 DEF RestoreCommit, ResetCommit, IngestCommit
  <2> QED
    BY <1>1, <1>4, <2>1
<1>5. CASE RestoreInsert(s)
  <2>1. /\ db' = db /\ job[s].table # t
        /\ nextId' = nextId \/ nextId' = Resynced(job[s].table, job[s].rows)
    BY <1>5 DEF RestoreInsert, Fail
  <2>2. nextId'[t] = nextId[t]
    BY <2>1, ResyncedSequence DEF BInv, SessionOK, RequestOK
  <2> QED
    BY <1>1, <2>1, <2>2
<1>6. CASE IngestCreate(s) \/ IngestReject(s) \/ IngestPersist(s)
  <2>1. db' = db
    BY <1>6 DEF IngestCreate, IngestReject, IngestPersist, Fail
  <2>2. \/ nextId' = nextId
        \/ \E u \in IdentityTables : nextId' = [nextId EXCEPT ![u] = @ + 1]
    BY <1>6 DEF IngestCreate, IngestReject, IngestPersist, IdentityTables
  <2> QED
    BY <1>1, <2>1, <2>2, NextDrawn
<1> QED
  BY <1>2, <1>3, <1>4, <1>5, <1>6 DEF Statement

LEMMA CommitsAhead ==
    ASSUME BInv, NEW s \in Sessions, NEW t \in IdentityTables,
           RestoreCommit(s) \/ ResetCommit(s) \/ IngestCommit(s)
    PROVE  \A row \in db'[t] : row.id < nextId[t] \/ HasKey(db, t, row.id)
<1> USE TableSet
<1>1. \A row \in Seen(s)[t] : row.id < nextId[t] \/ HasKey(db, t, row.id)
  BY SeenTable DEF Drawn
<1>2. CASE RestoreCommit(s) \/ ResetCommit(s)
  BY <1>1, <1>2 DEF RestoreCommit, ResetCommit
<1>3. CASE IngestCommit(s)
  <2> DEFINE finished == [id |-> job[s].load_id, accepted |-> 1 - job[s].rejected,
                          rejected |-> job[s].rejected]
             rows == {l \in db["loads"] : l.id # job[s].load_id} \cup {finished}
  <2>1. db' = [Seen(s) EXCEPT !["loads"] = rows]
    BY <1>3 DEF IngestCommit
  <2>2. db'["loads"] = rows /\ (t # "loads" => db'[t] = Seen(s)[t])
    BY <2>1 DEF Seen
  <2>3. job[s].load_id < nextId["loads"]
    BY <1>3 DEF IngestCommit, BInv, SessionOK, IngestOK, LoadingSteps
  <2>4. \A row \in rows : row.id < nextId["loads"] \/ HasKey(db, "loads", row.id)
    BY <2>3 DEF HasKey
  <2> HIDE DEF rows
  <2> QED
    BY <1>1, <2>2, <2>4
<1> QED
  BY <1>2, <1>3

LEMMA AheadStep ==
    ASSUME BInv, BInv', [Next]_vars, NEW t \in IdentityTables
    PROVE  /\ Behind(t)' => \/ Behind(t)
                            \/ \E s \in Sessions : RestoreInsert(s) /\ job[s].table = t
           /\ \A s \in Sessions : RestoreCommit(s) /\ job[s].table = t => ~ Behind(t)'
<1>1. ASSUME NEW s \in Sessions, RestoreCommit(s), job[s].table = t, Behind(t)' PROVE FALSE
  <2>1. db' = Seen(s) /\ nextId' = nextId /\ pc[s] = "restore_commit"
    BY <1>1 DEF RestoreCommit
  <2>2. \A row \in db'[t] : row.id < nextId[t]
    BY <1>1, <2>1 DEF BInv, SessionOK, RestoreOK
  <2>3. PICK row \in db'[t] : row.id >= nextId[t]
    BY <1>1, <2>1 DEF Behind
  <2>4. nextId[t] \in Nat /\ row.id \in Nat
    BY TableSet DEF BInv, DatabaseOK, Content, Numbered
  <2> QED
    BY <2>2, <2>3, <2>4
<1>2. ASSUME Behind(t)', ~ \E s \in Sessions : RestoreInsert(s) /\ job[s].table = t
      PROVE  Behind(t)
  <2>1. CASE UNCHANGED << db, nextId >>
    BY <1>2, <2>1 DEF Behind
  <2>2. ASSUME NEW s \in Sessions,
               Post(s) \/ Statement(s) \/ RefreshFails(s) \/ Abort(s) \/ DeadlockVictim(s)
        PROVE  Behind(t)
    <3>1. /\ nextId'[t] >= nextId[t]
          /\ db' = db \/ RestoreCommit(s) \/ ResetCommit(s) \/ IngestCommit(s)
      BY <1>2, <2>2, SequencesAdvance
    <3>2. \A row \in db'[t] : row.id < nextId[t] \/ HasKey(db, t, row.id)
      BY <3>1, CommitsAhead DEF HasKey
    <3> QED
      BY <1>2, <3>1, <3>2, StaysAhead
  <2>3. UNCHANGED vars \/ Quiet => UNCHANGED << db, nextId >>
    BY DEF vars, Quiet
  <2> QED
    BY <2>1, <2>2, <2>3 DEF Next
<1> QED
  BY <1>1, <1>2

\* A sequence falls behind its rows by the setval of a restore that has not
\* committed only, and no committed restore leaves it there: for files with any
\* ids, and with the other operations and an ingestion drawing ids meanwhile.
THEOREM SequencesStayAhead == Spec => SequencesKeepAhead
<1>1. BInv /\ BInv' /\ [Next]_vars =>
        [\A t \in IdentityTables :
            /\ Behind(t)' => \/ Behind(t)
                             \/ \E s \in Sessions : RestoreInsert(s) /\ job[s].table = t
            /\ \A s \in Sessions : RestoreCommit(s) /\ job[s].table = t => ~ Behind(t)']_vars
  BY AheadStep
<1> QED
  BY <1>1, BInvAlways, PTL DEF Spec, SequencesKeepAhead

-----------------------------------------------------------------------------
(***************************************************************************)
(* Restoring the six tables in the order of reference.                     *)
(***************************************************************************)
LEMMA NamesInOrder ==
    /\ TableNames[1] = "departments" /\ TableNames[2] = "jobs" /\ TableNames[3] = "employees"
    /\ TableNames[4] = "employee_versions" /\ TableNames[5] = "loads"
    /\ TableNames[6] = "rejected_records"
BY DEF TableNames

\* A table refers to earlier ones only, so no restore empties an earlier table.
LEMMA EarlierTablesStay ==
    ASSUME NEW n \in 1 .. 6, NEW i \in 1 .. 6, i < n
    PROVE  TableNames[i] \notin Cascade(TableNames[n])
<1> USE TableSet, NamesInOrder
<1>1. TableNames[i] # TableNames[n]
  OBVIOUS
<1>2. TableNames[n] \notin References[TableNames[i]]
  <2>1. CASE i \in {1, 2, 5}
    BY <2>1 DEF References
  <2>2. CASE i = 3
    BY <2>2 DEF References
  <2>3. CASE i = 4
    BY <2>3 DEF References
  <2>4. i \in 1 .. 5
    OBVIOUS
  <2> QED
    BY <2>1, <2>2, <2>3, <2>4
<1> QED
  BY <1>1, <1>2 DEF Cascade

\* The rows of a file refer to earlier tables, before and after the INSERT.
LEMMA ReferredEarlier ==
    ASSUME NEW n \in 1 .. 6, NEW row, NEW r \in Referred(TableNames[n], row)
    PROVE  \E i \in 1 .. 6 : i < n /\ r[1] = TableNames[i]
<1> USE NamesInOrder
<1>1. CASE n = 3
  BY <1>1 DEF Referred
<1>2. CASE n = 4
  BY <1>2 DEF Referred
<1>3. CASE n = 6
  BY <1>3 DEF Referred
<1>4. CASE n \in {1, 2, 5}
  BY <1>4 DEF Referred
<1> QED
  BY <1>1, <1>2, <1>3, <1>4

LEMMA FromAvroRows ==
    ASSUME NEW t \in Tables, NEW rows, Keyed(t, rows), NEW now
    PROVE  /\ \A row \in rows : \E new \in FromAvro(t, rows, now) : new.id = row.id
           /\ \A new \in FromAvro(t, rows, now) : \E row \in rows :
                new.id = row.id /\ Referred(t, new) = Referred(t, row)
<1>1. CASE t # "employees"
  BY <1>1 DEF FromAvro
<1>2. CASE t = "employees"
  <2>1. \A e \in rows : DOMAIN e = {"id", "hired_as", "current", "first_loaded_at"}
    BY <1>2 DEF Keyed, KeyedRow
  <2>2. \A e \in rows : LET new == [e EXCEPT !.first_loaded_at = now] IN
           new.id = e.id /\ new.hired_as = e.hired_as /\ new.current = e.current
    BY <2>1
  <2>3. FromAvro(t, rows, now) = {[e EXCEPT !.first_loaded_at = now] : e \in rows}
    BY <1>2 DEF FromAvro
  <2>4. ASSUME NEW new \in FromAvro(t, rows, now)
        PROVE  \E row \in rows : new.id = row.id /\ Referred(t, new) = Referred(t, row)
    <3>1. PICK e \in rows : new = [e EXCEPT !.first_loaded_at = now]
      BY <2>3
    <3>2. new.id = e.id /\ new.hired_as = e.hired_as /\ new.current = e.current
      BY <2>2, <3>1
    <3>3. Referred(t, new) = Referred(t, e)
      BY <1>2, <3>2 DEF Referred
    <3> QED
      BY <3>2, <3>3
  <2>5. ASSUME NEW row \in rows PROVE \E new \in FromAvro(t, rows, now) : new.id = row.id
    BY <2>2, <2>3
  <2> QED
    BY <2>4, <2>5
<1> QED
  BY <1>1, <1>2

\* The tables after the next restore.
NextRestored(d, n) ==
    Loaded(Emptied(d, TableNames[n]), TableNames[n], files[TableNames[n]], clock)

\* RestoredInOrder is the function that its equation describes.
LEMMA RestoredInOrderDef ==
    RestoredInOrder =
        [n \in 0 .. 6 |-> IF n = 0 THEN db ELSE NextRestored(RestoredInOrder[n - 1], n)]
<1> DEFINE Solves(f) == f = [n \in 0 .. 6 |-> IF n = 0 THEN db ELSE NextRestored(f[n - 1], n)]
           d1 == NextRestored(db, 1)
           d2 == NextRestored(d1, 2)
           d3 == NextRestored(d2, 3)
           d4 == NextRestored(d3, 4)
           d5 == NextRestored(d4, 5)
           d6 == NextRestored(d5, 6)
           g == [n \in 0 .. 6 |-> CASE n = 0 -> db [] n = 1 -> d1 [] n = 2 -> d2 [] n = 3 -> d3
                                    [] n = 4 -> d4 [] n = 5 -> d5 [] n = 6 -> d6]
<1>1. Solves(g)
  <2>1. ASSUME NEW n \in 0 .. 6
        PROVE  g[n] = IF n = 0 THEN db ELSE NextRestored(g[n - 1], n)
    <3>1. n \in {0, 1, 2, 3, 4, 5, 6}
      OBVIOUS
    <3>2. /\ g[0] = db /\ g[1] = d1 /\ g[2] = d2 /\ g[3] = d3 /\ g[4] = d4 /\ g[5] = d5
          /\ g[6] = d6
      <4> HIDE DEF d1, d2, d3, d4, d5, d6
      <4> QED
        OBVIOUS
    <3> HIDE DEF g
    <3> QED
      BY <3>1, <3>2
  <2>2. g = [n \in 0 .. 6 |-> g[n]]
    OBVIOUS
  <2> HIDE DEF g
  <2> QED
    BY <2>1, <2>2
<1>2. RestoredInOrder = CHOOSE f : Solves(f)
  BY TableSet DEF RestoredInOrder, NextRestored
<1>3. Solves(RestoredInOrder)
  <2> HIDE DEF Solves, g
  <2> QED
    BY <1>1, <1>2
<1> QED
  BY <1>3

\* The tables of d up to the n-th are as the files have them.
BroughtBack(d, n) ==
    \A i \in 1 .. n : d[TableNames[i]] = FromAvro(TableNames[i], files[TableNames[i]], clock)

LEMMA NextIsBroughtBack ==
    ASSUME BInv, FilesAgree, NEW n \in 1 .. 6, NEW d, BroughtBack(d, n - 1)
    PROVE  /\ BroughtBack(NextRestored(d, n), n)
           /\ ReferencesFound(NextRestored(d, n), TableNames[n])
<1> USE TableSet
<1> DEFINE t == TableNames[n]
           e == NextRestored(d, n)
<1>1. t \in Tables /\ \A u \in Tables : Keyed(u, files[u])
  BY DEF FilesAgree, BInv, DatabaseOK, Content
<1>2. e[t] = FromAvro(t, files[t], clock)
  BY <1>1 DEF NextRestored, Loaded, Emptied, Cascade
<1>3. ASSUME NEW i \in 1 .. 6, i < n
      PROVE  e[TableNames[i]] = FromAvro(TableNames[i], files[TableNames[i]], clock)
  <2>1. TableNames[i] \notin Cascade(t)
    BY <1>3, EarlierTablesStay
  <2>2. TableNames[i] \in Tables /\ TableNames[i] # t
    BY <1>1, <2>1 DEF Cascade
  <2>3. e[TableNames[i]] = d[TableNames[i]]
    BY <2>1, <2>2 DEF NextRestored, Loaded, Emptied
  <2>4. i \in 1 .. n - 1
    BY <1>3
  <2> QED
    BY <2>3, <2>4 DEF BroughtBack
<1> HIDE DEF e
<1>4. BroughtBack(e, n)
  <2>1. ASSUME NEW i \in 1 .. n
        PROVE  e[TableNames[i]] = FromAvro(TableNames[i], files[TableNames[i]], clock)
    <3>1. i \in 1 .. 6 /\ (i = n \/ i < n)
      OBVIOUS
    <3> QED
      BY <3>1, <1>2, <1>3
  <2> QED
    BY <2>1 DEF BroughtBack
<1>5. ASSUME NEW row \in e[t], NEW r \in Referred(t, row) PROVE HasKey(e, r[1], r[2])
  <2>1. PICK old \in files[t] : Referred(t, row) = Referred(t, old)
    BY <1>1, <1>2, FromAvroRows
  <2>2. HasKey(files, r[1], r[2])
    BY <1>1, <1>5, <2>1 DEF FilesAgree, ReferencesFound
  <2>3. PICK i \in 1 .. 6 : i < n /\ r[1] = TableNames[i]
    BY <1>5, ReferredEarlier
  <2>4. PICK other \in files[TableNames[i]] : other.id = r[2]
    BY <2>2, <2>3 DEF HasKey
  <2>5. TableNames[i] \in Tables
    OBVIOUS
  <2>6. PICK new \in FromAvro(TableNames[i], files[TableNames[i]], clock) : new.id = r[2]
    BY <1>1, <2>4, <2>5, FromAvroRows
  <2>7. new \in e[r[1]]
    BY <1>3, <2>3, <2>6
  <2> QED
    BY <2>6, <2>7 DEF HasKey
<1>6. ReferencesFound(e, t)
  BY <1>5 DEF ReferencesFound
<1> QED
  BY <1>4, <1>6 DEF e

LEMMA AllBroughtBack ==
    ASSUME BInv, FilesAgree
    PROVE  /\ \A n \in 1 .. 6 : ReferencesFound(RestoredInOrder[n], TableNames[n])
           /\ BroughtBack(RestoredInOrder[6], 6)
<1> DEFINE after == RestoredInOrder
<1>1. \A n \in 1 .. 6 : after[n] = NextRestored(after[n - 1], n)
  <2>1. ASSUME NEW n \in 1 .. 6 PROVE after[n] = NextRestored(after[n - 1], n)
    <3>1. n \in 0 .. 6 /\ n # 0
      OBVIOUS
    <3> HIDE DEF after
    <3>2. after = [m \in 0 .. 6 |-> IF m = 0 THEN db ELSE NextRestored(after[m - 1], m)]
      BY RestoredInOrderDef DEF after
    <3> QED
      BY <3>1, <3>2
  <2> QED
    BY <2>1
<1> HIDE DEF after
<1>2. BroughtBack(after[0], 0)
  BY DEF BroughtBack
<1>3. ASSUME NEW n \in 1 .. 6, BroughtBack(after[n - 1], n - 1)
      PROVE  BroughtBack(after[n], n) /\ ReferencesFound(after[n], TableNames[n])
  BY <1>1, <1>3, NextIsBroughtBack
<1>4. BroughtBack(after[1], 1) /\ ReferencesFound(after[1], TableNames[1])
  BY <1>2, <1>3
<1>5. BroughtBack(after[2], 2) /\ ReferencesFound(after[2], TableNames[2])
  BY <1>4, <1>3
<1>6. BroughtBack(after[3], 3) /\ ReferencesFound(after[3], TableNames[3])
  BY <1>5, <1>3
<1>7. BroughtBack(after[4], 4) /\ ReferencesFound(after[4], TableNames[4])
  BY <1>6, <1>3
<1>8. BroughtBack(after[5], 5) /\ ReferencesFound(after[5], TableNames[5])
  BY <1>7, <1>3
<1>9. BroughtBack(after[6], 6) /\ ReferencesFound(after[6], TableNames[6])
  BY <1>8, <1>3
<1>10. \A n \in 1 .. 6 : n \in {1, 2, 3, 4, 5, 6}
  OBVIOUS
<1> QED
  BY <1>4, <1>5, <1>6, <1>7, <1>8, <1>9, <1>10 DEF after

\* Inserting the rows of a file changes no column but first_loaded_at.
LEMMA RestorableRows ==
    ASSUME NEW t, NEW rows, NEW now
    PROVE  Restorable(t, FromAvro(t, rows, now)) = Restorable(t, rows)
<1>1. CASE t # "employees"
  BY <1>1 DEF Restorable, FromAvro
<1>2. CASE t = "employees"
  <2> DEFINE new == FromAvro(t, rows, now)
  <2>1. new = {[e EXCEPT !.first_loaded_at = now] : e \in rows}
    BY <1>2 DEF FromAvro
  <2>2. \A e \in rows : [[e EXCEPT !.first_loaded_at = now] EXCEPT !.first_loaded_at = 0]
                          = [e EXCEPT !.first_loaded_at = 0]
    OBVIOUS
  <2> HIDE DEF new
  <2>3. ASSUME NEW e \in rows
        PROVE  [e EXCEPT !.first_loaded_at = 0] \in {[n EXCEPT !.first_loaded_at = 0] : n \in new}
    <3>1. [e EXCEPT !.first_loaded_at = now] \in new
      BY <2>1
    <3> QED
      BY <3>1, <2>2
  <2>4. ASSUME NEW n \in new
        PROVE  [n EXCEPT !.first_loaded_at = 0] \in {[e EXCEPT !.first_loaded_at = 0] : e \in rows}
    <3>1. PICK e \in rows : n = [e EXCEPT !.first_loaded_at = now]
      BY <2>1
    <3> QED
      BY <3>1, <2>2
  <2>5. {[n EXCEPT !.first_loaded_at = 0] : n \in new} = {[e EXCEPT !.first_loaded_at = 0] : e \in rows}
    BY <2>3, <2>4
  <2> QED
    BY <1>2, <2>5 DEF Restorable, new
<1> QED
  BY <1>1, <1>2

\* Six files that agree bring every table back but for first_loaded_at,
\* whatever the tables and the files hold: in the documented order no restore
\* violates a foreign key or empties a table that is restored already.
THEOREM RestoresRecover == Spec => []RestoreInOrderRecovers
<1>1. BInv => RestoreInOrderRecovers
  <2> SUFFICES ASSUME BInv, FilesAgree
               PROVE  /\ \A n \in 1 .. 6 : ReferencesFound(RestoredInOrder[n], TableNames[n])
                      /\ \A t \in Tables :
                           Restorable(t, RestoredInOrder[6][t]) = Restorable(t, files[t])
    BY TableSet DEF RestoreInOrderRecovers
  <2>1. \A t \in Tables : \E i \in 1 .. 6 : t = TableNames[i]
    BY TableSet DEF Tables
  <2>2. \A t \in Tables : RestoredInOrder[6][t] = FromAvro(t, files[t], clock)
    BY <2>1, AllBroughtBack DEF BroughtBack
  <2>3. \A t \in Tables : Restorable(t, RestoredInOrder[6][t]) = Restorable(t, files[t])
    BY <2>2, RestorableRows
  <2> QED
    BY <2>3, AllBroughtBack
<1> QED
  BY <1>1, BInvAlways, PTL

=============================================================================
