------------------------- MODULE ReportViewsProofs -------------------------
(***************************************************************************)
(* The reports beside concurrent loads, restores and resets, for any tables*)
(* and batches: what a refresh has read before it waits for its lock is    *)
(* never older than the last reset when it is published, and the two       *)
(* reports of any tables agree.                                            *)
(***************************************************************************)
EXTENDS ReportViews, TLAPS, FiniteSetTheorems, WellFoundedInduction

(***************************************************************************)
(* The rows of a batch, one after another.                                 *)
(***************************************************************************)
Smaller == {ss \in Nat \X Nat : ss[1] < ss[2]}

LEMMA LeastNumber ==
    ASSUME NEW S, S \subseteq Nat, S # {}
    PROVE  \E m \in S : \A k \in S : m <= k
<1>1. IsWellFoundedOn(Smaller, Nat)
  BY NatLessThanWellFounded, Zenon DEF OpToRel, Smaller
<1>2. PICK m \in S : \A k \in S : ~ (<< k, m >> \in Smaller)
  BY <1>1, WFMin, Zenon
<1>3. ASSUME NEW k \in S PROVE m <= k
  <2>1. k \in Nat /\ m \in Nat /\ ~ (<< k, m >> \in Smaller)
    BY <1>2
  <2>2. k < m => << k, m >> \in Smaller
    BY <2>1 DEF Smaller
  <2> QED
    BY <2>1, <2>2
<1> QED
  BY <1>3

\* A set of numbers that goes on from each to the next, up to a bound.
LEMMA UpTo ==
    ASSUME NEW N \in Nat, NEW S, 0 \in S, \A n \in 1 .. N : n - 1 \in S => n \in S
    PROVE  0 .. N \subseteq S
<1> DEFINE missing == {n \in 0 .. N : n \notin S}
<1>1. SUFFICES ASSUME missing # {} PROVE FALSE
  OBVIOUS
<1>2. missing \subseteq Nat
  OBVIOUS
<1>3. \E m \in missing : \A k \in missing : m <= k
  <2> HIDE DEF missing
  <2> QED
    BY <1>1, <1>2, LeastNumber
<1>4. PICK m \in missing : \A k \in missing : m <= k
  BY <1>3
<1>5. m \in 1 .. N /\ m \notin S
  OBVIOUS
<1>6. m - 1 \in 0 .. N /\ ~ (m <= m - 1)
  BY <1>5
<1>7. m - 1 \notin missing
  BY <1>4, <1>6
<1> QED
  BY <1>5, <1>6, <1>7

\* What every row keeps, a batch keeps: P is any set of tables that no row
\* leads out of.
LEMMA AfterRowsIn ==
    ASSUME NEW P, NEW T \in P, NEW batch \in Seq(Row),
           \A X \in P, row \in Row : Stored(X, row) \in P
    PROVE  AfterRows(T, batch) \in P
<1> DEFINE N == Len(batch)
           Body(f) == [n \in 0 .. N |-> IF n = 0 THEN T ELSE Stored(f[n - 1], batch[n])]
           after == CHOOSE f : f = Body(f)
           Follows(f, n) == f[0] = T /\ \A i \in 1 .. n : f[i] = Stored(f[i - 1], batch[i])
           Reached == {n \in 0 .. N : \E f \in [0 .. n -> P] : Follows(f, n)}
<1>1. N \in Nat /\ \A i \in 1 .. N : batch[i] \in Row
  OBVIOUS
<1>2. 0 \in Reached
  <2>1. [i \in 0 .. 0 |-> T] \in [0 .. 0 -> P] /\ Follows([i \in 0 .. 0 |-> T], 0)
    OBVIOUS
  <2>2. \E f \in [0 .. 0 -> P] : Follows(f, 0)
    <3> HIDE DEF Follows
    <3> QED
      BY <2>1
  <2>3. 0 \in 0 .. N
    BY <1>1
  <2> HIDE DEF Follows, N
  <2> QED
    BY <2>2, <2>3
<1>3. ASSUME NEW n \in 1 .. N, n - 1 \in Reached PROVE n \in Reached
  <2>1. PICK f \in [0 .. n - 1 -> P] : Follows(f, n - 1)
    BY <1>3
  <2> DEFINE g == [i \in 0 .. n |-> IF i = n THEN Stored(f[n - 1], batch[n]) ELSE f[i]]
  <2>2. Stored(f[n - 1], batch[n]) \in P
    BY <1>1, <2>1
  <2>3. g \in [0 .. n -> P]
    <3>1. ASSUME NEW i \in 0 .. n, i # n PROVE f[i] \in P
      <4>1. i \in 0 .. n - 1
        BY <3>1
      <4> QED
        BY <2>1, <4>1
    <3> HIDE DEF Stored
    <3> QED
      BY <2>2, <3>1
  <2>4. g[0] = T
    BY <2>1
  <2>5. ASSUME NEW i \in 1 .. n PROVE g[i] = Stored(g[i - 1], batch[i])
    <3>1. i \in 0 .. n /\ i - 1 \in 0 .. n /\ i - 1 # n
      BY <2>5
    <3>2. g[i - 1] = f[i - 1]
      BY <3>1
    <3>3. CASE i = n
      BY <3>1, <3>2, <3>3
    <3>4. CASE i # n
      <4>1. i \in 1 .. n - 1
        BY <2>5, <3>4
      <4>2. g[i] = f[i] /\ f[i] = Stored(f[i - 1], batch[i])
        BY <2>1, <3>1, <3>4, <4>1
      <4> QED
        BY <3>2, <4>2
    <3> QED
      BY <3>3, <3>4
  <2>6. Follows(g, n) /\ n \in 0 .. N
    <3> HIDE DEF g
    <3> QED
      BY <2>4, <2>5
  <2> QED
    BY <2>3, <2>6
<1>4. N \in Reached
  <2> HIDE DEF Reached
  <2>1. 0 .. N \subseteq Reached
    BY <1>1, <1>2, <1>3, UpTo
  <2> QED
    BY <1>1, <2>1
<1>5. PICK f \in [0 .. N -> P] : Follows(f, N)
  BY <1>4
<1>6. f = Body(f)
  <2>1. ASSUME NEW n \in 0 .. N PROVE f[n] = IF n = 0 THEN T ELSE Stored(f[n - 1], batch[n])
    BY <1>5
  <2> HIDE DEF Follows
  <2> QED
    BY <2>1
<1>7. after = Body(after)
  <2> HIDE DEF Body
  <2> QED
    BY <1>6
<1> DEFINE Kept == {n \in 0 .. N : after[n] \in P}
<1>8. 0 \in Kept
  <2>1. after[0] = T
    <3> HIDE DEF after
    <3> QED
      BY <1>1, <1>7
  <2> QED
    BY <1>1, <2>1
<1>9. ASSUME NEW n \in 1 .. N, n - 1 \in Kept PROVE n \in Kept
  <2>1. after[n] = Stored(after[n - 1], batch[n])
    <3> HIDE DEF after
    <3> QED
      BY <1>1, <1>7
  <2>2. after[n] \in P
    BY <1>1, <1>9, <2>1
  <2> QED
    BY <2>2
<1>10. after[N] \in P
  <2> HIDE DEF Kept
  <2>1. 0 .. N \subseteq Kept
    BY <1>1, <1>8, <1>9, UpTo
  <2> QED
    BY <1>1, <2>1 DEF Kept
<1> QED
  BY <1>10 DEF AfterRows


-----------------------------------------------------------------------------
(***************************************************************************)
(* What a row does to the tables.                                          *)
(***************************************************************************)
GoodTables == {T \in Tables : ReferencesFound(T)}

SameHire(e, f) ==
    /\ f.year = e.year /\ f.quarter = e.quarter
    /\ f.hire_department_id = e.hire_department_id /\ f.hire_job_id = e.hire_job_id

\* The tables in which every employee of T is there with its hire facts.
WithFactsOf(T) ==
    {X \in Tables : \A e \in EmployeeIds : T.employees[e] # NoRow =>
        X.employees[e] # NoRow /\ SameHire(T.employees[e], X.employees[e])}

TablesLike(T) ==
    /\ DOMAIN T = {"departments", "jobs", "employees"}
    /\ T.departments \in [DepartmentIds -> Names \cup {NoRow}]
    /\ T.jobs \in [JobIds -> Names \cup {NoRow}]
    /\ T.employees \in [EmployeeIds -> Employee \cup {NoRow}]

LEMMA TablesAre ==
    ASSUME NEW T \in Tables
    PROVE  TablesLike(T)
BY DEF TablesLike, Tables

LEMMA CatalogStored ==
    ASSUME NEW T \in Tables, NEW row \in Row, row.table # "hired_employees"
    PROVE  /\ Stored(T, row) \in Tables
           /\ Stored(T, row).employees = T.employees
           /\ \A d \in DepartmentIds : T.departments[d] # NoRow => Stored(T, row).departments[d] # NoRow
           /\ \A j \in JobIds : T.jobs[j] # NoRow => Stored(T, row).jobs[j] # NoRow
<1> USE NoRowAssumption
<1>1. CASE row \in CatalogRow("departments", DepartmentIds)
  <2>1. row.table = "departments" /\ row.id \in DepartmentIds /\ row.name \in Names
    BY <1>1 DEF CatalogRow
  <2>2. Stored(T, row) = [T EXCEPT !.departments[row.id] = row.name]
    BY <2>1 DEF Stored
  <2> QED
    BY <2>1, <2>2 DEF Tables
<1>2. CASE row \in CatalogRow("jobs", JobIds)
  <2>1. row.table = "jobs" /\ row.id \in JobIds /\ row.name \in Names
    BY <1>2 DEF CatalogRow
  <2>2. Stored(T, row) = [T EXCEPT !.jobs[row.id] = row.name]
    BY <2>1 DEF Stored
  <2> QED
    BY <2>1, <2>2 DEF Tables
<1>3. row \notin Hire
  BY DEF Hire
<1> QED
  BY <1>1, <1>2, <1>3 DEF Row

LEMMA TransferStored ==
    \A e \in Employee, row \in Hire :
        /\ Transferred(e, row) \in Employee
        /\ Transferred(e, row).department_id = row.department_id
        /\ Transferred(e, row).job_id = row.job_id
<1> TAKE e \in Employee, row \in Hire
<1> DEFINE first == [e EXCEPT !.department_id = row.department_id]
           moved == [first EXCEPT !.job_id = row.job_id]
<1>1. row.department_id \in DepartmentIds /\ row.job_id \in JobIds
  BY DEF Hire
<1>2. first \in Employee /\ first.department_id = row.department_id
  BY <1>1 DEF Employee
<1> HIDE DEF first
<1>3. /\ moved \in Employee /\ moved.department_id = row.department_id
      /\ moved.job_id = row.job_id
  BY <1>1, <1>2 DEF Employee
<1>4. Transferred(e, row) = moved
  BY DEF Transferred, first
<1> HIDE DEF moved
<1> QED
  BY <1>3, <1>4

\* A hire is stored with references that are found, and as a new employee or
\* with the hire facts of before.
LEMMA HireStored ==
    ASSUME NEW T \in Tables, NEW row \in Row, row.table = "hired_employees"
    PROVE  \/ Stored(T, row) = T
           \/ \E new \in Employee :
                /\ Stored(T, row) = [T EXCEPT !.employees[row.id] = new]
                /\ row.id \in EmployeeIds
                /\ T.departments[new.department_id] # NoRow /\ T.jobs[new.job_id] # NoRow
                /\ \/ /\ T.employees[row.id] = NoRow
                      /\ new.hire_department_id = new.department_id
                      /\ new.hire_job_id = new.job_id
                   \/ T.employees[row.id] # NoRow /\ SameHire(T.employees[row.id], new)
<1>1. row \in Hire
  BY DEF Row, CatalogRow
<1>2. /\ row.id \in EmployeeIds /\ row.year \in {2021, 2022} /\ row.quarter \in Quarters
      /\ row.department_id \in DepartmentIds /\ row.job_id \in JobIds
  BY <1>1 DEF Hire
<1> DEFINE old == T.employees[row.id]
           new == IF old = NoRow THEN NewEmployee(row) ELSE Transferred(old, row)
<1>3. CASE T.departments[row.department_id] = NoRow \/ T.jobs[row.job_id] = NoRow
  BY <1>3 DEF Stored
<1>4. CASE ~ (T.departments[row.department_id] = NoRow \/ T.jobs[row.job_id] = NoRow)
  <2>1. Stored(T, row) = [T EXCEPT !.employees[row.id] = new]
    BY <1>4 DEF Stored
  <2>2. old \in Employee \cup {NoRow}
    BY <1>2, TablesAre DEF TablesLike
  <2>3. /\ new \in Employee /\ new.department_id = row.department_id /\ new.job_id = row.job_id
        /\ \/ old = NoRow /\ new.hire_department_id = row.department_id /\ new.hire_job_id = row.job_id
           \/ old # NoRow /\ SameHire(old, new)
    <3>1. CASE old = NoRow
      BY <1>2, <3>1 DEF NewEmployee, Employee
    <3>2. CASE old # NoRow
      <4>1. old \in Employee /\ new = Transferred(old, row)
        BY <2>2, <3>2
      <4> HIDE DEF old, new
      <4>2. /\ new \in Employee /\ new.department_id = row.department_id
            /\ new.job_id = row.job_id
        BY <1>1, <1>2, <4>1, TransferStored
      <4>3. SameHire(old, new)
        BY <4>1 DEF Transferred, Employee, SameHire
      <4> QED
        BY <3>2, <4>2, <4>3
    <3> QED
      BY <3>1, <3>2
  <2> HIDE DEF new
  <2>4. /\ Stored(T, row) = [T EXCEPT !.employees[row.id] = new]
        /\ row.id \in EmployeeIds
        /\ T.departments[new.department_id] # NoRow /\ T.jobs[new.job_id] # NoRow
        /\ \/ /\ T.employees[row.id] = NoRow
              /\ new.hire_department_id = new.department_id
              /\ new.hire_job_id = new.job_id
           \/ T.employees[row.id] # NoRow /\ SameHire(T.employees[row.id], new)
    BY <1>2, <1>4, <2>1, <2>3
  <2> QED
    BY <2>3, <2>4, Zenon
<1> QED
  BY <1>3, <1>4

LEMMA EmployeeReplaced ==
    \A T \in Tables, id \in EmployeeIds, new \in Employee :
      LET X == [T EXCEPT !.employees[id] = new]
      IN  /\ X \in Tables /\ X.departments = T.departments /\ X.jobs = T.jobs
          /\ X.employees[id] = new
          /\ \A e \in EmployeeIds : e # id => X.employees[e] = T.employees[e]
BY DEF Tables

LEMMA StoredGood ==
    ASSUME NEW T \in GoodTables, NEW row \in Row
    PROVE  Stored(T, row) \in GoodTables
<1> DEFINE X == Stored(T, row)
<1>0. T \in Tables /\ TablesLike(T) /\ ReferencesFound(T)
  BY TablesAre DEF GoodTables
<1>1. CASE row.table # "hired_employees"
  <2>1. /\ X \in Tables /\ X.employees = T.employees
        /\ \A d \in DepartmentIds : T.departments[d] # NoRow => X.departments[d] # NoRow
        /\ \A j \in JobIds : T.jobs[j] # NoRow => X.jobs[j] # NoRow
    BY <1>0, <1>1, CatalogStored
  <2> HIDE DEF X
  <2>2. ASSUME NEW e \in EmployeeIds, X.employees[e] # NoRow
        PROVE  /\ X.departments[X.employees[e].hire_department_id] # NoRow
               /\ X.departments[X.employees[e].department_id] # NoRow
               /\ X.jobs[X.employees[e].hire_job_id] # NoRow
               /\ X.jobs[X.employees[e].job_id] # NoRow
    <3>1. X.employees[e] = T.employees[e] /\ T.employees[e] \in Employee
      BY <1>0, <2>1, <2>2 DEF TablesLike
    <3>2. /\ T.employees[e].hire_department_id \in DepartmentIds
          /\ T.employees[e].department_id \in DepartmentIds
          /\ T.employees[e].hire_job_id \in JobIds /\ T.employees[e].job_id \in JobIds
      BY <3>1 DEF Employee
    <3> QED
      BY <1>0, <2>1, <2>2, <3>1, <3>2 DEF ReferencesFound
  <2>3. X \in GoodTables
    BY <2>1, <2>2 DEF GoodTables, ReferencesFound
  <2> QED
    BY <2>3 DEF X
<1>2. CASE row.table = "hired_employees" /\ X # T
  <2>1. PICK new \in Employee :
          /\ X = [T EXCEPT !.employees[row.id] = new]
          /\ row.id \in EmployeeIds
          /\ T.departments[new.department_id] # NoRow /\ T.jobs[new.job_id] # NoRow
          /\ \/ /\ T.employees[row.id] = NoRow
                /\ new.hire_department_id = new.department_id
                /\ new.hire_job_id = new.job_id
             \/ T.employees[row.id] # NoRow /\ SameHire(T.employees[row.id], new)
    BY <1>0, <1>2, HireStored
  <2> HIDE DEF X
  <2>2. /\ X \in Tables /\ X.departments = T.departments /\ X.jobs = T.jobs
        /\ X.employees[row.id] = new
        /\ \A e \in EmployeeIds : e # row.id => X.employees[e] = T.employees[e]
    BY <1>0, <2>1, EmployeeReplaced
  <2>3. ASSUME NEW e \in EmployeeIds, X.employees[e] # NoRow
        PROVE  /\ X.departments[X.employees[e].hire_department_id] # NoRow
               /\ X.departments[X.employees[e].department_id] # NoRow
               /\ X.jobs[X.employees[e].hire_job_id] # NoRow
               /\ X.jobs[X.employees[e].job_id] # NoRow
    <3>1. CASE e # row.id
      BY <1>0, <2>2, <2>3, <3>1 DEF ReferencesFound
    <3>2. CASE e = row.id /\ T.employees[e] = NoRow
      BY <2>1, <2>2, <3>2
    <3>3. CASE e = row.id /\ T.employees[e] # NoRow
      <4>1. SameHire(T.employees[e], new)
        BY <2>1, <3>3
      <4>2. /\ T.departments[new.hire_department_id] # NoRow
            /\ T.jobs[new.hire_job_id] # NoRow
        BY <1>0, <3>3, <4>1 DEF ReferencesFound, SameHire
      <4> QED
        BY <2>1, <2>2, <3>3, <4>2
    <3> QED
      BY <3>1, <3>2, <3>3
  <2>4. X \in GoodTables
    BY <2>2, <2>3 DEF GoodTables, ReferencesFound
  <2> QED
    BY <2>4 DEF X
<1> QED
  BY <1>1, <1>2

LEMMA StoredKeepsFacts ==
    ASSUME NEW T \in Tables, NEW X \in WithFactsOf(T), NEW row \in Row
    PROVE  Stored(X, row) \in WithFactsOf(T)
<1> DEFINE Y == Stored(X, row)
<1>0. X \in Tables
  BY DEF WithFactsOf
<1>1. CASE row.table # "hired_employees"
  <2>1. Y \in Tables /\ Y.employees = X.employees
    BY <1>0, <1>1, CatalogStored
  <2> HIDE DEF Y
  <2>2. Y \in WithFactsOf(T)
    BY <2>1 DEF WithFactsOf
  <2> QED
    BY <2>2 DEF Y
<1>2. CASE row.table = "hired_employees" /\ Y # X
  <2>1. PICK new \in Employee :
          /\ Y = [X EXCEPT !.employees[row.id] = new]
          /\ row.id \in EmployeeIds
          /\ X.employees[row.id] = NoRow \/ SameHire(X.employees[row.id], new)
    BY <1>0, <1>2, HireStored
  <2> HIDE DEF Y
  <2>2. /\ Y \in Tables /\ Y.employees[row.id] = new
        /\ \A e \in EmployeeIds : e # row.id => Y.employees[e] = X.employees[e]
    BY <1>0, <2>1, EmployeeReplaced
  <2>3. ASSUME NEW e \in EmployeeIds, T.employees[e] # NoRow
        PROVE  Y.employees[e] # NoRow /\ SameHire(T.employees[e], Y.employees[e])
    <3>1. X.employees[e] # NoRow /\ SameHire(T.employees[e], X.employees[e])
      BY <2>3 DEF WithFactsOf
    <3>2. CASE e # row.id
      BY <2>2, <3>1, <3>2
    <3>3. CASE e = row.id
      <4>1. new # NoRow
        BY NoRowAssumption
      <4> QED
        BY <2>1, <2>2, <3>1, <3>3, <4>1 DEF SameHire
    <3> QED
      BY <3>2, <3>3
  <2>4. Y \in WithFactsOf(T)
    BY <2>2, <2>3 DEF WithFactsOf
  <2> QED
    BY <2>4 DEF Y
<1> QED
  BY <1>1, <1>2

LEMMA BatchStored ==
    ASSUME NEW T \in GoodTables, NEW batch \in Batches
    PROVE  AfterRows(T, batch) \in GoodTables /\ AfterRows(T, batch) \in WithFactsOf(T)
<1>1. batch \in Seq(Row) /\ T \in Tables
  BY BatchesAssumption DEF GoodTables
<1>2. AfterRows(T, batch) \in GoodTables
  BY <1>1, StoredGood, AfterRowsIn
<1>3. T \in WithFactsOf(T)
  BY <1>1 DEF WithFactsOf, SameHire
<1>4. \A X \in WithFactsOf(T), row \in Row : Stored(X, row) \in WithFactsOf(T)
  BY <1>1, StoredKeepsFacts
<1> QED
  BY <1>1, <1>2, <1>3, <1>4, AfterRowsIn

-----------------------------------------------------------------------------
(***************************************************************************)
(* The invariant.  What a report may show is a state that the tables had   *)
(* since the last reset; what a refresh has read of it stays one of these  *)
(* until it is published.                                                  *)
(***************************************************************************)
Stages == {"idle", "refresh_hires", "fill_hires", "fill_average", "publish"}

Entry == [op : {"load", "restore", "reset"}, tables : Tables]

Histories == {h \in Seq(Entry) : Len(h) > 0}

SinceReset(past) ==
    {k \in 1 .. Len(past) : \A l \in k + 1 .. Len(past) : past[l].op # "reset"}

HiresKnown(rows, past) ==
    rows = {} \/ \E k \in SinceReset(past) : rows = HiresByQuarter(past[k].tables)

AverageKnown(rows, past) ==
    \E k \in SinceReset(past) : rows = DepartmentsAboveAverage(past[k].tables)

\* After the entry number first, other than a load has changed the tables.
Overruled(first, past) == \E k \in first .. Len(past) : past[k].op # "load"

HiresFrom(rows, first, past) ==
    \E k \in first .. Len(past) : rows = HiresByQuarter(past[k].tables)

AverageFrom(rows, first, past) ==
    \E k \in first .. Len(past) : rows = DepartmentsAboveAverage(past[k].tables)

\* What a session at a stage, with a snapshot and rows for the views, shows
\* of its own load at entry number first.
ShowsLoad(stage, snapshot, rows, first, past) ==
    /\ stage = "fill_hires" => HiresFrom(HiresByQuarter(snapshot), first, past)
    /\ stage \in {"fill_average", "publish"} => HiresFrom(rows.hires, first, past)
    /\ stage = "publish" => AverageFrom(rows.average, first, past)

ShowsPast(stage, snapshot, rows, past) ==
    /\ stage = "fill_hires" => HiresKnown(HiresByQuarter(snapshot), past)
    /\ stage \in {"fill_average", "publish"} => HiresKnown(rows.hires, past)
    /\ stage = "publish" => AverageKnown(rows.average, past)

SessionOK(stage, snapshot, rows, first, past) ==
    /\ first \in 1 .. Len(past)
    /\ ShowsPast(stage, snapshot, rows, past)
    /\ Overruled(first, past) \/ ShowsLoad(stage, snapshot, rows, first, past)

ControlOK ==
    /\ pc \in [Sessions -> Stages]
    /\ \A s \in Sessions : pc[s] \in {"fill_average", "publish"} <=> holder = s
    /\ seen \in [Sessions -> Tables \cup {NoSnapshot}]
    /\ \A s \in Sessions : (seen[s] # NoSnapshot) <=> pc[s] = "fill_hires"
    /\ DOMAIN own = Sessions /\ DOMAIN staged = Sessions
    /\ \A s \in Sessions :
         staged[s] = [hires |-> staged[s].hires, average |-> staged[s].average]
    /\ holder \in Sessions \cup {Nobody}

PastOK ==
    /\ tables \in GoodTables
    /\ history \in Histories
    /\ history[Len(history)].tables = tables

ViewsOK == HiresKnown(views.hires, history) /\ AverageKnown(views.average, history)

RInv ==
    /\ ControlOK /\ PastOK /\ ViewsOK
    /\ \A s \in Sessions : SessionOK(pc[s], seen[s], staged[s], own[s], history)

(***************************************************************************)
(* The reports as functions of the tables.                                 *)
(***************************************************************************)
LEMMA CountBounded ==
    ASSUME NEW S, S \subseteq EmployeeIds
    PROVE  Cardinality(S) \in 0 .. Cardinality(EmployeeIds)
<1>1. IsFiniteSet(S) /\ Cardinality(S) <= Cardinality(EmployeeIds)
  BY FiniteAssumption, FS_Subset
<1>2. Cardinality(S) \in Nat /\ Cardinality(EmployeeIds) \in Nat
  BY <1>1, FiniteAssumption, FS_CardinalityType
<1> QED
  BY <1>1, <1>2

LEMMA HiresTyped ==
    ASSUME NEW T, NEW r \in HiresByQuarter(T)
    PROVE  r.hired \in [Quarters -> 0 .. Cardinality(EmployeeIds)]
<1> DEFINE joined == {e \in HiredIn(T, {ReportYear}) :
                        DepartmentOf(T, e) # NoRow /\ JobOf(T, e) # NoRow}
           Of(g, q) == {e \in joined : /\ DepartmentOf(T, e) = g[1] /\ JobOf(T, e) = g[2]
                                       /\ T.employees[e].quarter = q}
           Groups == {<< DepartmentOf(T, e), JobOf(T, e) >> : e \in joined}
           Shown(g) == [department |-> g[1], job |-> g[2],
                        hired |-> [q \in Quarters |-> Cardinality(Of(g, q))]]
<1>1. HiresByQuarter(T) = {Shown(g) : g \in Groups}
  BY DEF HiresByQuarter
<1>2. \A g, q : Of(g, q) \subseteq EmployeeIds
  BY DEF HiredIn
<1> HIDE DEF Of, Groups
<1>3. PICK g \in Groups : r = Shown(g)
  BY <1>1
<1>4. \A q \in Quarters : Cardinality(Of(g, q)) \in 0 .. Cardinality(EmployeeIds)
  BY <1>2, CountBounded
<1> QED
  BY <1>3, <1>4

LEMMA AverageTyped ==
    ASSUME NEW T, NEW r \in DepartmentsAboveAverage(T)
    PROVE  r.id \in DepartmentIds /\ r.hired > 0
<1>1. PICK d \in DepartmentIds :
        /\ HiredBy(T, d, {ReportYear}) > 0
        /\ r = [id |-> d, department |-> T.departments[d], hired |-> HiredBy(T, d, {ReportYear})]
  BY DEF DepartmentsAboveAverage, AboveAverage
<1> QED
  BY <1>1

\* Without employees the first report is empty.
LEMMA NoHires ==
    ASSUME NEW T, \A e \in EmployeeIds : T.employees[e] = NoRow
    PROVE  HiresByQuarter(T) = {}
<1>1. HiredIn(T, {ReportYear}) = {}
  BY DEF HiredIn
<1> QED
  BY <1>1 DEF HiresByQuarter

\* The reports look at the hire facts of the employees and at no more.
LEMMA ReportsOfFacts ==
    ASSUME NEW T \in Tables, NEW X \in Tables,
           X.departments = T.departments, X.jobs = T.jobs,
           \A e \in EmployeeIds : (X.employees[e] = NoRow) <=> (T.employees[e] = NoRow),
           \A e \in EmployeeIds : T.employees[e] # NoRow =>
                SameHire(T.employees[e], X.employees[e])
    PROVE  ReportsOf(X) = ReportsOf(T)
<1>1. \A years : HiredIn(X, years) = HiredIn(T, years)
  BY DEF HiredIn, SameHire
<1>2. \A years : \A e \in HiredIn(T, years) :
        /\ DepartmentOf(X, e) = DepartmentOf(T, e) /\ JobOf(X, e) = JobOf(T, e)
        /\ X.employees[e].quarter = T.employees[e].quarter
        /\ X.employees[e].hire_department_id = T.employees[e].hire_department_id
  BY DEF HiredIn, SameHire, DepartmentOf, JobOf
<1>3. HiresByQuarter(X) = HiresByQuarter(T)
  <2> DEFINE joined(Y) == {e \in HiredIn(Y, {ReportYear}) :
                             DepartmentOf(Y, e) # NoRow /\ JobOf(Y, e) # NoRow}
             Of(Y, g, q) == {e \in joined(Y) :
                               /\ DepartmentOf(Y, e) = g[1] /\ JobOf(Y, e) = g[2]
                               /\ Y.employees[e].quarter = q}
             Groups(Y) == {<< DepartmentOf(Y, e), JobOf(Y, e) >> : e \in joined(Y)}
             Shown(Y, g) == [department |-> g[1], job |-> g[2],
                             hired |-> [q \in Quarters |-> Cardinality(Of(Y, g, q))]]
  <2>1. joined(X) = joined(T)
    BY <1>1, <1>2
  <2>2. ASSUME NEW g, NEW q PROVE Of(X, g, q) = Of(T, g, q)
    <3>1. \A e \in joined(T) :
            /\ DepartmentOf(X, e) = DepartmentOf(T, e) /\ JobOf(X, e) = JobOf(T, e)
            /\ X.employees[e].quarter = T.employees[e].quarter
      BY <1>2
    <3> HIDE DEF joined
    <3> QED
      BY <2>1, <3>1
  <2>3. Groups(X) = Groups(T)
    <3>1. \A e \in joined(T) : /\ DepartmentOf(X, e) = DepartmentOf(T, e)
                               /\ JobOf(X, e) = JobOf(T, e)
      BY <1>2
    <3> HIDE DEF joined
    <3> QED
      BY <2>1, <3>1
  <2>4. /\ HiresByQuarter(X) = {Shown(X, g) : g \in Groups(X)}
        /\ HiresByQuarter(T) = {Shown(T, g) : g \in Groups(T)}
    BY DEF HiresByQuarter
  <2> HIDE DEF Of, Groups
  <2>5. \A g : Shown(X, g) = Shown(T, g)
    BY <2>2
  <2> HIDE DEF Shown
  <2> QED
    BY <2>3, <2>4, <2>5
<1>4. DepartmentsAboveAverage(X) = DepartmentsAboveAverage(T)
  <2>1. \A d, years : HiredBy(X, d, years) = HiredBy(T, d, years)
    <3> TAKE d, years
    <3>1. {e \in HiredIn(X, years) : X.employees[e].hire_department_id = d}
            = {e \in HiredIn(T, years) : T.employees[e].hire_department_id = d}
      BY <1>1, <1>2
    <3> QED
      BY <3>1 DEF HiredBy
  <2> DEFINE hired(Y, d) == HiredBy(Y, d, {ReportYear})
             hiring(Y) == {d \in DepartmentIds : hired(Y, d) > 0}
             average_of(Y) == Total([d \in hiring(Y) |-> hired(Y, d)])
             above(Y) == {h \in hiring(Y) :
                            /\ Y.departments[h] # NoRow
                            /\ hired(Y, h) * Cardinality(hiring(Y)) > average_of(Y)}
             Shown(Y, d) == [id |-> d, department |-> Y.departments[d], hired |-> hired(Y, d)]
  <2>2. \A d : hired(X, d) = hired(T, d)
    BY <2>1
  <2> HIDE DEF hired
  <2>3. hiring(X) = hiring(T)
    BY <2>2
  <2>4. average_of(X) = average_of(T)
    <3>1. [d \in hiring(X) |-> hired(X, d)] = [d \in hiring(T) |-> hired(T, d)]
      BY <2>2, <2>3
    <3> QED
      BY <3>1
  <2> HIDE DEF hiring, average_of
  <2>5. above(X) = above(T)
    BY <2>2, <2>3, <2>4
  <2>6. \A d : Shown(X, d) = Shown(T, d)
    BY <2>2
  <2>7. /\ DepartmentsAboveAverage(X) = {Shown(X, d) : d \in above(X)}
        /\ DepartmentsAboveAverage(T) = {Shown(T, d) : d \in above(T)}
    BY DEF DepartmentsAboveAverage, AboveAverage, hired, hiring, average_of
  <2> HIDE DEF above, Shown
  <2> QED
    BY <2>5, <2>6, <2>7
<1> QED
  BY <1>3, <1>4 DEF ReportsOf

(***************************************************************************)
(* The history as it grows.                                                *)
(***************************************************************************)
LEMMA PastIs ==
    ASSUME NEW past \in Histories
    PROVE  /\ past \in Seq(Entry) /\ Len(past) \in Nat /\ Len(past) > 0
           /\ \A k \in 1 .. Len(past) : past[k] \in Entry
<1>1. past \in Seq(Entry) /\ Len(past) > 0
  BY DEF Histories
<1> QED
  BY <1>1

LEMMA Grown ==
    \A past \in Histories, entry \in Entry :
      LET longer == Append(past, entry)
      IN  /\ longer \in Histories /\ Len(longer) = Len(past) + 1
          /\ longer[Len(past) + 1] = entry
          /\ \A k \in 1 .. Len(past) : longer[k] = past[k]
<1> TAKE past \in Histories, entry \in Entry
<1>1. past \in Seq(Entry) /\ Len(past) \in Nat /\ Len(past) > 0
  BY PastIs
<1>2. Append(past, entry) \in Seq(Entry) /\ Len(Append(past, entry)) = Len(past) + 1
  BY <1>1
<1> QED
  BY <1>1, <1>2 DEF Histories

\* What was committed since the last reset stays so while no other comes.
LEMMA SinceGrows ==
    ASSUME NEW past \in Histories, NEW entry \in Entry, entry.op # "reset",
           NEW k \in SinceReset(past)
    PROVE  k \in SinceReset(Append(past, entry)) /\ Append(past, entry)[k] = past[k]
<1> DEFINE longer == Append(past, entry)
<1>1. /\ Len(past) \in Nat /\ Len(longer) = Len(past) + 1
      /\ longer[Len(past) + 1] = entry /\ \A i \in 1 .. Len(past) : longer[i] = past[i]
  BY PastIs, Grown
<1> HIDE DEF longer
<1>2. k \in 1 .. Len(past) /\ \A l \in k + 1 .. Len(past) : past[l].op # "reset"
  BY DEF SinceReset
<1>3. ASSUME NEW l \in k + 1 .. Len(longer) PROVE longer[l].op # "reset"
  <2>1. CASE l = Len(past) + 1
    BY <1>1, <2>1
  <2>2. CASE l # Len(past) + 1
    <3>1. l \in 1 .. Len(past) /\ l \in k + 1 .. Len(past)
      BY <1>1, <1>2, <1>3, <2>2
    <3> QED
      BY <1>1, <1>2, <3>1
  <2> QED
    BY <2>1, <2>2
<1>4. k \in 1 .. Len(longer)
  BY <1>1, <1>2
<1> QED
  BY <1>1, <1>2, <1>3, <1>4 DEF SinceReset, longer

\* The last entry is never older than a reset.
LEMMA LastIsSince ==
    ASSUME NEW past \in Histories
    PROVE  Len(past) \in SinceReset(past)
<1>1. Len(past) \in 1 .. Len(past) /\ Len(past) + 1 .. Len(past) = {}
  BY PastIs
<1> QED
  BY <1>1 DEF SinceReset

LEMMA KnownGrows ==
    ASSUME NEW past \in Histories, NEW entry \in Entry, entry.op # "reset"
    PROVE  /\ \A r : HiresKnown(r, past) => HiresKnown(r, Append(past, entry))
           /\ \A r : AverageKnown(r, past) => AverageKnown(r, Append(past, entry))
<1>1. \A k \in SinceReset(past) :
        k \in SinceReset(Append(past, entry)) /\ Append(past, entry)[k] = past[k]
  BY SinceGrows
<1> QED
  BY <1>1 DEF HiresKnown, AverageKnown

LEMMA SessionGrows ==
    ASSUME NEW past \in Histories, NEW entry \in Entry, entry.op # "reset",
           NEW stage, NEW snapshot, NEW rows, NEW first,
           SessionOK(stage, snapshot, rows, first, past)
    PROVE  SessionOK(stage, snapshot, rows, first, Append(past, entry))
<1> DEFINE longer == Append(past, entry)
<1>0. first \in 1 .. Len(past) /\ ShowsPast(stage, snapshot, rows, past)
  BY DEF SessionOK
<1>1. ShowsPast(stage, snapshot, rows, longer)
  BY <1>0, KnownGrows DEF ShowsPast
<1>2. /\ Len(past) \in Nat /\ Len(longer) = Len(past) + 1
      /\ \A i \in 1 .. Len(past) : longer[i] = past[i]
  BY PastIs, Grown
<1> HIDE DEF longer
<1>3. \A k \in first .. Len(past) : k \in first .. Len(longer) /\ longer[k] = past[k]
  BY <1>0, <1>2
<1>4. Overruled(first, past) => Overruled(first, longer)
  BY <1>3 DEF Overruled
<1>5. /\ \A r : HiresFrom(r, first, past) => HiresFrom(r, first, longer)
      /\ \A r : AverageFrom(r, first, past) => AverageFrom(r, first, longer)
  BY <1>3 DEF HiresFrom, AverageFrom
<1>6. ShowsLoad(stage, snapshot, rows, first, past)
        => ShowsLoad(stage, snapshot, rows, first, longer)
  BY <1>5 DEF ShowsLoad
<1>7. first \in 1 .. Len(longer)
  BY <1>0, <1>2
<1>8. SessionOK(stage, snapshot, rows, first, longer)
  BY <1>1, <1>4, <1>6, <1>7 DEF SessionOK
<1> QED
  BY <1>8 DEF longer

\* A restore or a reset finds no session with rows for the views, and empties
\* what the snapshots see: it leaves none that shows what was before.
LEMMA SessionOverruled ==
    ASSUME NEW past \in Histories, NEW entry \in Entry, entry.op # "load",
           NEW stage \in {"idle", "refresh_hires", "fill_hires"}, NEW snapshot,
           NEW rows, NEW first \in 1 .. Len(past),
           stage = "fill_hires" => \A e \in EmployeeIds : snapshot.employees[e] = NoRow
    PROVE  SessionOK(stage, snapshot, rows, first, Append(past, entry))
<1> DEFINE longer == Append(past, entry)
<1>1. /\ Len(past) \in Nat /\ Len(longer) = Len(past) + 1
      /\ longer[Len(past) + 1] = entry
  BY PastIs, Grown
<1> HIDE DEF longer
<1>2. first \in 1 .. Len(longer) /\ Len(longer) \in first .. Len(longer)
  BY <1>1
<1>3. Overruled(first, longer)
  BY <1>1, <1>2 DEF Overruled
<1>4. stage = "fill_hires" => HiresKnown(HiresByQuarter(snapshot), longer)
  BY NoHires DEF HiresKnown
<1>5. ShowsPast(stage, snapshot, rows, longer)
  BY <1>4 DEF ShowsPast
<1> QED
  BY <1>2, <1>3, <1>5 DEF SessionOK, longer

-----------------------------------------------------------------------------
(***************************************************************************)
(* The steps.                                                              *)
(***************************************************************************)
LEMMA EmptyTables ==
    /\ Empty \in GoodTables /\ \A e \in EmployeeIds : Empty.employees[e] = NoRow
    /\ DOMAIN Empty = {"departments", "jobs", "employees"}
<1>1. /\ Empty \in Tables /\ \A e \in EmployeeIds : Empty.employees[e] = NoRow
      /\ DOMAIN Empty = {"departments", "jobs", "employees"}
  BY DEF Empty, Tables
<1> QED
  BY <1>1 DEF GoodTables, ReferencesFound

LEMMA HoldersApart ==
    ASSUME ControlOK, NEW s \in Sessions, pc[s] \in {"fill_average", "publish"}
    PROVE  /\ holder = s /\ holder # Nobody
           /\ \A r \in Sessions : r # s => pc[r] \notin {"fill_average", "publish"}
BY NobodyAssumption DEF ControlOK

LEMMA RInvInit ==
    ASSUME Init
    PROVE  RInv
<1>1. PastOK
  <2>1. InitialTables \in GoodTables
    BY TablesAssumption DEF GoodTables
  <2>2. history = << [op |-> "load", tables |-> InitialTables] >> /\ tables = InitialTables
    BY DEF Init
  <2>3. [op |-> "load", tables |-> InitialTables] \in Entry
    BY <2>1 DEF Entry, GoodTables
  <2>4. history \in Seq(Entry) /\ Len(history) = 1
    BY <2>2, <2>3
  <2> QED
    BY <2>1, <2>2, <2>4 DEF PastOK, Histories
<1>2. ControlOK
  <2>1. /\ pc = [s \in Sessions |-> "idle"] /\ seen = [s \in Sessions |-> NoSnapshot]
        /\ own = [s \in Sessions |-> 1] /\ holder = Nobody
        /\ staged = [s \in Sessions |-> ReportsOf(Empty)]
    BY DEF Init
  <2>2. \A s \in Sessions : staged[s] = [hires |-> staged[s].hires, average |-> staged[s].average]
    BY <2>1 DEF ReportsOf
  <2> QED
    BY <2>1, <2>2, NobodyAssumption DEF ControlOK, Stages
<1>3. Len(history) = 1 /\ history[1].tables = InitialTables /\ 1 \in SinceReset(history)
  <2>1. Len(history) = 1 /\ history[1].tables = InitialTables /\ history \in Histories
    BY <1>1 DEF Init, PastOK
  <2> QED
    BY <2>1, LastIsSince
<1>4. ViewsOK
  BY <1>3 DEF Init, ReportsOf, ViewsOK, HiresKnown, AverageKnown
<1>5. \A s \in Sessions : SessionOK(pc[s], seen[s], staged[s], own[s], history)
  BY <1>3 DEF Init, SessionOK, ShowsPast, ShowsLoad
<1> QED
  BY <1>1, <1>2, <1>4, <1>5 DEF RInv

LEMMA RecordKeepsPast ==
    ASSUME PastOK, NEW op \in {"load", "restore", "reset"}, NEW T \in GoodTables,
           Record(op, T)
    PROVE  /\ PastOK' /\ [op |-> op, tables |-> T] \in Entry
           /\ history' = Append(history, [op |-> op, tables |-> T])
           /\ Len(history') = Len(history) + 1 /\ Len(history) \in Nat
<1> DEFINE entry == [op |-> op, tables |-> T]
<1>1. entry \in Entry /\ entry.tables = T
  BY DEF Entry, GoodTables
<1>2. history \in Histories /\ tables' = T /\ history' = Append(history, entry)
  BY DEF PastOK, Record
<1> HIDE DEF entry
<1>3. /\ history' \in Histories /\ Len(history') = Len(history) + 1
      /\ history'[Len(history) + 1] = entry /\ Len(history) \in Nat
  BY <1>1, <1>2, Grown, PastIs
<1>4. PastOK'
  BY <1>1, <1>2, <1>3 DEF PastOK
<1> QED
  BY <1>1, <1>2, <1>3, <1>4 DEF entry

LEMMA CommitLoadStep ==
    ASSUME RInv, NEW s \in Sessions, CommitLoad(s)
    PROVE  RInv'
<1>0. ControlOK /\ PastOK /\ ViewsOK /\ history \in Histories
  BY DEF RInv, PastOK
<1>1. PICK batch \in Batches : Record("load", AfterRows(tables, batch))
  BY DEF CommitLoad
<1>2. AfterRows(tables, batch) \in GoodTables
  BY <1>0, BatchStored DEF PastOK
<1> DEFINE entry == [op |-> "load", tables |-> AfterRows(tables, batch)]
<1>3. /\ PastOK' /\ entry \in Entry /\ entry.op = "load" /\ history' = Append(history, entry)
      /\ Len(history') = Len(history) + 1 /\ Len(history) \in Nat
  BY <1>0, <1>1, <1>2, RecordKeepsPast
<1> HIDE DEF entry
<1>4. /\ pc' = [pc EXCEPT ![s] = "refresh_hires"] /\ own' = [own EXCEPT ![s] = Len(history')]
      /\ pc[s] = "idle" /\ views' = views /\ seen' = seen /\ staged' = staged
      /\ holder' = holder
  BY DEF CommitLoad, Goto
<1>5. ControlOK'
  BY <1>0, <1>4 DEF ControlOK, Stages
<1>6. ViewsOK'
  BY <1>0, <1>3, <1>4, KnownGrows DEF ViewsOK
<1>7. ASSUME NEW r \in Sessions
      PROVE  SessionOK(pc'[r], seen'[r], staged'[r], own'[r], history')
  <2>1. CASE r = s
    <3>1. pc'[s] = "refresh_hires" /\ own'[s] = Len(history')
      BY <1>0, <1>4 DEF ControlOK
    <3>2. own'[s] \in 1 .. Len(history')
      BY <1>3, <3>1
    <3> QED
      BY <2>1, <3>1, <3>2 DEF SessionOK, ShowsPast, ShowsLoad
  <2>2. CASE r # s
    <3>1. SessionOK(pc[r], seen[r], staged[r], own[r], history)
      BY DEF RInv
    <3>2. pc'[r] = pc[r] /\ own'[r] = own[r]
      BY <1>0, <1>4, <2>2 DEF ControlOK
    <3>3. SessionOK(pc[r], seen[r], staged[r], own[r], Append(history, entry))
      BY <1>0, <1>3, <3>1, SessionGrows
    <3> QED
      BY <1>3, <1>4, <3>2, <3>3
  <2> QED
    BY <2>1, <2>2
<1> QED
  BY <1>3, <1>5, <1>6, <1>7 DEF RInv

LEMMA BeginRefreshStep ==
    ASSUME RInv, NEW s \in Sessions, BeginRefresh(s)
    PROVE  RInv'
<1>0. ControlOK /\ PastOK /\ ViewsOK /\ history \in Histories
  BY DEF RInv, PastOK
<1>1. /\ pc[s] = "refresh_hires" /\ pc' = [pc EXCEPT ![s] = "fill_hires"]
      /\ seen' = [seen EXCEPT ![s] = tables]
      /\ tables' = tables /\ views' = views /\ history' = history /\ staged' = staged
      /\ own' = own /\ holder' = holder
  BY DEF BeginRefresh, Goto
<1>2. tables \in Tables /\ tables # NoSnapshot
  BY <1>0, NoSnapshotAssumption DEF PastOK, GoodTables
<1>3. ControlOK'
  BY <1>0, <1>1, <1>2 DEF ControlOK, Stages
<1>4. PastOK' /\ ViewsOK'
  BY <1>0, <1>1 DEF PastOK, ViewsOK
<1>5. ASSUME NEW r \in Sessions
      PROVE  SessionOK(pc'[r], seen'[r], staged'[r], own'[r], history')
  <2>1. SessionOK(pc[r], seen[r], staged[r], own[r], history)
    BY DEF RInv
  <2>2. CASE r = s
    <3>1. pc'[s] = "fill_hires" /\ seen'[s] = tables
      BY <1>0, <1>1 DEF ControlOK
    <3>2. Len(history) \in SinceReset(history) /\ history[Len(history)].tables = tables
      BY <1>0, LastIsSince DEF PastOK
    <3>3. own[s] \in 1 .. Len(history)
      BY <2>1, <2>2 DEF SessionOK
    <3>4. Len(history) \in own[s] .. Len(history)
      BY <1>0, <3>3, PastIs
    <3>5. HiresKnown(HiresByQuarter(tables), history)
      BY <3>2 DEF HiresKnown
    <3>6. HiresFrom(HiresByQuarter(tables), own[s], history)
      BY <3>2, <3>4 DEF HiresFrom
    <3> QED
      BY <1>1, <2>2, <3>1, <3>3, <3>5, <3>6 DEF SessionOK, ShowsPast, ShowsLoad
  <2>3. CASE r # s
    <3>1. pc'[r] = pc[r] /\ seen'[r] = seen[r]
      BY <1>0, <1>1, <2>3 DEF ControlOK
    <3> QED
      BY <1>1, <2>1, <3>1
  <2> QED
    BY <2>2, <2>3
<1> QED
  BY <1>3, <1>4, <1>5 DEF RInv

LEMMA FillHiresStep ==
    ASSUME RInv, NEW s \in Sessions, FillHires(s)
    PROVE  RInv'
<1>0. ControlOK /\ PastOK /\ ViewsOK
  BY DEF RInv
<1>1. /\ pc[s] = "fill_hires" /\ holder = Nobody /\ holder' = s
      /\ pc' = [pc EXCEPT ![s] = "fill_average"]
      /\ seen' = [seen EXCEPT ![s] = NoSnapshot]
      /\ staged' = [staged EXCEPT ![s].hires = HiresByQuarter(seen[s])]
      /\ tables' = tables /\ views' = views /\ history' = history /\ own' = own
  BY DEF FillHires, Goto
<1>2. /\ pc'[s] = "fill_average" /\ seen'[s] = NoSnapshot
      /\ \A r \in Sessions : r # s =>
            pc'[r] = pc[r] /\ seen'[r] = seen[r] /\ staged'[r] = staged[r]
  BY <1>0, <1>1 DEF ControlOK
<1>3. /\ staged'[s] = [hires |-> HiresByQuarter(seen[s]), average |-> staged[s].average]
      /\ DOMAIN staged' = Sessions
  <2> DEFINE rows == HiresByQuarter(seen[s])
  <2>1. staged' = [staged EXCEPT ![s].hires = rows]
    BY <1>1
  <2> HIDE DEF rows
  <2>2. /\ staged'[s] = [staged[s] EXCEPT !.hires = rows] /\ DOMAIN staged' = Sessions
        /\ staged[s] = [hires |-> staged[s].hires, average |-> staged[s].average]
    BY <1>0, <2>1 DEF ControlOK
  <2>3. staged'[s] = [hires |-> rows, average |-> staged[s].average]
    BY <2>2
  <2> QED
    BY <2>2, <2>3 DEF rows
<1>4. ControlOK'
  <2>1. \A r \in Sessions : pc'[r] \in {"fill_average", "publish"} <=> holder' = r
    BY <1>0, <1>1, <1>2, NobodyAssumption DEF ControlOK
  <2>2. \A r \in Sessions :
          staged'[r] = [hires |-> staged'[r].hires, average |-> staged'[r].average]
    <3> TAKE r \in Sessions
    <3>1. CASE r = s
      BY <1>3, <3>1
    <3>2. CASE r # s
      BY <1>0, <1>2, <3>2 DEF ControlOK
    <3> QED
      BY <3>1, <3>2
  <2>3. pc' \in [Sessions -> Stages] /\ seen' \in [Sessions -> Tables \cup {NoSnapshot}]
    BY <1>0, <1>1 DEF ControlOK, Stages
  <2>4. \A r \in Sessions : (seen'[r] # NoSnapshot) <=> pc'[r] = "fill_hires"
    BY <1>0, <1>1, <1>2 DEF ControlOK
  <2> QED
    BY <1>0, <1>1, <1>3, <2>1, <2>2, <2>3, <2>4 DEF ControlOK
<1>5. PastOK' /\ ViewsOK'
  BY <1>0, <1>1 DEF PastOK, ViewsOK
<1>6. ASSUME NEW r \in Sessions
      PROVE  SessionOK(pc'[r], seen'[r], staged'[r], own'[r], history')
  <2>1. SessionOK(pc[r], seen[r], staged[r], own[r], history)
    BY DEF RInv
  <2>2. CASE r = s
    <3>1. /\ staged'[s].hires = HiresByQuarter(seen[s]) /\ pc'[s] = "fill_average"
          /\ own'[s] = own[s] /\ history' = history /\ pc[s] = "fill_hires"
      BY <1>1, <1>2, <1>3
    <3> QED
      BY <2>1, <2>2, <3>1 DEF SessionOK, ShowsPast, ShowsLoad
  <2>3. CASE r # s
    BY <1>1, <1>2, <2>1, <2>3
  <2> QED
    BY <2>2, <2>3
<1> QED
  BY <1>4, <1>5, <1>6 DEF RInv

LEMMA FillAverageStep ==
    ASSUME RInv, NEW s \in Sessions, FillAverage(s)
    PROVE  RInv'
<1>0. ControlOK /\ PastOK /\ ViewsOK /\ history \in Histories
  BY DEF RInv, PastOK
<1>1. /\ pc[s] = "fill_average" /\ pc' = [pc EXCEPT ![s] = "publish"]
      /\ staged' = [staged EXCEPT ![s].average = DepartmentsAboveAverage(tables)]
      /\ tables' = tables /\ views' = views /\ history' = history /\ own' = own
      /\ seen' = seen /\ holder' = holder
  BY DEF FillAverage, Goto
<1>2. /\ pc'[s] = "publish"
      /\ \A r \in Sessions : r # s => pc'[r] = pc[r] /\ staged'[r] = staged[r]
  BY <1>0, <1>1 DEF ControlOK
<1>3. /\ staged'[s] = [hires |-> staged[s].hires, average |-> DepartmentsAboveAverage(tables)]
      /\ DOMAIN staged' = Sessions
  <2> DEFINE rows == DepartmentsAboveAverage(tables)
  <2>1. staged' = [staged EXCEPT ![s].average = rows]
    BY <1>1
  <2> HIDE DEF rows
  <2>2. /\ staged'[s] = [staged[s] EXCEPT !.average = rows] /\ DOMAIN staged' = Sessions
        /\ staged[s] = [hires |-> staged[s].hires, average |-> staged[s].average]
    BY <1>0, <2>1 DEF ControlOK
  <2>3. staged'[s] = [hires |-> staged[s].hires, average |-> rows]
    BY <2>2
  <2> QED
    BY <2>2, <2>3 DEF rows
<1>4. ControlOK'
  <2>1. \A r \in Sessions : pc'[r] \in {"fill_average", "publish"} <=> holder' = r
    BY <1>0, <1>1, <1>2 DEF ControlOK
  <2>2. \A r \in Sessions :
          staged'[r] = [hires |-> staged'[r].hires, average |-> staged'[r].average]
    <3> TAKE r \in Sessions
    <3>1. CASE r = s
      BY <1>3, <3>1
    <3>2. CASE r # s
      BY <1>0, <1>2, <3>2 DEF ControlOK
    <3> QED
      BY <3>1, <3>2
  <2>3. pc' \in [Sessions -> Stages]
    BY <1>0, <1>1 DEF ControlOK, Stages
  <2>4. \A r \in Sessions : (seen'[r] # NoSnapshot) <=> pc'[r] = "fill_hires"
    BY <1>0, <1>1, <1>2 DEF ControlOK
  <2> QED
    BY <1>0, <1>1, <1>3, <2>1, <2>2, <2>3, <2>4 DEF ControlOK
<1>5. PastOK' /\ ViewsOK'
  BY <1>0, <1>1 DEF PastOK, ViewsOK
<1>6. ASSUME NEW r \in Sessions
      PROVE  SessionOK(pc'[r], seen'[r], staged'[r], own'[r], history')
  <2>1. SessionOK(pc[r], seen[r], staged[r], own[r], history)
    BY DEF RInv
  <2>2. CASE r = s
    <3>1. /\ staged'[s].hires = staged[s].hires /\ pc'[s] = "publish"
          /\ staged'[s].average = DepartmentsAboveAverage(tables)
          /\ own'[s] = own[s] /\ history' = history /\ pc[s] = "fill_average"
      BY <1>1, <1>2, <1>3
    <3>2. Len(history) \in SinceReset(history) /\ history[Len(history)].tables = tables
      BY <1>0, LastIsSince DEF PastOK
    <3>3. own[s] \in 1 .. Len(history)
      BY <2>1, <2>2 DEF SessionOK
    <3>4. Len(history) \in own[s] .. Len(history)
      BY <1>0, <3>3, PastIs
    <3>5. AverageKnown(staged'[s].average, history)
      BY <3>1, <3>2 DEF AverageKnown
    <3>6. AverageFrom(staged'[s].average, own[s], history)
      BY <3>1, <3>2, <3>4 DEF AverageFrom
    <3>7. ShowsPast(pc'[s], seen'[s], staged'[s], history)
      BY <2>1, <2>2, <3>1, <3>5 DEF SessionOK, ShowsPast
    <3>8. ShowsLoad(pc[s], seen[s], staged[s], own[s], history)
            => ShowsLoad(pc'[s], seen'[s], staged'[s], own[s], history)
      BY <3>1, <3>6 DEF ShowsLoad
    <3> QED
      BY <2>1, <2>2, <3>1, <3>3, <3>7, <3>8 DEF SessionOK
  <2>3. CASE r # s
    BY <1>1, <1>2, <2>1, <2>3
  <2> QED
    BY <2>2, <2>3
<1> QED
  BY <1>4, <1>5, <1>6 DEF RInv

LEMMA EndRefreshStep ==
    ASSUME RInv, NEW s \in Sessions, EndRefresh(s), ViewsOK', pc[s] # "idle"
    PROVE  RInv'
<1>0. ControlOK /\ PastOK
  BY DEF RInv
<1>1. /\ pc' = [pc EXCEPT ![s] = "idle"]
      /\ seen' = [seen EXCEPT ![s] = NoSnapshot]
      /\ staged' = [staged EXCEPT ![s] = ReportsOf(Empty)]
      /\ holder' = IF holder = s THEN Nobody ELSE holder
      /\ tables' = tables /\ history' = history /\ own' = own
  BY DEF EndRefresh, Goto
<1>2. /\ pc'[s] = "idle" /\ seen'[s] = NoSnapshot /\ staged'[s] = ReportsOf(Empty)
      /\ \A r \in Sessions : r # s =>
            pc'[r] = pc[r] /\ seen'[r] = seen[r] /\ staged'[r] = staged[r]
      /\ DOMAIN staged' = Sessions
  BY <1>0, <1>1 DEF ControlOK
<1>3. ControlOK'
  <2>1. \A r \in Sessions : pc'[r] \in {"fill_average", "publish"} <=> holder' = r
    BY <1>0, <1>1, <1>2, NobodyAssumption DEF ControlOK
  <2>2. \A r \in Sessions :
          staged'[r] = [hires |-> staged'[r].hires, average |-> staged'[r].average]
    BY <1>0, <1>2 DEF ControlOK, ReportsOf
  <2>3. pc' \in [Sessions -> Stages] /\ seen' \in [Sessions -> Tables \cup {NoSnapshot}]
    BY <1>0, <1>1 DEF ControlOK, Stages
  <2>4. \A r \in Sessions : (seen'[r] # NoSnapshot) <=> pc'[r] = "fill_hires"
    BY <1>0, <1>1, <1>2 DEF ControlOK
  <2> QED
    BY <1>0, <1>1, <1>2, <2>1, <2>2, <2>3, <2>4 DEF ControlOK
<1>4. PastOK'
  BY <1>0, <1>1 DEF PastOK
<1>5. ASSUME NEW r \in Sessions
      PROVE  SessionOK(pc'[r], seen'[r], staged'[r], own'[r], history')
  <2>1. SessionOK(pc[r], seen[r], staged[r], own[r], history)
    BY DEF RInv
  <2>2. CASE r = s
    BY <1>1, <1>2, <2>1, <2>2 DEF SessionOK, ShowsPast, ShowsLoad
  <2>3. CASE r # s
    BY <1>1, <1>2, <2>1, <2>3
  <2> QED
    BY <2>2, <2>3
<1> QED
  BY <1>3, <1>4, <1>5 DEF RInv

\* The views become what the session has staged.
LEMMA PublishStep ==
    ASSUME RInv, NEW s \in Sessions, Publish(s)
    PROVE  RInv'
<1>1. pc[s] = "publish" /\ views' = staged[s] /\ EndRefresh(s) /\ history' = history
  BY DEF Publish, Published, EndRefresh
<1>2. SessionOK(pc[s], seen[s], staged[s], own[s], history)
  BY DEF RInv
<1>3. HiresKnown(staged[s].hires, history) /\ AverageKnown(staged[s].average, history)
  BY <1>1, <1>2 DEF SessionOK, ShowsPast
<1>4. ViewsOK'
  BY <1>1, <1>3 DEF ViewsOK
<1> QED
  BY <1>1, <1>4, EndRefreshStep

LEMMA RefreshFailsStep ==
    ASSUME RInv, NEW s \in Sessions, RefreshFails(s)
    PROVE  RInv'
<1>1. pc[s] # "idle" /\ views' = views /\ EndRefresh(s) /\ history' = history
  BY DEF RefreshFails, EndRefresh
<1>2. ViewsOK'
  BY <1>1 DEF RInv, ViewsOK
<1> QED
  BY <1>1, <1>2, EndRefreshStep

\* Rows of each table, taken from this state of the tables or from that one.
LEMMA MixedTables ==
    ASSUME NEW X \in Tables, NEW Y,
           DOMAIN Y = {"departments", "jobs", "employees"}, Y = [t \in DOMAIN Y |-> Y[t]],
           NEW Z \in Tables, NEW V \in Tables,
           \A t \in DOMAIN Y : Y[t] \in {X[t], Z[t], V[t]}
    PROVE  Y \in Tables
<1>1. TablesLike(X) /\ TablesLike(Z) /\ TablesLike(V)
  BY TablesAre
<1>2. /\ Y["departments"] \in [DepartmentIds -> Names \cup {NoRow}]
      /\ Y["jobs"] \in [JobIds -> Names \cup {NoRow}]
      /\ Y["employees"] \in [EmployeeIds -> Employee \cup {NoRow}]
  BY <1>1 DEF TablesLike
<1>3. Y = [departments |-> Y["departments"], jobs |-> Y["jobs"], employees |-> Y["employees"]]
  OBVIOUS
<1> QED
  BY <1>2, <1>3 DEF Tables

LEMMA RestoredTablesGood ==
    ASSUME PastOK, NEW t \in DOMAIN Empty,
           t = "employees" => ReferencesFound(RestoredTables(t))
    PROVE  RestoredTables(t) \in GoodTables
<1> DEFINE X == RestoredTables(t)
<1>1. /\ Empty \in Tables /\ \A e \in EmployeeIds : Empty.employees[e] = NoRow
      /\ DOMAIN Empty = {"departments", "jobs", "employees"} /\ Saved \in Tables
      /\ tables \in Tables
  BY EmptyTables, TablesAssumption DEF GoodTables, PastOK
<1>2. /\ DOMAIN X = {"departments", "jobs", "employees"} /\ X = [u \in DOMAIN X |-> X[u]]
      /\ \A u \in DOMAIN X : X[u] \in {Saved[u], Empty[u], tables[u]}
      /\ t # "employees" => X.employees = Empty.employees
  BY <1>1 DEF RestoredTables
<1> HIDE DEF X
<1>3. X \in Tables
  BY <1>1, <1>2, MixedTables
<1>4. ReferencesFound(X)
  <2>1. CASE t = "employees"
    BY <2>1 DEF X
  <2>2. CASE t # "employees"
    BY <1>1, <1>2, <2>2 DEF ReferencesFound
  <2> QED
    BY <2>1, <2>2
<1>5. X \in GoodTables
  BY <1>3, <1>4 DEF GoodTables
<1> QED
  BY <1>5 DEF X

\* What a restore and a reset have in common.
LEMMA AdminStep ==
    ASSUME RInv, ViewsOK', holder = Nobody,
           NEW op \in {"restore", "reset"}, NEW T \in GoodTables, Record(op, T),
           NEW names, "employees" \in names, Truncate(names),
           UNCHANGED << pc, staged, own, holder >>
    PROVE  RInv'
<1>0. ControlOK /\ PastOK /\ history \in Histories
  BY DEF RInv, PastOK
<1>1. pc' = pc /\ staged' = staged /\ own' = own /\ holder' = holder
  OBVIOUS
<1> DEFINE entry == [op |-> op, tables |-> T]
<1>2. PastOK' /\ entry \in Entry /\ entry.op # "load" /\ history' = Append(history, entry)
  BY <1>0, RecordKeepsPast
<1> HIDE DEF entry
<1>3. /\ Empty \in Tables /\ \A e \in EmployeeIds : Empty.employees[e] = NoRow
      /\ DOMAIN Empty = {"departments", "jobs", "employees"}
  BY EmptyTables DEF GoodTables
<1>4. /\ seen' \in [Sessions -> Tables \cup {NoSnapshot}]
      /\ \A s \in Sessions : (seen'[s] # NoSnapshot) <=> pc[s] = "fill_hires"
      /\ \A s \in Sessions : pc[s] = "fill_hires" =>
            \A e \in EmployeeIds : seen'[s].employees[e] = NoRow
  <2> DEFINE Left(s) == [t \in DOMAIN Empty |-> IF t \in names THEN Empty[t] ELSE seen[s][t]]
  <2>1. seen' = [s \in Sessions |-> IF pc[s] # "fill_hires" THEN NoSnapshot ELSE Left(s)]
    BY DEF Truncate
  <2>2. ASSUME NEW s \in Sessions, pc[s] = "fill_hires"
        PROVE  Left(s) \in Tables /\ \A e \in EmployeeIds : Left(s).employees[e] = NoRow
    <3> DEFINE Y == Left(s)
    <3>1. seen[s] \in Tables
      BY <1>0, <2>2 DEF ControlOK
    <3>2. /\ DOMAIN Y = {"departments", "jobs", "employees"} /\ Y = [t \in DOMAIN Y |-> Y[t]]
          /\ \A t \in DOMAIN Y : Y[t] \in {Empty[t], seen[s][t]}
          /\ Y.employees = Empty.employees
      BY <1>3
    <3> HIDE DEF Y
    <3>3. Y \in Tables /\ \A e \in EmployeeIds : Y.employees[e] = NoRow
      BY <1>3, <3>1, <3>2, MixedTables
    <3> QED
      BY <3>3 DEF Y
  <2> HIDE DEF Left
  <2>3. \A s \in Sessions : pc[s] = "fill_hires" => Left(s) # NoSnapshot
    BY <2>2, NoSnapshotAssumption
  <2> QED
    BY <2>1, <2>2, <2>3
<1>5. ControlOK'
  BY <1>0, <1>1, <1>4 DEF ControlOK
<1>6. ASSUME NEW s \in Sessions
      PROVE  SessionOK(pc'[s], seen'[s], staged'[s], own'[s], history')
  <2>1. pc[s] \in {"idle", "refresh_hires", "fill_hires"}
    BY <1>0, NobodyAssumption DEF ControlOK, Stages
  <2>2. own[s] \in 1 .. Len(history)
    BY DEF RInv, SessionOK
  <2>3. SessionOK(pc[s], seen'[s], staged[s], own[s], Append(history, entry))
    BY <1>0, <1>2, <1>4, <2>1, <2>2, SessionOverruled
  <2> QED
    BY <1>1, <1>2, <2>3
<1> QED
  BY <1>2, <1>5, <1>6 DEF RInv

LEMMA RestoreTableStep ==
    ASSUME RInv, NEW t \in DOMAIN Empty, RestoreTable(t)
    PROVE  RInv'
<1>0. PastOK /\ ViewsOK /\ history \in Histories
  BY DEF RInv, PastOK
<1>1. /\ holder = Nobody /\ Record("restore", RestoredTables(t))
      /\ Truncate({t, "employees"}) /\ UNCHANGED << pc, staged, own, holder >>
      /\ views' = views
  BY DEF RestoreTable
<1>2. RestoredTables(t) \in GoodTables
  BY <1>0, RestoredTablesGood DEF RestoreTable
<1> DEFINE entry == [op |-> "restore", tables |-> RestoredTables(t)]
<1>3. entry \in Entry /\ entry.op # "reset" /\ history' = Append(history, entry)
  BY <1>0, <1>1, <1>2, RecordKeepsPast
<1> HIDE DEF entry
<1>4. ViewsOK'
  BY <1>0, <1>1, <1>3, KnownGrows DEF ViewsOK
<1> QED
  BY <1>1, <1>2, <1>4, AdminStep

LEMMA ResetStep ==
    ASSUME RInv, Reset
    PROVE  RInv'
<1>0. PastOK /\ history \in Histories
  BY DEF RInv, PastOK
<1>1. /\ holder = Nobody /\ Record("reset", Empty) /\ Truncate(DOMAIN Empty)
      /\ UNCHANGED << pc, staged, own, holder >> /\ views' = ReportsOf(Empty)
  BY DEF Reset, ViewsAfterReset
<1>2. /\ Empty \in GoodTables /\ \A e \in EmployeeIds : Empty.employees[e] = NoRow
      /\ "employees" \in DOMAIN Empty
  BY EmptyTables
<1>3. PastOK' /\ tables' = Empty
  BY <1>0, <1>1, <1>2, RecordKeepsPast DEF Record
<1>4. /\ Len(history') \in SinceReset(history')
      /\ history'[Len(history')].tables = Empty
  BY <1>3, LastIsSince DEF PastOK
<1>5. ViewsOK'
  BY <1>1, <1>2, <1>4, NoHires DEF ViewsOK, HiresKnown, AverageKnown, ReportsOf
<1> QED
  BY <1>1, <1>2, <1>5, AdminStep

LEMMA RInvStep == RInv /\ [Next]_vars => RInv'
<1> SUFFICES ASSUME RInv, [Next]_vars PROVE RInv'
  OBVIOUS
<1>1. CASE \E s \in Sessions :
             \/ CommitLoad(s) \/ BeginRefresh(s) \/ FillHires(s) \/ FillAverage(s)
             \/ Publish(s) \/ RefreshFails(s)
  BY <1>1, CommitLoadStep, BeginRefreshStep, FillHiresStep, FillAverageStep,
     PublishStep, RefreshFailsStep
<1>2. CASE \E t \in DOMAIN Empty : RestoreTable(t)
  BY <1>2, RestoreTableStep
<1>3. CASE Reset
  BY <1>3, ResetStep
<1>4. CASE UNCHANGED vars
  BY <1>4 DEF vars, RInv, ControlOK, PastOK, ViewsOK
<1> QED
  BY <1>1, <1>2, <1>3, <1>4 DEF Next, Quiet

\* What the reports may show holds in every state: no step leads out of it.
LEMMA RInvAlways == Spec => []RInv
<1>1. Init => RInv
  BY RInvInit
<1> QED
  BY <1>1, RInvStep, PTL DEF Spec

(***************************************************************************)
(* Sums are sizes of sets.                                                 *)
(***************************************************************************)

\* As many things for each x of S as f says.
Heap(f, S) == {p \in S \X (Nat \ {0}) : p[2] <= f[p[1]]}

LEMMA SmallHeap ==
    ASSUME NEW f, NEW x, f[x] \in Nat
    PROVE  IsFiniteSet(Heap(f, {x})) /\ Cardinality(Heap(f, {x})) = f[x]
<1> DEFINE n == f[x]
           H == Heap(f, {x})
           b == [i \in 1 .. n |-> << x, i >>]
<1>1. \A p : p \in H <=> \E i \in 1 .. n : p = << x, i >>
  BY DEF Heap
<1> HIDE DEF H
<1>2. b \in Bijection(1 .. n, H)
  BY <1>1 DEF Bijection, Injection, IsInjective, Surjection
<1>3. ExistsBijection(1 .. n, H)
  BY <1>2 DEF ExistsBijection
<1>4. IsFiniteSet(1 .. n) /\ Cardinality(1 .. n) = n
  <2>1. PICK k \in Nat : k = n
    OBVIOUS
  <2>2. IsFiniteSet(1 .. k) /\ Cardinality(1 .. k) = k
    BY FS_Interval
  <2> QED
    BY <2>1, <2>2
<1>5. IsFiniteSet(H) /\ Cardinality(H) = n
  BY <1>3, <1>4, FS_Bijection
<1> QED
  BY <1>5 DEF H

LEMMA NoHeap ==
    ASSUME NEW f
    PROVE  Heap(f, {}) = {} /\ Cardinality(Heap(f, {})) = 0
<1>1. Heap(f, {}) = {}
  BY DEF Heap
<1> QED
  BY <1>1, FS_EmptySet

LEMMA FiniteHeap ==
    ASSUME NEW S, IsFiniteSet(S), NEW f, \A x \in S : f[x] \in Nat
    PROVE  IsFiniteSet(Heap(f, S))
<1> DEFINE g == [x \in S |-> Heap(f, {x})]
           parts == {g[x] : x \in S}
<1>1. g \in Surjection(S, parts)
  BY DEF Surjection
<1>2. IsFiniteSet(parts)
  <2> HIDE DEF g, parts
  <2> QED
    BY <1>1, FS_Surjection
<1>3. \A H \in parts : IsFiniteSet(H)
  <2>1. ASSUME NEW x \in S PROVE IsFiniteSet(g[x])
    BY <2>1, SmallHeap
  <2> HIDE DEF g
  <2> QED
    BY <2>1
<1>4. IsFiniteSet(UNION parts)
  <2> HIDE DEF parts
  <2> QED
    BY <1>2, <1>3, FS_UNION
<1>5. UNION parts = Heap(f, S)
  <2>1. ASSUME NEW p PROVE p \in Heap(f, S) <=> \E x \in S : p \in Heap(f, {x})
    BY DEF Heap
  <2>2. ASSUME NEW p PROVE p \in UNION parts <=> \E x \in S : p \in Heap(f, {x})
    OBVIOUS
  <2> HIDE DEF parts
  <2> QED
    BY <2>1, <2>2
<1> QED
  BY <1>4, <1>5

LEMMA HeapGrows ==
    ASSUME NEW S, NEW f, IsFiniteSet(Heap(f, S)), NEW x, x \notin S, f[x] \in Nat
    PROVE  Cardinality(Heap(f, S \cup {x})) = f[x] + Cardinality(Heap(f, S))
<1>1. PICK A, B, C : A = Heap(f, S) /\ B = Heap(f, {x}) /\ C = Heap(f, S \cup {x})
  OBVIOUS
<1>2. C = A \cup B /\ A \cap B = {}
  BY <1>1 DEF Heap
<1>3. IsFiniteSet(A) /\ IsFiniteSet(B) /\ Cardinality(B) = f[x]
  BY <1>1, SmallHeap
<1>4. Cardinality(A) \in Nat /\ Cardinality({}) = 0
  BY <1>3, FS_CardinalityType, FS_EmptySet
<1>5. Cardinality(A \cup B) = Cardinality(A) + Cardinality(B) - Cardinality(A \cap B)
  BY <1>3, FS_Union
<1>6. Cardinality(A \cap B) = 0
  BY <1>2, <1>4
<1>7. Cardinality(C) = Cardinality(B) + Cardinality(A)
  BY <1>2, <1>3, <1>4, <1>5, <1>6
<1> QED
  BY <1>1, <1>3, <1>7

\* What the fold of the library adds up is the size of that set.
LEMMA TotalIsSize ==
    ASSUME NEW S, IsFiniteSet(S), NEW f \in [S -> Nat]
    PROVE  Total(f) = Cardinality(Heap(f, S))
<1> DEFINE first(s) == CHOOSE x \in s : TRUE
           Body(i) == [s \in SUBSET S |-> IF s = {} THEN 0
                                          ELSE f[first(s)] + i[s \ {first(s)}]]
           iter == CHOOSE i : i = Body(i)
           size == [s \in SUBSET S |-> Cardinality(Heap(f, s))]
<1>1. ASSUME NEW s \in SUBSET S, s # {}
      PROVE  /\ first(s) \in s /\ s \ {first(s)} \in SUBSET S
             /\ size[s] = f[first(s)] + size[s \ {first(s)}]
  <2>1. PICK x, r : x = first(s) /\ r = s \ {x}
    OBVIOUS
  <2>2. x \in s
    BY <1>1, <2>1
  <2>3. s = r \cup {x} /\ x \notin r /\ r \in SUBSET S /\ IsFiniteSet(r) /\ f[x] \in Nat
    BY <2>1, <2>2, FS_Subset
  <2>4. IsFiniteSet(Heap(f, r))
    BY <2>3, FiniteHeap
  <2>5. Cardinality(Heap(f, s)) = f[x] + Cardinality(Heap(f, r))
    BY <2>3, <2>4, HeapGrows
  <2> QED
    BY <2>1, <2>2, <2>3, <2>5
<1>2. size = Body(size)
  BY <1>1, NoHeap
<1>3. iter = Body(iter)
  <2> HIDE DEF Body, size
  <2> QED
    BY <1>2
<1>4. iter[S] = size[S]
  <2> DEFINE wrong == {s \in SUBSET S : iter[s] # size[s]}
             sizes == {n \in Nat : \E s \in wrong : Cardinality(s) = n}
  <2>1. SUFFICES ASSUME wrong # {} PROVE FALSE
    OBVIOUS
  <2>2. \A s \in SUBSET S : IsFiniteSet(s) /\ Cardinality(s) \in Nat
    BY FS_Subset, FS_CardinalityType
  <2>3. sizes # {} /\ sizes \subseteq Nat
    BY <2>1, <2>2
  <2>4. PICK m \in sizes : \A k \in sizes : m <= k
    <3> HIDE DEF sizes
    <3> QED
      BY <2>3, LeastNumber
  <2>5. PICK s \in wrong : Cardinality(s) = m
    OBVIOUS
  <2>6. s # {}
    BY <1>3, NoHeap
  <2>7. PICK x, r : x = first(s) /\ r = s \ {x}
    OBVIOUS
  <2>8. x \in s /\ r \in SUBSET S /\ size[s] = f[x] + size[r]
    BY <1>1, <2>6, <2>7
  <2>9. iter[s] = f[x] + iter[r]
    <3>1. Body(iter)[s] = f[x] + iter[r]
      <4> HIDE DEF iter
      <4> QED
        BY <2>6, <2>7
    <3> QED
      BY <1>3, <3>1
  <2>10. Cardinality(r) = m - 1
    BY <2>2, <2>5, <2>7, <2>8, FS_RemoveElement
  <2>11. r \notin wrong
    <3>1. Cardinality(r) \in Nat /\ m \in Nat
      BY <2>2, <2>8
    <3> HIDE DEF wrong
    <3> QED
      BY <2>4, <2>10, <3>1
  <2> QED
    BY <2>8, <2>9, <2>11
<1>5. Total(f) = iter[S]
  BY DEF Total, FoldFunction, FoldFunctionOnSet, MapThenFoldSet
<1> QED
  BY <1>4, <1>5

\* Whatever a finite set is sorted into, the sizes of the parts add up to its own.
LEMMA PartsAddUp ==
    ASSUME NEW E, IsFiniteSet(E), NEW S, IsFiniteSet(S), NEW g \in [E -> S],
           NEW f, f = [x \in S |-> Cardinality({e \in E : g[e] = x})]
    PROVE  Total(f) = Cardinality(E)
<1> DEFINE Part(x) == {e \in E : g[e] = x}
           b == [x \in S |-> CHOOSE h : h \in Bijection(Part(x), 1 .. f[x])]
           m == [e \in E |-> << g[e], b[g[e]][e] >>]
<1>1. ASSUME NEW x \in S PROVE f[x] \in Nat /\ b[x] \in Bijection(Part(x), 1 .. f[x])
  <2>1. IsFiniteSet(Part(x)) /\ f[x] = Cardinality(Part(x))
    BY FS_Subset
  <2>2. f[x] \in Nat
    BY <2>1, FS_CardinalityType
  <2>3. IsFiniteSet(1 .. f[x]) /\ Cardinality(1 .. f[x]) = f[x]
    BY <2>2, FS_Interval
  <2>4. ExistsBijection(Part(x), 1 .. f[x])
    BY <2>1, <2>3, FS_SameCardinalityBij
  <2> HIDE DEF Part
  <2> QED
    BY <2>2, <2>4 DEF ExistsBijection
<1>2. f \in [S -> Nat]
  BY <1>1
<1>3. ASSUME NEW x \in S
      PROVE  /\ \A e \in E : g[e] = x => b[x][e] \in 1 .. f[x]
             /\ \A e, d \in E : g[e] = x /\ g[d] = x /\ b[x][e] = b[x][d] => e = d
             /\ \A i \in 1 .. f[x] : \E e \in E : g[e] = x /\ b[x][e] = i
  <2>1. PICK h : h = b[x] /\ h \in Bijection(Part(x), 1 .. f[x])
    BY <1>1
  <2> HIDE DEF b
  <2> QED
    BY <2>1 DEF Bijection, Injection, IsInjective, Surjection
<1> HIDE DEF b
<1>4. m \in [E -> Heap(f, S)]
  <2>1. ASSUME NEW e \in E PROVE << g[e], b[g[e]][e] >> \in Heap(f, S)
    <3>1. PICK x, i : x = g[e] /\ i = b[x][e]
      OBVIOUS
    <3>2. x \in S /\ f[x] \in Nat /\ i \in 1 .. f[x]
      BY <1>1, <1>3, <3>1
    <3>3. << x, i >> \in Heap(f, S)
      BY <3>2 DEF Heap
    <3> QED
      BY <3>1, <3>3
  <2> QED
    BY <2>1
<1>5. \A e, d \in E : m[e] = m[d] => e = d
  BY <1>3
<1>6. \A p \in Heap(f, S) : \E e \in E : m[e] = p
  <2> TAKE p \in Heap(f, S)
  <2>1. PICK x \in S, i \in Nat \ {0} : p = << x, i >> /\ i <= f[x]
    BY DEF Heap
  <2>2. i \in 1 .. f[x]
    BY <1>1, <2>1
  <2>3. PICK e \in E : g[e] = x /\ b[x][e] = i
    BY <1>3, <2>2
  <2> QED
    BY <2>1, <2>3
<1> HIDE DEF m
<1>7. m \in Bijection(E, Heap(f, S))
  BY <1>4, <1>5, <1>6 DEF Bijection, Injection, IsInjective, Surjection
<1>8. Cardinality(Heap(f, S)) = Cardinality(E)
  BY <1>7, FS_Bijection DEF ExistsBijection
<1> QED
  BY <1>2, <1>8, TotalIsSize

\* As many as there are that the function tells apart.
LEMMA AsMany ==
    ASSUME NEW S, IsFiniteSet(S), NEW f, NEW T, T = {f[x] : x \in S}, DOMAIN f = S,
           \A x, y \in S : f[x] = f[y] => x = y
    PROVE  IsFiniteSet(T) /\ Cardinality(T) = Cardinality(S)
<1>1. [x \in S |-> f[x]] \in Bijection(S, T)
  BY DEF Bijection, Injection, IsInjective, Surjection
<1> QED
  BY <1>1, FS_Bijection DEF ExistsBijection

(***************************************************************************)
(* The two reports tell the same story.                                    *)
(***************************************************************************)
Hired(T) == HiredIn(T, {ReportYear})
HiredThere(T, d, j) == {e \in Hired(T) : DepartmentOf(T, e) = d /\ JobOf(T, e) = j}
HiredThen(T, d, j, q) == {e \in HiredThere(T, d, j) : T.employees[e].quarter = q}

\* The row of the first report that employee e is counted in.
RowFor(T, d, j) ==
    [department |-> d, job |-> j,
     hired |-> [q \in Quarters |-> Cardinality(HiredThen(T, d, j, q))]]
RowOf(T, e) == RowFor(T, DepartmentOf(T, e), JobOf(T, e))

LEMMA RowsApart ==
    ASSUME NEW T, NEW e, NEW d
    PROVE  /\ RowOf(T, e).department = DepartmentOf(T, e)
           /\ RowOf(T, e) = RowOf(T, d)
                <=> DepartmentOf(T, e) = DepartmentOf(T, d) /\ JobOf(T, e) = JobOf(T, d)
<1>1. /\ RowOf(T, e).department = DepartmentOf(T, e) /\ RowOf(T, e).job = JobOf(T, e)
      /\ RowOf(T, d).department = DepartmentOf(T, d) /\ RowOf(T, d).job = JobOf(T, d)
  BY DEF RowOf, RowFor
<1>2. DepartmentOf(T, e) = DepartmentOf(T, d) /\ JobOf(T, e) = JobOf(T, d)
        => RowOf(T, e) = RowOf(T, d)
  BY DEF RowOf
<1> QED
  BY <1>1, <1>2

LEMMA HiredEmployees ==
    ASSUME NEW T \in GoodTables
    PROVE  /\ IsFiniteSet(Hired(T)) /\ Hired(T) \subseteq EmployeeIds
           /\ \A e \in Hired(T) :
                /\ T.employees[e].hire_department_id \in DepartmentIds
                /\ T.employees[e].quarter \in Quarters
                /\ DepartmentOf(T, e) # NoRow /\ JobOf(T, e) # NoRow
                /\ DepartmentOf(T, e) = T.departments[T.employees[e].hire_department_id]
<1>1. IsFiniteSet(Hired(T)) /\ Hired(T) \subseteq EmployeeIds
  BY FiniteAssumption, FS_Subset DEF Hired, HiredIn
<1>2. ASSUME NEW e \in Hired(T) PROVE T.employees[e] \in Employee /\ T.employees[e] # NoRow
  BY DEF Hired, HiredIn, GoodTables, Tables
<1>3. ASSUME NEW e \in Hired(T) PROVE DepartmentOf(T, e) # NoRow /\ JobOf(T, e) # NoRow
  BY <1>1, <1>2 DEF GoodTables, ReferencesFound, DepartmentOf, JobOf
<1> QED
  BY <1>1, <1>2, <1>3 DEF Employee, DepartmentOf

\* No hire falls out of the join.
LEMMA RowsShown ==
    ASSUME NEW T \in GoodTables
    PROVE  HiresByQuarter(T) = {RowOf(T, e) : e \in Hired(T)}
<1> DEFINE joined == {e \in HiredIn(T, {ReportYear}) :
                        DepartmentOf(T, e) # NoRow /\ JobOf(T, e) # NoRow}
           Count(g, q) ==
             Cardinality({e \in joined : /\ DepartmentOf(T, e) = g[1] /\ JobOf(T, e) = g[2]
                                         /\ T.employees[e].quarter = q})
           Shown(g) == [department |-> g[1], job |-> g[2],
                        hired |-> [q \in Quarters |-> Count(g, q)]]
           Group(e) == << DepartmentOf(T, e), JobOf(T, e) >>
<1>1. joined = Hired(T)
  BY HiredEmployees DEF Hired
<1>2. HiresByQuarter(T) = {Shown(g) : g \in {Group(e) : e \in joined}}
  BY DEF HiresByQuarter
<1>3. ASSUME NEW e PROVE Shown(Group(e)) = RowOf(T, e)
  <2>1. PICK d, j : d = DepartmentOf(T, e) /\ j = JobOf(T, e)
    OBVIOUS
  <2>2. ASSUME NEW q PROVE Count(<< d, j >>, q) = Cardinality(HiredThen(T, d, j, q))
    <3>1. {f \in joined : /\ DepartmentOf(T, f) = << d, j >>[1] /\ JobOf(T, f) = << d, j >>[2]
                          /\ T.employees[f].quarter = q} = HiredThen(T, d, j, q)
      <4> HIDE DEF joined
      <4> QED
        BY <1>1 DEF HiredThen, HiredThere
    <3> QED
      BY <3>1
  <2> HIDE DEF Count
  <2>3. Shown(<< d, j >>) = RowFor(T, d, j)
    BY <2>2 DEF RowFor
  <2> HIDE DEF Shown
  <2> QED
    BY <2>1, <2>3 DEF RowOf
<1> HIDE DEF joined, Shown
<1>4. {Shown(g) : g \in {Group(e) : e \in joined}} = {Shown(Group(e)) : e \in joined}
  OBVIOUS
<1> HIDE DEF Group
<1> QED
  BY <1>1, <1>2, <1>3, <1>4

\* The quarters of a row add up to the hires it stands for.
LEMMA RowAddsUp ==
    ASSUME NEW T \in GoodTables, NEW e \in Hired(T)
    PROVE  Total(RowOf(T, e).hired) = Cardinality({d \in Hired(T) : RowOf(T, d) = RowOf(T, e)})
<1>1. PICK n, j : n = DepartmentOf(T, e) /\ j = JobOf(T, e)
  OBVIOUS
<1> DEFINE E == HiredThere(T, n, j)
           g == [d \in E |-> T.employees[d].quarter]
<1>2. E = {d \in Hired(T) : RowOf(T, d) = RowOf(T, e)}
  BY <1>1, RowsApart DEF HiredThere
<1>3. IsFiniteSet(E) /\ E \subseteq Hired(T)
  BY HiredEmployees, FS_Subset DEF HiredThere
<1>4. g \in [E -> Quarters]
  BY <1>3, HiredEmployees
<1>5. IsFiniteSet(Quarters)
  <2>1. \A m \in Nat : IsFiniteSet(1 .. m)
    BY FS_Interval
  <2>2. PICK last \in Nat : last = 4
    OBVIOUS
  <2>3. IsFiniteSet(1 .. last)
    BY <2>1
  <2> QED
    BY <2>2, <2>3, Zenon DEF Quarters
<1>6. \A q \in Quarters : HiredThen(T, n, j, q) = {d \in E : g[d] = q}
  BY DEF HiredThen
<1> HIDE DEF E, g
<1>7. RowOf(T, e).hired = [q \in Quarters |-> Cardinality({d \in E : g[d] = q})]
  BY <1>1, <1>6 DEF RowOf, RowFor
<1>8. Total(RowOf(T, e).hired) = Cardinality(E)
  BY <1>3, <1>4, <1>5, <1>7, PartsAddUp
<1> QED
  BY <1>2, <1>8

\* Rows of the first report count the hires they stand for, each one once.
LEMMA RowsCountHires ==
    ASSUME NEW T \in GoodTables, NEW W, W \subseteq HiresByQuarter(T)
    PROVE  Counted(W) = Cardinality({e \in Hired(T) : RowOf(T, e) \in W})
<1> DEFINE E == {e \in Hired(T) : RowOf(T, e) \in W}
           g == [e \in E |-> RowOf(T, e)]
<1>1. IsFiniteSet(E)
  BY HiredEmployees, FS_Subset
<1>2. g \in Surjection(E, W)
  BY RowsShown DEF Surjection
<1>3. IsFiniteSet(W)
  BY <1>1, <1>2, FS_Surjection
<1>4. ASSUME NEW r \in W PROVE Total(r.hired) = Cardinality({e \in E : g[e] = r})
  <2>1. PICK e \in Hired(T) : r = RowOf(T, e)
    BY RowsShown
  <2>2. {d \in E : g[d] = r} = {d \in Hired(T) : RowOf(T, d) = r}
    OBVIOUS
  <2> QED
    BY <2>1, <2>2, RowAddsUp
<1>5. g \in [E -> W]
  OBVIOUS
<1> HIDE DEF E, g
<1>6. [r \in W |-> Total(r.hired)] = [r \in W |-> Cardinality({e \in E : g[e] = r})]
  BY <1>4
<1>7. Counted(W) = Cardinality(E)
  BY <1>1, <1>3, <1>5, <1>6, PartsAddUp DEF Counted
<1> QED
  BY <1>7 DEF E

\* What the second report says of a department, in terms of the hires.
LEMMA DepartmentCounts ==
    ASSUME NEW T \in GoodTables, DistinctNames(T), NEW d \in DepartmentIds,
           NEW n, n = T.departments[d]
    PROVE  Counted({r \in HiresByQuarter(T) : r.department = n}) = HiredBy(T, d, {ReportYear})
<1> DEFINE W == {r \in HiresByQuarter(T) : r.department = n}
<1>1. {e \in Hired(T) : RowOf(T, e) \in W} = {e \in Hired(T) : DepartmentOf(T, e) = n}
  BY RowsShown, RowsApart
<1>2. \A e \in Hired(T) : DepartmentOf(T, e) = n <=> T.employees[e].hire_department_id = d
  BY HiredEmployees DEF DistinctNames
<1>3. {e \in Hired(T) : RowOf(T, e) \in W} = {e \in Hired(T) : T.employees[e].hire_department_id = d}
  BY <1>1, <1>2
<1>4. Counted(W) = Cardinality({e \in Hired(T) : RowOf(T, e) \in W})
  BY RowsCountHires
<1> HIDE DEF W
<1>5. HiredBy(T, d, {ReportYear}) = Cardinality({e \in Hired(T) : T.employees[e].hire_department_id = d})
  BY DEF HiredBy, Hired
<1> QED
  BY <1>3, <1>4, <1>5 DEF W

Hiring(T) == {d \in DepartmentIds : HiredBy(T, d, {ReportYear}) > 0}

LEMMA HiringDepartments ==
    ASSUME NEW T \in GoodTables
    PROVE  /\ \A d \in DepartmentIds : HiredBy(T, d, {ReportYear}) \in Nat
           /\ \A d \in DepartmentIds :
                d \in Hiring(T) <=> \E e \in Hired(T) : T.employees[e].hire_department_id = d
           /\ IsFiniteSet(Hiring(T))
           /\ Total([d \in Hiring(T) |-> HiredBy(T, d, {ReportYear})]) = Cardinality(Hired(T))
<1> DEFINE By(d) == {e \in Hired(T) : T.employees[e].hire_department_id = d}
           g == [e \in Hired(T) |-> T.employees[e].hire_department_id]
<1>1. \A d : HiredBy(T, d, {ReportYear}) = Cardinality(By(d)) /\ IsFiniteSet(By(d))
  BY HiredEmployees, FS_Subset DEF HiredBy, Hired
<1>2. \A d : Cardinality(By(d)) \in Nat /\ (Cardinality(By(d)) = 0 <=> By(d) = {})
  BY <1>1, FS_CardinalityType, FS_EmptySet
<1>3. ASSUME NEW d \in DepartmentIds PROVE d \in Hiring(T) <=> By(d) # {}
  <2>1. HiredBy(T, d, {ReportYear}) > 0 <=> By(d) # {}
    <3> HIDE DEF By
    <3> QED
      BY <1>1, <1>2
  <2> HIDE DEF By
  <2> QED
    BY <2>1 DEF Hiring
<1>4. \A d \in DepartmentIds :
        d \in Hiring(T) <=> \E e \in Hired(T) : T.employees[e].hire_department_id = d
  BY <1>3
<1>5. g \in Surjection(Hired(T), Hiring(T))
  <2>1. Hiring(T) \subseteq DepartmentIds
    BY DEF Hiring
  <2> QED
    BY <1>4, <2>1, HiredEmployees DEF Surjection
<1>6. IsFiniteSet(Hiring(T))
  BY <1>5, HiredEmployees, FS_Surjection
<1>7. \A d : By(d) = {e \in Hired(T) : g[e] = d}
  OBVIOUS
<1>8. g \in [Hired(T) -> Hiring(T)]
  BY <1>5 DEF Surjection
<1> HIDE DEF By, g
<1>9. [d \in Hiring(T) |-> HiredBy(T, d, {ReportYear})]
        = [d \in Hiring(T) |-> Cardinality({e \in Hired(T) : g[e] = d})]
  BY <1>1, <1>7
<1>10. Total([d \in Hiring(T) |-> HiredBy(T, d, {ReportYear})]) = Cardinality(Hired(T))
  <2>1. PICK f : f = [d \in Hiring(T) |-> Cardinality({e \in Hired(T) : g[e] = d})]
    OBVIOUS
  <2>2. IsFiniteSet(Hired(T))
    BY HiredEmployees
  <2>3. Total(f) = Cardinality(Hired(T))
    BY <1>6, <1>8, <2>1, <2>2, PartsAddUp
  <2> QED
    BY <1>9, <2>1, <2>3
<1> QED
  BY <1>1, <1>2, <1>4, <1>6, <1>10

LEMMA HiringNamed ==
    ASSUME NEW T \in GoodTables, NEW d \in Hiring(T)
    PROVE  /\ d \in DepartmentIds /\ T.departments[d] # NoRow
           /\ \E e \in Hired(T) : DepartmentOf(T, e) = T.departments[d]
<1>1. d \in DepartmentIds
  BY DEF Hiring
<1>2. PICK e \in Hired(T) : T.employees[e].hire_department_id = d
  BY <1>1, HiringDepartments
<1>3. DepartmentOf(T, e) # NoRow /\ DepartmentOf(T, e) = T.departments[d]
  BY <1>2, HiredEmployees
<1> QED
  BY <1>1, <1>3

LEMMA DepartmentsShown ==
    ASSUME NEW T \in GoodTables, DistinctNames(T)
    PROVE  Cardinality({r.department : r \in HiresByQuarter(T)}) = Cardinality(Hiring(T))
<1> DEFINE f == [d \in Hiring(T) |-> T.departments[d]]
           shown == {r.department : r \in HiresByQuarter(T)}
<1>1. \A d \in Hiring(T) : d \in DepartmentIds /\ T.departments[d] # NoRow
  BY HiringNamed
<1>2. shown = {DepartmentOf(T, e) : e \in Hired(T)}
  BY RowsShown, RowsApart
<1>3. {DepartmentOf(T, e) : e \in Hired(T)} = {f[d] : d \in Hiring(T)}
  <2>1. ASSUME NEW e \in Hired(T)
        PROVE  \E d \in Hiring(T) : DepartmentOf(T, e) = f[d]
    <3>1. PICK d : d = T.employees[e].hire_department_id
      OBVIOUS
    <3>2. d \in DepartmentIds /\ DepartmentOf(T, e) = T.departments[d]
      BY <3>1, HiredEmployees
    <3>3. d \in Hiring(T)
      BY <3>1, <3>2, HiringDepartments
    <3> QED
      BY <3>2, <3>3
  <2>2. ASSUME NEW d \in Hiring(T)
        PROVE  \E e \in Hired(T) : DepartmentOf(T, e) = f[d]
    BY HiringNamed
  <2> HIDE DEF f
  <2> QED
    BY <2>1, <2>2
<1>4. \A d, e \in Hiring(T) : f[d] = f[e] => d = e
  BY <1>1 DEF DistinctNames
<1>5. DOMAIN f = Hiring(T)
  OBVIOUS
<1> HIDE DEF f
<1>6. Cardinality({f[d] : d \in Hiring(T)}) = Cardinality(Hiring(T))
  BY <1>4, <1>5, HiringDepartments, AsMany
<1> QED
  BY <1>2, <1>3, <1>6

LEMMA AgreementOfTables ==
    ASSUME tables \in GoodTables
    PROVE  ReportsAgree
<1> DEFINE T == tables
           hires == ReportsOf(T).hires
           shown == {r.department : r \in hires}
           C(d) == Counted({r \in hires : r.department = T.departments[d]})
           N == Cardinality(Hired(T))
           n(d) == HiredBy(T, d, {ReportYear})
           Shown(d) == [id |-> d, department |-> T.departments[d], hired |-> n(d)]
           Listed(d) == [id |-> d, department |-> T.departments[d], hired |-> C(d)]
           above == {h \in Hiring(T) : /\ T.departments[h] # NoRow
                                       /\ n(h) * Cardinality(Hiring(T)) > N}
           aboveShown == {h \in DepartmentIds : C(h) * Cardinality(shown) > Counted(hires)}
<1>1. hires = HiresByQuarter(T) /\ ReportsOf(T).average = DepartmentsAboveAverage(T)
  BY DEF ReportsOf
<1> HIDE DEF hires
<1>2. DepartmentsAboveAverage(T) = {Shown(d) : d \in above}
  BY HiringDepartments DEF DepartmentsAboveAverage, AboveAverage, Hiring
<1>3. Counted(hires) = Cardinality(HiredIn(T, {2021}))
  <2>1. {e \in Hired(T) : RowOf(T, e) \in hires} = Hired(T)
    BY <1>1, RowsShown
  <2>2. Counted(hires) = N
    BY <1>1, <2>1, RowsCountHires
  <2> QED
    BY <2>2 DEF Hired, ReportYear
<1>4. ASSUME DistinctNames(T)
      PROVE  {Shown(d) : d \in above} = {Listed(d) : d \in aboveShown}
  <2>1. \A d \in DepartmentIds : C(d) = n(d) /\ n(d) \in Nat
    BY <1>1, <1>4, DepartmentCounts, HiringDepartments
  <2>2. PICK k : k = Cardinality(Hiring(T)) /\ k = Cardinality(shown) /\ k \in Nat
    BY <1>1, <1>4, DepartmentsShown, HiringDepartments, FS_CardinalityType
  <2>3. N \in Nat
    BY HiredEmployees, FS_CardinalityType
  <2>4. ASSUME NEW h \in DepartmentIds
        PROVE  h \in above <=> n(h) * k > N
    <3>1. h \in Hiring(T) <=> n(h) > 0
      BY DEF Hiring
    <3>2. h \in Hiring(T) => T.departments[h] # NoRow
      BY HiringNamed
    <3>3. 0 * k = 0 /\ ~ (0 > N)
      BY <2>2, <2>3
    <3>4. n(h) \in Nat
      BY <2>1
    <3> HIDE DEF n, N
    <3>5. n(h) * k > N => n(h) > 0
      BY <3>3, <3>4
    <3> QED
      BY <2>2, <3>1, <3>2, <3>5
  <2>5. ASSUME NEW h \in DepartmentIds
        PROVE  h \in aboveShown <=> n(h) * k > N
    <3>1. C(h) = n(h)
      BY <2>1
    <3>2. Counted(hires) = N
      BY <1>3 DEF Hired, ReportYear
    <3> HIDE DEF C, n, N, shown
    <3> QED
      BY <2>2, <3>1, <3>2
  <2>6. above \subseteq DepartmentIds /\ aboveShown \subseteq DepartmentIds
    BY DEF Hiring
  <2>7. \A d \in DepartmentIds : Shown(d) = Listed(d)
    BY <2>1
  <2> HIDE DEF above, aboveShown, Shown, Listed
  <2> QED
    BY <2>4, <2>5, <2>6, <2>7
<1>5. {Listed(d) : d \in aboveShown} = ShownAboveAverage(T, hires)
  BY DEF ShownAboveAverage
<1>6. DistinctNames(T) => ReportsOf(T).average = ShownAboveAverage(T, hires)
  <2> HIDE DEF above, aboveShown, Shown, Listed
  <2> QED
    BY <1>1, <1>2, <1>4, <1>5
<1> QED
  BY <1>3, <1>6 DEF ReportsAgree, hires

-----------------------------------------------------------------------------
(***************************************************************************)
(* The theorems.                                                           *)
(***************************************************************************)
\* The tables keep their columns and foreign keys, the views hold reports with
\* counts that the employees can have, and the handlers are where their code
\* has statements (_run_batch, Restore.run and Reset.run).
THEOREM TypeAlways == Spec => []TypeOK
<1>1. RInv => TypeOK
  <2> SUFFICES ASSUME RInv PROVE TypeOK
    OBVIOUS
  <2>1. \A r \in views.hires : r.hired \in [Quarters -> 0 .. Cardinality(EmployeeIds)]
    BY HiresTyped DEF RInv, ViewsOK, HiresKnown
  <2>2. \A r \in views.average : r.id \in DepartmentIds /\ r.hired > 0
    BY AverageTyped DEF RInv, ViewsOK, AverageKnown
  <2>3. tables \in Tables /\ ReferencesFound(tables)
    BY DEF RInv, PastOK, GoodTables
  <2> QED
    BY <2>1, <2>2, <2>3 DEF RInv, ControlOK, Stages, TypeOK
<1> QED
  BY <1>1, RInvAlways, PTL

\* In every state the tables can be in, the quarters of the first report add up
\* to all hires of 2021, and the second report has the departments that the
\* first one shows above the average of the departments it shows.
THEOREM ReportsAlwaysAgree == Spec => []ReportsAgree
<1>1. RInv => ReportsAgree
  BY AgreementOfTables DEF RInv, PastOK
<1> QED
  BY <1>1, RInvAlways, PTL

\* No view shows rows of before the last reset, or rows that no committed state
\* has had since: also a refresh that waited while the tables were emptied
\* publishes nothing else (Reset.run beside _run_batch).
THEOREM ResetsAreForgotten == Spec => []ReportsForgetReset
<1>1. RInv => ReportsForgetReset
  BY DEF RInv, ViewsOK, HiresKnown, AverageKnown, SinceReset, Committed, ReportsForgetReset
<1> QED
  BY <1>1, RInvAlways, PTL

\* A load whose refresh succeeds is in both views when they are published,
\* with however many other loads before it in the queue for the lock, unless a
\* restore or a reset came after the load.
THEOREM LoadsAreShown == Spec => LoadShowsInReports
<1> DEFINE Shown(s) ==
        \/ \E k \in own[s] .. Len(history) : history[k].op # "load"
        \/ \E k, l \in own[s] .. Len(history) :
              views' = [hires |-> HiresByQuarter(Committed(k)),
                        average |-> DepartmentsAboveAverage(Committed(l))]
<1>1. ASSUME RInv, NEW s \in Sessions, Publish(s) PROVE Shown(s)
  <2>1. pc[s] = "publish" /\ views' = staged[s]
    BY <1>1 DEF Publish, Published
  <2>2. staged[s] = [hires |-> staged[s].hires, average |-> staged[s].average]
    BY <1>1 DEF RInv, ControlOK
  <2>3. \/ Overruled(own[s], history)
        \/ ShowsLoad(pc[s], seen[s], staged[s], own[s], history)
    BY <1>1 DEF RInv, SessionOK
  <2>4. CASE Overruled(own[s], history)
    BY <2>4 DEF Overruled
  <2>5. CASE ~ Overruled(own[s], history)
    <3>1. /\ HiresFrom(staged[s].hires, own[s], history)
          /\ AverageFrom(staged[s].average, own[s], history)
      BY <2>1, <2>3, <2>5 DEF ShowsLoad
    <3>2. PICK k \in own[s] .. Len(history) : staged[s].hires = HiresByQuarter(Committed(k))
      BY <3>1 DEF HiresFrom, Committed
    <3>3. PICK l \in own[s] .. Len(history) :
            staged[s].average = DepartmentsAboveAverage(Committed(l))
      BY <3>1 DEF AverageFrom, Committed
    <3> QED
      BY <2>1, <2>2, <3>2, <3>3
  <2> QED
    BY <2>4, <2>5
<1>2. RInv => [\A s \in Sessions : Publish(s) => Shown(s)]_vars
  <2> HIDE DEF Shown
  <2> QED
    BY <1>1
<1> QED
  BY <1>2, RInvAlways, PTL DEF LoadShowsInReports

\* Transfers never move a count: a load of known employees that renames nothing
\* leaves both reports as they were, whatever else is in its batch.
THEOREM TransfersAreNotHires == Spec => TransfersKeepReports
<1> DEFINE OnlyTransfers ==
        /\ \E s \in Sessions : CommitLoad(s)
        /\ \A e \in EmployeeIds : tables'.employees[e] # NoRow => tables.employees[e] # NoRow
        /\ tables'.departments = tables.departments /\ tables'.jobs = tables.jobs
<1>1. ASSUME RInv, OnlyTransfers PROVE ReportsOf(tables') = ReportsOf(tables)
  <2>1. PICK batch \in Batches : tables' = AfterRows(tables, batch)
    BY <1>1 DEF CommitLoad, Record
  <2>2. tables \in GoodTables /\ tables \in Tables
    BY <1>1 DEF RInv, PastOK, GoodTables
  <2>3. tables' \in WithFactsOf(tables)
    BY <2>1, <2>2, BatchStored
  <2> DEFINE X == tables'
  <2>4. /\ X \in Tables
        /\ \A e \in EmployeeIds : tables.employees[e] # NoRow =>
              X.employees[e] # NoRow /\ SameHire(tables.employees[e], X.employees[e])
    BY <2>3 DEF WithFactsOf
  <2>5. \A e \in EmployeeIds : (X.employees[e] = NoRow) <=> (tables.employees[e] = NoRow)
    BY <1>1, <2>4
  <2>6. X.departments = tables.departments /\ X.jobs = tables.jobs
    BY <1>1
  <2> HIDE DEF X
  <2>7. ReportsOf(X) = ReportsOf(tables)
    BY <2>2, <2>4, <2>5, <2>6, ReportsOfFacts
  <2> QED
    BY <2>7 DEF X
<1>2. RInv => [OnlyTransfers => ReportsOf(tables') = ReportsOf(tables)]_vars
  <2> HIDE DEF OnlyTransfers
  <2> QED
    BY <1>1
<1> QED
  BY <1>2, RInvAlways, PTL DEF TransfersKeepReports

=============================================================================
