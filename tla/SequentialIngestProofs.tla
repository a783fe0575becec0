---------------------- MODULE SequentialIngestProofs ----------------------
(***************************************************************************)
(* A lone handler implements EmployeeHistory, for every set of employees,  *)
(* dimension ids and batches, whatever statement fails: between two rows   *)
(* it sees what the rows so far make of the tables, and nothing but the    *)
(* commit publishes it.                                                    *)
(***************************************************************************)
EXTENDS SequentialIngest, IngestOutcomeProofs

-----------------------------------------------------------------------------
(***************************************************************************)
(* A batch row by row: the recursive functions of EmployeeHistory exist.   *)
(***************************************************************************)

\* The rows of a batch of departments or jobs, one after another.
Catalog == [DimensionIds -> Names \cup {NoRow}]

LEMMA NamesFollow ==
    ASSUME NEW names \in Catalog, NEW rows \in Seq(DimensionRow)
    PROVE  LET after == History!NamesAfter(names, rows)
           IN  /\ after[0] = names
               /\ \A n \in 1 .. Len(rows) : after[n] = History!Named(after[n - 1], rows[n])
<1> DEFINE N == Len(rows)
           step == [n \in 1 .. N |-> [x \in Catalog |-> History!Named(x, rows[n])]]
           Body(f) == [n \in 0 .. N |->
                         IF n = 0 THEN names ELSE History!Named(f[n - 1], rows[n])]
           after == CHOOSE f : f = Body(f)
<1>1. N \in Nat
  OBVIOUS
<1>2. ASSUME NEW n \in 1 .. N, NEW x \in Catalog
      PROVE  step[n][x] \in Catalog /\ step[n][x] = History!Named(x, rows[n])
  BY DEF History!Named, History!ValidName, Catalog
<1>3. PICK f \in [0 .. N -> Catalog] :
        f[0] = names /\ \A n \in 1 .. N : f[n] = step[n][f[n - 1]]
  <2>1. StaysIn(Catalog, N, step)
    BY <1>2 DEF StaysIn
  <2> HIDE DEF step, N
  <2>2. \E f : Runs(Catalog, N, names, step, f)
    BY <1>1, <2>1, Iterates
  <2> QED
    BY <2>2 DEF Runs
<1>4. \A n \in 1 .. N : f[n] = History!Named(f[n - 1], rows[n])
  <2>1. \A n \in 1 .. N : f[n - 1] \in Catalog
    BY <1>1, <1>3
  <2> HIDE DEF step, N
  <2> QED
    BY <1>2, <1>3, <2>1
<1>5. f = Body(f)
  <2>1. ASSUME NEW n \in 0 .. N
        PROVE  f[n] = IF n = 0 THEN names ELSE History!Named(f[n - 1], rows[n])
    BY <1>3, <1>4
  <2> HIDE DEF N
  <2> QED
    BY <1>3, <2>1
<1>6. after = Body(after)
  <2> HIDE DEF Body
  <2> QED
    BY <1>5
<1>7. after[0] = names /\ \A n \in 1 .. N : after[n] = History!Named(after[n - 1], rows[n])
  <2> HIDE DEF after, N
  <2>1. ASSUME NEW n \in 0 .. N
        PROVE  after[n] = IF n = 0 THEN names ELSE History!Named(after[n - 1], rows[n])
    BY <1>6
  <2> QED
    BY <1>1, <2>1
<1> QED
  BY <1>7 DEF History!NamesAfter


\* The rows of a batch of hires, one after another.  V is any set that has the
\* attributes of rows and those of the history so far.
Staffs(V) == [hired : [EmployeeIds -> HireFacts \cup {NoRow}], past : [EmployeeIds -> Seq(V)]]

LEMMA EmployedIn ==
    ASSUME NEW V, Attributes \subseteq V, NEW known, NEW staff \in Staffs(V), NEW row \in HireRow
    PROVE  History!Employed(known, staff, row) \in Staffs(V)
<1>1. CASE ~ History!ValidHire(known, row)
  BY <1>1 DEF History!Employed
<1>2. CASE History!ValidHire(known, row)
  <2>1. row.id \in EmployeeIds /\ row.datetime \in Nat /\ History!AttributesOf(row) \in Attributes
    BY <1>2 DEF History!ValidHire, History!AttributesOf, Attributes
  <2>2. /\ staff.hired \in [EmployeeIds -> HireFacts \cup {NoRow}]
        /\ staff.past \in [EmployeeIds -> Seq(V)]
    BY DEF Staffs
  <2>3. History!Hire(staff.hired, row) \in [EmployeeIds -> HireFacts \cup {NoRow}]
    <3>1. [datetime |-> row.datetime, attributes |-> History!AttributesOf(row)] \in HireFacts
      BY <2>1 DEF HireFacts
    <3> QED
      BY <2>2, <3>1 DEF History!Hire
  <2>4. History!Record(staff.past, row) \in [EmployeeIds -> Seq(V)]
    <3>1. Append(staff.past[row.id], History!AttributesOf(row)) \in Seq(V)
      BY <2>1, <2>2
    <3> QED
      BY <2>2, <3>1 DEF History!Record
  <2>5. History!Employed(known, staff, row) =
          [hired |-> History!Hire(staff.hired, row), past |-> History!Record(staff.past, row)]
    BY <1>2 DEF History!Employed
  <2> QED
    BY <2>3, <2>4, <2>5 DEF Staffs
<1> QED
  BY <1>1, <1>2

LEMMA StaffFollows ==
    ASSUME NEW V, Attributes \subseteq V, NEW known, NEW staff \in Staffs(V),
           NEW rows \in Seq(HireRow)
    PROVE  LET after == History!StaffAfter(known, staff, rows)
           IN  /\ after[0] = staff
               /\ \A n \in 1 .. Len(rows) :
                    after[n] = History!Employed(known, after[n - 1], rows[n])
<1> DEFINE N == Len(rows)
           step == [n \in 1 .. N |->
                      [x \in Staffs(V) |-> History!Employed(known, x, rows[n])]]
           Body(f) == [n \in 0 .. N |->
                         IF n = 0 THEN staff ELSE History!Employed(known, f[n - 1], rows[n])]
           after == CHOOSE f : f = Body(f)
<1>1. N \in Nat /\ \A n \in 1 .. N : rows[n] \in HireRow
  OBVIOUS
<1>2. ASSUME NEW n \in 1 .. N, NEW x \in Staffs(V)
      PROVE  step[n][x] \in Staffs(V) /\ step[n][x] = History!Employed(known, x, rows[n])
  BY <1>1, EmployedIn
<1>3. PICK f \in [0 .. N -> Staffs(V)] :
        f[0] = staff /\ \A n \in 1 .. N : f[n] = step[n][f[n - 1]]
  <2>1. StaysIn(Staffs(V), N, step)
    BY <1>2 DEF StaysIn
  <2> HIDE DEF step, N
  <2>2. \E f : Runs(Staffs(V), N, staff, step, f)
    BY <1>1, <2>1, Iterates
  <2> QED
    BY <2>2 DEF Runs
<1>4. \A n \in 1 .. N : f[n] = History!Employed(known, f[n - 1], rows[n])
  <2>1. \A n \in 1 .. N : f[n - 1] \in Staffs(V)
    BY <1>1, <1>3
  <2> HIDE DEF step, N
  <2> QED
    BY <1>2, <1>3, <2>1
<1>5. f = Body(f)
  <2>1. ASSUME NEW n \in 0 .. N
        PROVE  f[n] = IF n = 0 THEN staff ELSE History!Employed(known, f[n - 1], rows[n])
    BY <1>3, <1>4
  <2> HIDE DEF N
  <2> QED
    BY <1>3, <2>1
<1>6. after = Body(after)
  <2> HIDE DEF Body
  <2> QED
    BY <1>5
<1>7. /\ after[0] = staff
      /\ \A n \in 1 .. N : after[n] = History!Employed(known, after[n - 1], rows[n])
  <2> HIDE DEF after, N
  <2>1. ASSUME NEW n \in 0 .. N
        PROVE  after[n] = IF n = 0 THEN staff
                          ELSE History!Employed(known, after[n - 1], rows[n])
    BY <1>6
  <2> QED
    BY <1>1, <2>1
<1> QED
  BY <1>7 DEF History!StaffAfter

-----------------------------------------------------------------------------
(***************************************************************************)
(* The history of an employee in a table of versions.                      *)
(***************************************************************************)
LEMMA VersionsFinite ==
    ASSUME NEW T, NEW e, NEW ids, ids \subseteq VersionsOf(T, e)
    PROVE  IsFiniteSet(ids) /\ Cardinality(ids) \in Nat /\ ids \subseteq VersionIds
<1>1. IsFiniteSet(VersionIds)
  BY BoundsAssumption, FS_Interval DEF VersionIds
<1>2. ids \subseteq VersionIds
  BY DEF VersionsOf
<1>3. IsFiniteSet(ids)
  BY <1>1, <1>2, FS_Subset
<1> QED
  BY <1>2, <1>3, FS_CardinalityType

LEMMA HistoryShape ==
    ASSUME NEW T, NEW e
    PROVE  LET ids == VersionsOf(T, e)
               h == HistoryIn(T, e)
           IN  /\ h \in Seq({h[i] : i \in 1 .. Cardinality(ids)})
               /\ Len(h) = Cardinality(ids)
               /\ DOMAIN h = 1 .. Cardinality(ids)
               /\ \A i \in 1 .. Cardinality(ids) :
                    h[i] = Only({T[v].attributes : v \in AtPlace(ids, i)})
<1> DEFINE ids == VersionsOf(T, e)
           n == Cardinality(ids)
           h == HistoryIn(T, e)
           S == {h[i] : i \in 1 .. n}
<1>1. n \in Nat
  BY VersionsFinite
<1>2. h = [i \in 1 .. n |-> Only({T[v].attributes : v \in AtPlace(ids, i)})]
  BY DEF HistoryIn
<1>3. \A i \in 1 .. n : h[i] = Only({T[v].attributes : v \in AtPlace(ids, i)})
  BY <1>2
<1>4. DOMAIN h = 1 .. n
  BY <1>2
<1>5. h \in [1 .. n -> S]
  <2>1. h = [i \in 1 .. n |-> h[i]]
    BY <1>2
  <2>2. \A i \in 1 .. n : h[i] \in S
    OBVIOUS
  <2> HIDE DEF h, S
  <2> QED
    BY <2>1, <2>2
<1>6. h \in Seq(S) /\ Len(h) = n
  <2> HIDE DEF h, S, n
  <2>1. h \in Seq(S)
    BY <1>1, <1>5
  <2> QED
    BY <1>1, <1>4, <2>1
<1> QED
  BY <1>3, <1>4, <1>6

\* It depends on the attributes of the employee's versions only.
LEMMA SameHistory ==
    ASSUME NEW T, NEW U, NEW e, VersionsOf(U, e) = VersionsOf(T, e),
           \A v \in VersionsOf(T, e) : U[v].attributes = T[v].attributes
    PROVE  HistoryIn(U, e) = HistoryIn(T, e)
<1> DEFINE ids == VersionsOf(T, e)
           n == Cardinality(ids)
           InT(i) == Only({T[v].attributes : v \in AtPlace(ids, i)})
           InU(i) == Only({U[v].attributes : v \in AtPlace(ids, i)})
<1>1. ASSUME NEW i \in 1 .. n PROVE InU(i) = InT(i)
  <2>1. \A v \in AtPlace(ids, i) : U[v].attributes = T[v].attributes
    BY DEF AtPlace
  <2>2. {U[v].attributes : v \in AtPlace(ids, i)} = {T[v].attributes : v \in AtPlace(ids, i)}
    BY <2>1
  <2> QED
    BY <2>2
<1>2. HistoryIn(T, e) = [i \in 1 .. n |-> InT(i)] /\ HistoryIn(U, e) = [i \in 1 .. n |-> InU(i)]
  BY DEF HistoryIn
<1> HIDE DEF InT, InU
<1> QED
  BY <1>1, <1>2

LEMMA NoHistory ==
    ASSUME NEW T, NEW e, VersionsOf(T, e) = {}
    PROVE  HistoryIn(T, e) = << >>
<1>1. Cardinality(VersionsOf(T, e)) = 0
  BY FS_EmptySet
<1>2. PICK S : HistoryIn(T, e) \in Seq(S) /\ Len(HistoryIn(T, e)) = 0
  BY <1>1, HistoryShape
<1> QED
  BY <1>2

\* How many versions are not later than the last one, or than another one.
LEMMA PlaceOfLast ==
    ASSUME NEW T, NEW e, NEW m \in VersionsOf(T, e), \A v \in VersionsOf(T, e) : v <= m
    PROVE  LET ids == VersionsOf(T, e)
           IN  /\ Cardinality(ids) \in Nat \ {0}
               /\ AtPlace(ids, Cardinality(ids)) = {m}
<1> DEFINE ids == VersionsOf(T, e)
           n == Cardinality(ids)
           UpToId(v) == {w \in ids : w <= v}
<1>1. IsFiniteSet(ids) /\ n \in Nat /\ ids \subseteq VersionIds
  BY VersionsFinite
<1>2. n # 0
  BY <1>1, FS_EmptySet
<1>3. UpToId(m) = ids
  OBVIOUS
<1>4. ASSUME NEW v \in ids, v # m PROVE Cardinality(UpToId(v)) # n
  <2>1. v \in Nat /\ m \in Nat /\ v <= m
    BY <1>1, <1>4 DEF VersionIds
  <2>2. ~ (m <= v)
    BY <1>4, <2>1
  <2>3. UpToId(v) \subseteq ids /\ UpToId(v) # ids
    BY <2>2
  <2> HIDE DEF UpToId, n
  <2> QED
    BY <1>1, <2>3, FS_Subset DEF n
<1>5. AtPlace(ids, n) = {m}
  BY <1>3, <1>4 DEF AtPlace
<1> QED
  BY <1>1, <1>2, <1>5

LEMMA LastOfHistory ==
    ASSUME NEW T, NEW e, NEW m \in VersionsOf(T, e), \A v \in VersionsOf(T, e) : v <= m
    PROVE  LET h == HistoryIn(T, e)
           IN  h # << >> /\ h[Len(h)] = T[m].attributes
<1> DEFINE ids == VersionsOf(T, e)
           n == Cardinality(ids)
           h == HistoryIn(T, e)
<1>1. n \in Nat \ {0} /\ AtPlace(ids, n) = {m}
  BY PlaceOfLast
<1>2. Len(h) = n /\ h[n] = Only({T[v].attributes : v \in AtPlace(ids, n)})
  <2>1. n \in 1 .. n
    BY <1>1
  <2> HIDE DEF n
  <2> QED
    BY <2>1, HistoryShape DEF n
<1>3. {T[v].attributes : v \in AtPlace(ids, n)} = {T[m].attributes}
  BY <1>1
<1>4. \A x : Only({x}) = x
  BY DEF Only
<1> QED
  BY <1>1, <1>2, <1>3, <1>4

\* A new version with the greatest id is the last of the history.
LEMMA AppendedHistory ==
    ASSUME NEW T, NEW U, NEW e, NEW m \in VersionIds,
           m \notin VersionsOf(T, e), VersionsOf(U, e) = VersionsOf(T, e) \cup {m},
           \A v \in VersionsOf(T, e) : v < m /\ U[v].attributes = T[v].attributes
    PROVE  HistoryIn(U, e) = Append(HistoryIn(T, e), U[m].attributes)
<1> DEFINE old == VersionsOf(T, e)
           new == VersionsOf(U, e)
           n == Cardinality(old)
           h == HistoryIn(T, e)
           g == HistoryIn(U, e)
<1>1. IsFiniteSet(old) /\ n \in Nat /\ old \subseteq VersionIds
  BY VersionsFinite
<1>2. Cardinality(new) = n + 1
  BY <1>1, FS_AddElement
<1>3. \A v \in new : v <= m
  <2>1. m \in Nat /\ \A v \in old : v \in Nat /\ v < m
    BY <1>1 DEF VersionIds
  <2> QED
    BY <2>1
<1>4. m \in new
  OBVIOUS
<1>5. g[Len(g)] = U[m].attributes /\ Len(g) = n + 1 /\ DOMAIN g = 1 .. n + 1
  <2>1. g[Len(g)] = U[m].attributes
    BY <1>3, <1>4, LastOfHistory
  <2>2. Len(g) = Cardinality(new) /\ DOMAIN g = 1 .. Cardinality(new)
    BY HistoryShape
  <2> QED
    BY <1>2, <2>1, <2>2
<1>6. ASSUME NEW i \in 1 .. n PROVE AtPlace(new, i) = AtPlace(old, i)
  <2>1. ASSUME NEW v \in old PROVE {w \in new : w <= v} = {w \in old : w <= v}
    <3>1. m \in Nat /\ v \in Nat /\ v < m
      BY <1>1 DEF VersionIds
    <3>2. ~ (m <= v)
      BY <3>1
    <3> QED
      BY <3>2
  <2>2. {w \in new : w <= m} = new
    BY <1>3
  <2>3. Cardinality({w \in new : w <= m}) # i
    BY <1>1, <1>2, <2>2
  <2> QED
    BY <2>1, <2>3 DEF AtPlace
<1>7. ASSUME NEW i \in 1 .. n PROVE g[i] = h[i]
  <2>1. i \in 1 .. Cardinality(new)
    BY <1>1, <1>2
  <2>2. /\ g[i] = Only({U[v].attributes : v \in AtPlace(old, i)})
        /\ h[i] = Only({T[v].attributes : v \in AtPlace(old, i)})
    <3>1. g[i] = Only({U[v].attributes : v \in AtPlace(new, i)})
      BY <2>1, HistoryShape
    <3>2. h[i] = Only({T[v].attributes : v \in AtPlace(old, i)})
      BY HistoryShape
    <3> QED
      BY <1>6, <3>1, <3>2
  <2>3. \A v \in AtPlace(old, i) : U[v].attributes = T[v].attributes
    BY DEF AtPlace
  <2>4. {U[v].attributes : v \in AtPlace(old, i)} = {T[v].attributes : v \in AtPlace(old, i)}
    BY <2>3
  <2> QED
    BY <2>2, <2>4
<1>8. \E S : h \in Seq(S) /\ U[m].attributes \in S /\ g \in Seq(S) /\ Len(h) = n
  <2> DEFINE S == {h[i] : i \in 1 .. n} \cup {g[i] : i \in 1 .. n + 1} \cup {U[m].attributes}
  <2>1. h \in [1 .. n -> S] /\ g \in [1 .. n + 1 -> S]
    <3>1. h = [i \in 1 .. n |-> h[i]] /\ g = [i \in 1 .. n + 1 |-> g[i]]
      BY <1>2, HistoryShape DEF HistoryIn
    <3>2. (\A i \in 1 .. n : h[i] \in S) /\ (\A i \in 1 .. n + 1 : g[i] \in S)
      OBVIOUS
    <3> HIDE DEF h, g, S
    <3> QED
      BY <3>1, <3>2
  <2>2. U[m].attributes \in S
    OBVIOUS
  <2>3. Len(h) = n
    BY HistoryShape
  <2> HIDE DEF h, g, S, n
  <2>4. h \in Seq(S) /\ g \in Seq(S)
    BY <1>1, <2>1
  <2> QED
    BY <2>2, <2>3, <2>4
<1> HIDE DEF h, g, n, old, new
<1>9. PICK S : h \in Seq(S) /\ U[m].attributes \in S /\ g \in Seq(S) /\ Len(h) = n
  BY <1>8
<1>10. g = Append(h, U[m].attributes)
  BY <1>1, <1>5, <1>7, <1>9
<1> QED
  BY <1>10 DEF h, g

-----------------------------------------------------------------------------
(***************************************************************************)
(* What the rows of the batch make of the committed tables.                *)
(***************************************************************************)
StaffIn(E, T) == [hired |-> HireFactsIn(E), past |-> HistoriesIn(T)]

LEMMA StaffOfTables ==
    ASSUME NEW known, NEW E \in [EmployeeIds -> Employee \cup {NoRow}], NEW T,
           NEW rows \in Seq(HireRow)
    PROVE  LET after == History!StaffAfter(known, StaffIn(E, T), rows)
           IN  /\ after[0] = StaffIn(E, T)
               /\ \A n \in 1 .. Len(rows) :
                    after[n] = History!Employed(known, after[n - 1], rows[n])
<1> DEFINE Of(e) == {HistoryIn(T, e)[i] : i \in 1 .. Cardinality(VersionsOf(T, e))}
           V == Attributes \cup UNION {Of(e) : e \in EmployeeIds}
<1>1. HireFactsIn(E) \in [EmployeeIds -> HireFacts \cup {NoRow}]
  <2>1. ASSUME NEW e \in EmployeeIds, E[e] # NoRow
        PROVE  [datetime |-> E[e].hire_datetime, attributes |-> E[e].hired_as] \in HireFacts
    <3>1. E[e] \in Employee
      BY <2>1
    <3> QED
      BY <3>1 DEF Employee, HireFacts
  <2> QED
    BY <2>1 DEF HireFactsIn
<1>2. HistoriesIn(T) \in [EmployeeIds -> Seq(V)]
  <2>1. ASSUME NEW e \in EmployeeIds PROVE HistoryIn(T, e) \in Seq(V)
    <3>1. HistoryIn(T, e) \in Seq(Of(e))
      BY HistoryShape
    <3>2. Of(e) \subseteq V
      OBVIOUS
    <3> HIDE DEF Of, V
    <3> QED
      BY <3>1, <3>2
  <2> HIDE DEF V
  <2> QED
    BY <2>1 DEF HistoriesIn
<1>3. StaffIn(E, T) \in Staffs(V) /\ Attributes \subseteq V
  <2>1. Attributes \subseteq V
    OBVIOUS
  <2> HIDE DEF V
  <2> QED
    BY <1>1, <1>2, <2>1 DEF StaffIn, Staffs
<1> HIDE DEF V
<1> QED
  BY <1>3, StaffFollows

LEMMA OverNothing ==
    /\ \A T \in [EmployeeIds -> Employee \cup {NoRow}] : Over(T, NoEmployees) = T
    /\ \A T \in [VersionIds -> Version \cup {NoRow}] : Over(T, NoVersions) = T
    /\ \A t \in DimensionTables, T \in Catalog : Over(T, NoDimensions[t]) = T
BY DEF Over, NoEmployees, NoVersions, NoDimensions, Catalog

\* A row that has passed validate_hire is valid, and one that has not is not.
LEMMA PersistedValid ==
    ASSUME TypeInv, Backings, NEW s \in Sessions, pc[s] \in Persisting
    PROVE  /\ History!ValidHire(dimensions, Row(s))
           /\ MoreRows(s) /\ req[s].target_table = Hires
           /\ Row(s).id \in EmployeeIds
           /\ History!AttributesOf(Row(s)) = RowAttributes(Row(s))
<1>1. /\ MoreRows(s) /\ req[s].target_table = Hires
      /\ Row(s).id \in EmployeeIds /\ Row(s).datetime \in Nat
      /\ RowAttributes(Row(s)) \in Attributes
      /\ BackedBy(dimensions, RowAttributes(Row(s)))
  BY DEF Persisting, TypeInv, RowInv, Backings, WorkBacked
<1>2. /\ Row(s).name \in Names /\ Row(s).department_id \in DimensionIds
      /\ Row(s).job_id \in DimensionIds
      /\ dimensions["departments"][Row(s).department_id] # NoRow
      /\ dimensions["jobs"][Row(s).job_id] # NoRow
  BY <1>1 DEF RowAttributes, Attributes, BackedBy
<1>3. History!AttributesOf(Row(s)) = RowAttributes(Row(s))
  BY DEF History!AttributesOf, RowAttributes
<1> QED
  BY <1>1, <1>2, <1>3 DEF History!ValidHire

\* What the row at work adds.
LEMMA RowEmployed ==
    ASSUME TypeInv, NEW s \in Sessions, req[s].rows \in HireBatches, MoreRows(s)
    PROVE  LET k == req[s].row_index
           IN  /\ k \in Nat \ {0} /\ k <= Len(req[s].rows)
               /\ Employing(s)[k] = History!Employed(dimensions, Employing(s)[k - 1], Row(s))
<1>1. req[s].rows \in Seq(HireRow) /\ employees \in [EmployeeIds -> Employee \cup {NoRow}]
  BY BatchesAssumption DEF TypeInv, TypeOK
<1>2. req[s].row_index \in 1 .. Len(req[s].rows)
  BY <1>1 DEF TypeInv, TypeOK, Request, MoreRows
<1>3. Employing(s) = History!StaffAfter(dimensions, StaffIn(employees, versions), req[s].rows)
  BY DEF Employing, StaffBefore, StaffIn
<1> QED
  BY <1>1, <1>2, <1>3, StaffOfTables DEF Row

LEMMA ValidEmployed ==
    ASSUME TypeInv, Backings, NEW s \in Sessions, pc[s] \in Persisting,
           req[s].rows \in HireBatches
    PROVE  LET k == req[s].row_index
               done == Employing(s)[k - 1]
           IN  /\ k \in Nat \ {0} /\ k <= Len(req[s].rows)
               /\ Employing(s)[k].hired = History!Hire(done.hired, Row(s))
               /\ Employing(s)[k].past = History!Record(done.past, Row(s))
<1> DEFINE k == req[s].row_index
           done == Employing(s)[k - 1]
<1>1. History!ValidHire(dimensions, Row(s)) /\ MoreRows(s)
  BY PersistedValid
<1>2. /\ k \in Nat \ {0} /\ k <= Len(req[s].rows)
      /\ Employing(s)[k] = History!Employed(dimensions, done, Row(s))
  BY <1>1, RowEmployed
<1>3. Employing(s)[k] = [hired |-> History!Hire(done.hired, Row(s)),
                         past |-> History!Record(done.past, Row(s))]
  BY <1>1, <1>2 DEF History!Employed
<1> HIDE DEF done
<1> QED
  BY <1>2, <1>3 DEF done

-----------------------------------------------------------------------------
(***************************************************************************)
(* Progress, from one statement to the next.                               *)
(***************************************************************************)
LEMMA Resting1 ==
    ASSUME TypeInv, NEW s \in Sessions, DropWrites(s), pc'[s] \in Resting
    PROVE  Progress(s)'
BY DEF DropWrites, TypeInv, TypeOK, Progress, NothingWritten

LEMMA FailProgress ==
    ASSUME TypeInv, NEW s \in Sessions, Fail(s)
    PROVE  Progress(s)'
<1>1. DropWrites(s) /\ Goto(s, "idle")
  BY DEF Fail, Rollback
<1>2. pc'[s] \in Resting
  BY <1>1, GotoOthers DEF Resting
<1> QED
  BY <1>1, <1>2, Resting1

LEMMA ReceiveProgress ==
    ASSUME TypeInv, TypeInv', NEW s \in Sessions, Progress(s), Receive(s)
    PROVE  Progress(s)'
<1>1. /\ pc[s] = "idle" /\ pc'[s] = "row"
      /\ UNCHANGED << dimensions, employees, versions, wDimensions, wEmployees, wVersions >>
  BY GotoOthers DEF Receive, tables, writes
<1>2. PICK t, rows :
        /\ t \in Targets /\ rows \in Batches(t)
        /\ req'[s].target_table = t /\ req'[s].rows = rows /\ req'[s].row_index = 1
  BY DEF Receive, NoRequest, TypeInv, TypeOK
<1>3. wDimensions'[s] = NoDimensions /\ wEmployees'[s] = NoEmployees /\ wVersions'[s] = NoVersions
  BY <1>1 DEF Progress, NothingWritten, Resting
<1>4. /\ EmployeesSeen(s)' = employees /\ VersionsSeen(s)' = versions
      /\ \A u \in DimensionTables : DimensionsSeen(s, u)' = dimensions[u]
  <2>1. EmployeesSeen(s)' = Over(employees, NoEmployees)
    BY <1>1, <1>3 DEF EmployeesSeen
  <2>2. VersionsSeen(s)' = Over(versions, NoVersions)
    BY <1>1, <1>3 DEF VersionsSeen
  <2>3. \A u \in DimensionTables : DimensionsSeen(s, u)' = Over(dimensions[u], NoDimensions[u])
    BY <1>1, <1>3 DEF DimensionsSeen
  <2>4. /\ employees \in [EmployeeIds -> Employee \cup {NoRow}]
        /\ versions \in [VersionIds -> Version \cup {NoRow}]
        /\ \A u \in DimensionTables : dimensions[u] \in Catalog
    BY DEF Catalog, TypeInv, TypeOK
  <2> QED
    BY <2>1, <2>2, <2>3, <2>4, OverNothing
<1>5. rows \in Seq(HireRow) \cup Seq(DimensionRow) /\ Len(rows) \in Nat
  BY <1>2, BatchesAssumption DEF Batches, Targets, DimensionTables, Hires
<1>6. CASE t = Hires
  <2>1. Employing(s)' = History!StaffAfter(dimensions, StaffIn(employees, versions), rows)
    BY <1>1, <1>2 DEF Employing, StaffBefore, StaffIn
  <2>2. rows \in Seq(HireRow) /\ employees \in [EmployeeIds -> Employee \cup {NoRow}]
    BY <1>2, <1>6, BatchesAssumption DEF Batches, DimensionTables, Hires, TypeInv, TypeOK
  <2>3. Employing(s)'[0] = StaffIn(employees, versions)
    BY <2>1, <2>2, StaffOfTables
  <2>4. StaffProgress(s)'
    BY <1>1, <1>2, <1>4, <2>3 DEF StaffProgress, StaffIn
  <2> QED
    BY <1>1, <1>2, <1>5, <1>6, <2>4 DEF Progress, Resting
<1>7. CASE t # Hires
  <2>1. t \in DimensionTables /\ rows \in Seq(DimensionRow) /\ dimensions[t] \in Catalog
    BY <1>2, <1>7, BatchesAssumption DEF Batches, Targets, DimensionTables, Catalog, TypeInv, TypeOK
  <2>2. Catalogued(s)' = History!NamesAfter(dimensions[t], rows)
    BY <1>1, <1>2 DEF Catalogued
  <2>3. Catalogued(s)'[0] = dimensions[t]
    BY <2>1, <2>2, NamesFollow
  <2>4. CatalogProgress(s)'
    BY <1>1, <1>2, <1>3, <1>4, <2>1, <2>3 DEF CatalogProgress
  <2> QED
    BY <1>1, <1>2, <1>5, <1>7, <2>4 DEF Progress, Resting
<1> QED
  BY <1>6, <1>7

-----------------------------------------------------------------------------
(***************************************************************************)
(* Rows of departments and jobs.                                           *)
(***************************************************************************)
LEMMA AcceptEffect ==
    ASSUME TypeInv, NEW s \in Sessions, Accept(s)
    PROVE  /\ pc'[s] = "row"
           /\ req'[s].rows = req[s].rows /\ req'[s].target_table = req[s].target_table
           /\ req'[s].row_index = req[s].row_index + 1
BY DEF Accept, Goto, TypeInv, TypeOK, Request

LEMMA RejectEffect ==
    ASSUME TypeInv, NEW s \in Sessions, NEW errors, Reject(s, errors)
    PROVE  /\ pc'[s] = "row"
           /\ req'[s].rows = req[s].rows /\ req'[s].target_table = req[s].target_table
           /\ req'[s].row_index = req[s].row_index + 1
BY DEF Reject, Goto, TypeInv, TypeOK, Request

\* The number of a row at work, and of the next one.
LEMMA RowNumber ==
    ASSUME TypeInv, NEW s \in Sessions, MoreRows(s)
    PROVE  LET k == req[s].row_index
           IN  /\ k \in 1 .. Len(req[s].rows)
               /\ k + 1 <= Len(req[s].rows) + 1 /\ (k + 1) - 1 = k
<1>1. req[s].rows \in Seq(DimensionRow) \cup Seq(HireRow) /\ req[s].row_index \in Nat \ {0}
  BY DEF TypeInv, TypeOK, Request
<1>2. Len(req[s].rows) \in Nat
  BY <1>1
<1> QED
  BY <1>1, <1>2 DEF MoreRows

LEMMA RowNamed ==
    ASSUME TypeInv, NEW s \in Sessions, MoreRows(s), Progress(s), pc[s] \notin Resting,
           req[s].target_table \in DimensionTables
    PROVE  LET k == req[s].row_index
           IN  Catalogued(s)[k] = History!Named(Catalogued(s)[k - 1], Row(s))
<1> DEFINE t == req[s].target_table
<1>1. req[s].rows \in Seq(DimensionRow) /\ dimensions[t] \in Catalog
  BY BatchesAssumption DEF Progress, Batches, DimensionTables, Hires, Catalog, TypeInv, TypeOK
<1>2. req[s].row_index \in 1 .. Len(req[s].rows)
  BY RowNumber
<1>3. Catalogued(s) = History!NamesAfter(dimensions[t], req[s].rows)
  BY DEF Catalogued
<1> HIDE DEF t
<1> QED
  BY <1>1, <1>2, <1>3, NamesFollow DEF Row

LEMMA CatalogNext ==
    ASSUME NEW s \in Sessions, Progress(s), pc[s] \notin Resting, pc'[s] \notin Resting,
           req[s].target_table \in DimensionTables,
           UNCHANGED << dimensions, wEmployees, wVersions >>,
           req'[s].rows = req[s].rows, req'[s].target_table = req[s].target_table,
           req'[s].row_index <= Len(req[s].rows) + 1,
           \A u \in DimensionTables \ {req[s].target_table} :
             DimensionsSeen(s, u)' = DimensionsSeen(s, u),
           DimensionsSeen(s, req[s].target_table)' = Catalogued(s)[req'[s].row_index - 1],
           pc'[s] = "upsert" =>
             local'[s].found = DimensionsSeen(s, req[s].target_table)'[Row(s)'.id]
    PROVE  Progress(s)'
<1>1. /\ req[s].target_table # Hires /\ CatalogProgress(s)
      /\ req[s].rows \in Batches(req[s].target_table)
  BY DEF Progress, DimensionTables, Hires
<1>2. Catalogued(s)' = Catalogued(s)
  BY DEF Catalogued
<1>3. \A u \in DimensionTables : DimensionsSeen(s, u)' = Over(dimensions'[u], wDimensions'[s][u])
  BY DEF DimensionsSeen
<1>4. CatalogProgress(s)'
  BY <1>1, <1>2 DEF CatalogProgress
<1> QED
  BY <1>1, <1>4 DEF Progress

\* A row is valid exactly when it has no error.
LEMMA GoodDimension ==
    ASSUME NEW row, NEW key, History!ValidName(row)
    PROVE  DimensionErrors(row, key) = << >>
<1>1. row.id # Absent /\ row.name # Absent
  BY SentinelAssumption DEF History!ValidName
<1> QED
  BY <1>1 DEF DimensionErrors, CheckId, CheckName, ErrorUnless

LEMMA RejectDimensionProgress ==
    ASSUME TypeInv, NEW s \in Sessions, Progress(s), RejectDimension(s)
    PROVE  Progress(s)'
<1> DEFINE t == req[s].target_table
<1>1. /\ pc[s] = "row" /\ MoreRows(s) /\ t \in DimensionTables /\ t # Hires
      /\ UNCHANGED << dimensions, wDimensions, wEmployees, wVersions >>
  BY DEF RejectDimension, AtDimensionRow, tables, writes, DimensionTables, Hires
<1>2. PICK errors : errors = DimensionErrors(Row(s), NameKey(t)) /\ errors # << >> /\ Reject(s, errors)
  BY DEF RejectDimension
<1>3. ~ History!ValidName(Row(s))
  BY <1>2, GoodDimension
<1>4. Catalogued(s)[req[s].row_index] = Catalogued(s)[req[s].row_index - 1]
  BY <1>1, <1>3, RowNamed DEF History!Named, Resting
<1>5. \A u \in DimensionTables : DimensionsSeen(s, u)' = DimensionsSeen(s, u)
  BY <1>1 DEF DimensionsSeen
<1>6. /\ pc'[s] = "row" /\ req'[s].rows = req[s].rows /\ req'[s].target_table = t
      /\ req'[s].row_index <= Len(req[s].rows) + 1
      /\ req'[s].row_index - 1 = req[s].row_index
  BY <1>1, <1>2, RejectEffect, RowNumber
<1>7. DimensionsSeen(s, t) = Catalogued(s)[req[s].row_index - 1]
  BY <1>1 DEF Progress, CatalogProgress, Resting
<1> QED
  BY <1>1, <1>4, <1>5, <1>6, <1>7, CatalogNext DEF Resting

LEMMA SelectDimensionProgress ==
    ASSUME TypeInv, NEW s \in Sessions, Progress(s), SelectDimension(s)
    PROVE  Progress(s)'
<1> DEFINE t == req[s].target_table
<1>1. /\ pc[s] = "row" /\ pc'[s] = "upsert" /\ MoreRows(s) /\ t \in DimensionTables /\ t # Hires
      /\ UNCHANGED << dimensions, wDimensions, wEmployees, wVersions, req >>
      /\ local'[s].found = DimensionsSeen(s, t)[Row(s).id]
  BY GotoOthers DEF SelectDimension, AtDimensionRow, tables, writes, DimensionTables, Hires,
                    TypeInv, TypeOK, Reads
<1>2. \A u \in DimensionTables : DimensionsSeen(s, u)' = DimensionsSeen(s, u)
  BY <1>1 DEF DimensionsSeen
<1>3. /\ DimensionsSeen(s, t) = Catalogued(s)[req[s].row_index - 1]
      /\ req[s].row_index <= Len(req[s].rows) + 1
  BY <1>1 DEF Progress, CatalogProgress, Resting
<1>4. Row(s)' = Row(s)
  BY <1>1 DEF Row
<1> QED
  BY <1>1, <1>2, <1>3, <1>4, CatalogNext DEF Resting

\* An upsert writes the name of the row, or finds it there.
LEMMA UpsertProgress ==
    ASSUME TypeInv, TypeInv', NEW s \in Sessions, Progress(s), pc[s] = "upsert",
           NEW t, t = req[s].target_table, NEW d, d = Row(s).id, NEW name, name = Row(s).name,
           Accept(s), UNCHANGED << dimensions, wEmployees, wVersions >>,
           \/ WriteDimension(s, t, d, name)
           \/ UNCHANGED wDimensions /\ local[s].found = name
    PROVE  Progress(s)'
<1>1. MoreRows(s) /\ t \in DimensionTables /\ t # Hires /\ d \in DimensionIds /\ name \in Names
  BY DEF TypeInv, RowInv, DimensionTables, Hires
<1>2. /\ DimensionsSeen(s, t) = Catalogued(s)[req[s].row_index - 1]
      /\ local[s].found = DimensionsSeen(s, t)[d]
  BY <1>1 DEF Progress, CatalogProgress, Resting
<1>3. DimensionsSeen(s, t) \in [DimensionIds -> Names \cup {NoRow}]
  BY <1>1, SeenType
<1>4. Catalogued(s)[req[s].row_index] = [DimensionsSeen(s, t) EXCEPT ![d] = name]
  BY <1>1, <1>2, RowNamed DEF History!Named, History!ValidName, Resting
<1>5. /\ \A u \in DimensionTables \ {t} : DimensionsSeen(s, u)' = DimensionsSeen(s, u)
      /\ DimensionsSeen(s, t)' = [DimensionsSeen(s, t) EXCEPT ![d] = name]
  <2>1. CASE WriteDimension(s, t, d, name)
    <3>1. /\ \A u \in DimensionTables \ {t} : wDimensions'[s][u] = wDimensions[s][u]
          /\ wDimensions'[s][t] = [wDimensions[s][t] EXCEPT ![d] = name]
      <4>1. s \in DOMAIN wDimensions /\ DOMAIN wDimensions[s] = DimensionTables
        BY DEF TypeInv, TypeOK
      <4>2. wDimensions' = [wDimensions EXCEPT ![s][t][d] = name]
        BY <2>1 DEF WriteDimension
      <4> QED
        BY <1>1, <4>1, <4>2
    <3>2. DOMAIN dimensions[t] = DimensionIds /\ DOMAIN wDimensions[s][t] = DimensionIds
      BY <1>1 DEF TypeInv, TypeOK
    <3>3. \A u \in DimensionTables \ {t} : DimensionsSeen(s, u)' = DimensionsSeen(s, u)
      BY <3>1 DEF DimensionsSeen
    <3>4. DimensionsSeen(s, t)' = Over(dimensions[t], [wDimensions[s][t] EXCEPT ![d] = name])
      BY <3>1 DEF DimensionsSeen
    <3>5. name # NoRow
      BY <1>1, NoRowDistinct
    <3>6. Over(dimensions[t], [wDimensions[s][t] EXCEPT ![d] = name])
            = [Over(dimensions[t], wDimensions[s][t]) EXCEPT ![d] = name]
      BY <1>1, <3>2, <3>5 DEF Over
    <3> QED
      BY <3>3, <3>4, <3>6 DEF DimensionsSeen
  <2>2. CASE UNCHANGED wDimensions /\ local[s].found = name
    <3>1. \A u \in DimensionTables : DimensionsSeen(s, u)' = DimensionsSeen(s, u)
      BY <2>2 DEF DimensionsSeen
    <3>2. [DimensionsSeen(s, t) EXCEPT ![d] = name] = DimensionsSeen(s, t)
      BY <1>2, <1>3, <2>2
    <3> QED
      BY <1>1, <3>1, <3>2
  <2> QED
    BY <2>1, <2>2
<1>6. /\ pc'[s] = "row" /\ req'[s].rows = req[s].rows /\ req'[s].target_table = t
      /\ req'[s].row_index <= Len(req[s].rows) + 1
      /\ req'[s].row_index - 1 = req[s].row_index
  BY <1>1, AcceptEffect, RowNumber
<1> QED
  BY <1>1, <1>4, <1>5, <1>6, CatalogNext DEF Resting

LEMMA UpsertsProgress ==
    ASSUME TypeInv, TypeInv', NEW s \in Sessions, Progress(s),
           InsertDimension(s) \/ UpdateDimension(s)
    PROVE  Progress(s)'
<1> DEFINE t == req[s].target_table
           d == Row(s).id
           name == Row(s).name
<1>1. CASE Fail(s)
  BY <1>1, FailProgress
<1>2. CASE ~ Fail(s)
  <2>1. /\ pc[s] = "upsert" /\ Accept(s) /\ UNCHANGED << dimensions, wEmployees, wVersions >>
        /\ WriteDimension(s, t, d, name) \/ (UNCHANGED wDimensions /\ local[s].found = name)
    BY <1>2 DEF InsertDimension, UpdateDimension, tables
  <2> HIDE DEF t, d, name
  <2> QED
    BY <2>1, UpsertProgress DEF t, d, name
<1> QED
  BY <1>1, <1>2

-----------------------------------------------------------------------------
(***************************************************************************)
(* Rows of hires: their checks.                                            *)
(***************************************************************************)
LEMMA HireNext ==
    ASSUME NEW s \in Sessions, Progress(s), pc[s] \notin Resting, pc'[s] \notin Resting,
           req[s].target_table = Hires, UNCHANGED << dimensions, employees, versions >>,
           req'[s].rows = req[s].rows, req'[s].target_table = Hires,
           req'[s].row_index <= Len(req[s].rows) + 1,
           NEW k, k = req'[s].row_index,
           NEW E, E = EmployeesSeen(s)', NEW T, T = VersionsSeen(s)',
           HireFactsIn(E) = Employing(s)[IF pc'[s] = "add_first_version" THEN k ELSE k - 1].hired,
           HistoriesIn(T) = Employing(s)[IF pc'[s] = "update_current" THEN k ELSE k - 1].past,
           pc'[s] = "check_job" =>
             local'[s].department_known = Known(s, "departments", Row(s).department_id)',
           NEW past, past = HistoriesIn(T)[Row(s)'.id],
           pc'[s] \in {"close_select", "close_update", "add_version"} =>
             past # << >> /\ past[Len(past)] # RowAttributes(Row(s)')
    PROVE  Progress(s)'
<1>1. req[s].rows \in Batches(Hires)
  BY DEF Progress
<1>2. Employing(s)' = Employing(s)
  BY DEF Employing, StaffBefore
<1>3. StaffProgress(s)'
  BY <1>2 DEF StaffProgress
<1> QED
  BY <1>1, <1>3 DEF Progress

\* What progress says of a handler of hires.
LEMMA HireProgress ==
    ASSUME NEW s \in Sessions, Progress(s), pc[s] \notin Resting, req[s].target_table = Hires
    PROVE  /\ StaffProgress(s) /\ req[s].rows \in HireBatches
           /\ req[s].row_index <= Len(req[s].rows) + 1
BY DEF Progress, Batches, DimensionTables, Hires

\* Statements that only move on within the row.
LEMMA CalmProgress ==
    ASSUME NEW s \in Sessions, Progress(s), pc[s] \notin Resting, pc'[s] \notin Resting,
           req[s].target_table = Hires,
           UNCHANGED << dimensions, employees, versions, wEmployees, wVersions, req >>,
           {pc[s], pc'[s]} \cap {"add_first_version", "update_current"} = {},
           pc'[s] = "check_job" =>
             local'[s].department_known = Known(s, "departments", Row(s).department_id)',
           pc'[s] \in {"close_select", "close_update", "add_version"} =>
             LET past == HistoriesIn(VersionsSeen(s))[Row(s).id]
             IN  past # << >> /\ past[Len(past)] # RowAttributes(Row(s))
    PROVE  Progress(s)'
<1>1. /\ EmployeesSeen(s)' = EmployeesSeen(s) /\ VersionsSeen(s)' = VersionsSeen(s)
      /\ Row(s)' = Row(s) /\ req'[s] = req[s]
  BY DEF EmployeesSeen, VersionsSeen, Row
<1>2. StaffProgress(s) /\ req[s].row_index <= Len(req[s].rows) + 1
  BY HireProgress
<1>3. Employing(s)' = Employing(s)
  <2>1. dimensions' = dimensions /\ employees' = employees /\ versions' = versions
    OBVIOUS
  <2> QED
    BY <1>1, <2>1 DEF Employing, StaffBefore
<1>4. StaffProgress(s)'
  <2>1. /\ HireFactsIn(EmployeesSeen(s)) = Employing(s)[req[s].row_index - 1].hired
        /\ HistoriesIn(VersionsSeen(s)) = Employing(s)[req[s].row_index - 1].past
    BY <1>2 DEF StaffProgress
  <2> QED
    BY <1>1, <1>3, <2>1 DEF StaffProgress
<1> QED
  BY <1>1, <1>2, <1>4 DEF Progress

LEMMA GoodHire ==
    ASSUME NEW known, NEW row, History!ValidHire(known, row)
    PROVE  HireErrors(row, TRUE, TRUE) = << >>
<1>1. /\ row.id # Absent /\ row.name # Absent /\ row.datetime # Absent /\ row.datetime # Malformed
      /\ row.department_id # Absent /\ row.job_id # Absent
  BY SentinelAssumption DEF History!ValidHire
<1>2. /\ CheckId(row) = << >> /\ CheckName(row, "name") = << >> /\ CheckDatetime(row) = << >>
      /\ \A key, code : /\ CheckFkId(row.department_id, key, code) = << >>
                        /\ CheckFkId(row.job_id, key, code) = << >>
                        /\ CheckReference(row.department_id, TRUE, key, code) = << >>
                        /\ CheckReference(row.job_id, TRUE, key, code) = << >>
  BY <1>1 DEF CheckId, CheckName, CheckDatetime, CheckFkId, CheckReference, ErrorUnless
<1>3. << >> \o << >> = << >>
  OBVIOUS
<1> QED
  BY <1>2, <1>3 DEF HireErrors

LEMMA CommittedCatalog ==
    ASSUME TypeInv, Backings, NEW s \in Sessions, req[s].target_table = Hires
    PROVE  \A t \in DimensionTables : DimensionsSeen(s, t) = dimensions[t]
<1>1. wDimensions[s] = NoDimensions
  BY DEF Backings, WorkBacked
<1>2. \A t \in DimensionTables : dimensions[t] \in Catalog
  BY DEF TypeInv, TypeOK, Catalog
<1> QED
  BY <1>1, <1>2, OverNothing DEF DimensionsSeen

LEMMA CheckDepartmentProgress ==
    ASSUME TypeInv, NEW s \in Sessions, Progress(s), CheckDepartment(s)
    PROVE  Progress(s)'
<1>1. /\ pc[s] = "row" /\ pc'[s] = "check_job" /\ req[s].target_table = Hires
      /\ UNCHANGED << dimensions, employees, versions, wDimensions, wEmployees, wVersions, req >>
      /\ local'[s].department_known = Known(s, "departments", Row(s).department_id)
  BY GotoOthers DEF CheckDepartment, tables, writes, TypeInv, TypeOK, Reads
<1>2. Known(s, "departments", Row(s).department_id)' = Known(s, "departments", Row(s).department_id)
  BY <1>1 DEF Known, DimensionsSeen, Row
<1> QED
  BY <1>1, <1>2, CalmProgress DEF Resting

LEMMA CheckJobProgress ==
    ASSUME TypeInv, Backings, NEW s \in Sessions, Progress(s), CheckJob(s)
    PROVE  Progress(s)'
<1>1. /\ pc[s] = "check_job" /\ req[s].target_table = Hires /\ MoreRows(s)
      /\ UNCHANGED << dimensions, employees, versions, wDimensions, wEmployees, wVersions >>
  BY DEF CheckJob, tables, writes, TypeInv, RowInv
<1>2. StaffProgress(s) /\ req[s].rows \in HireBatches
  BY <1>1, HireProgress DEF Resting
<1>3. CASE Goto(s, "exists") /\ UNCHANGED << req, local >>
  <2>1. pc'[s] = "exists"
    BY <1>3, GotoOthers
  <2> QED
    BY <1>1, <1>3, <2>1, CalmProgress DEF Resting
<1>4. ASSUME NEW errors,
             errors = HireErrors(Row(s), local[s].department_known,
                                 Known(s, "jobs", Row(s).job_id)),
             errors # << >>, Reject(s, errors)
      PROVE  Progress(s)'
  <2>1. ~ History!ValidHire(dimensions, Row(s))
    <3>1. SUFFICES ASSUME History!ValidHire(dimensions, Row(s)) PROVE FALSE
      OBVIOUS
    <3>2. /\ Row(s).department_id # Absent /\ Row(s).job_id # Absent
          /\ dimensions["departments"][Row(s).department_id] # NoRow
          /\ dimensions["jobs"][Row(s).job_id] # NoRow
      BY <3>1, SentinelAssumption DEF History!ValidHire
    <3>3. /\ Known(s, "departments", Row(s).department_id) = TRUE
          /\ Known(s, "jobs", Row(s).job_id) = TRUE
      BY <1>1, <3>2, CommittedCatalog DEF Known, DimensionTables
    <3>4. local[s].department_known = TRUE
      BY <1>1, <1>2, <3>3 DEF StaffProgress
    <3> QED
      BY <1>4, <3>1, <3>3, <3>4, GoodHire
  <2>2. Employing(s)[req[s].row_index] = Employing(s)[req[s].row_index - 1]
    BY <1>1, <1>2, <2>1, RowEmployed DEF History!Employed
  <2>3. /\ pc'[s] = "row" /\ req'[s].rows = req[s].rows /\ req'[s].target_table = Hires
        /\ req'[s].row_index <= Len(req[s].rows) + 1
        /\ req'[s].row_index - 1 = req[s].row_index
    BY <1>1, <1>4, RejectEffect, RowNumber
  <2>4. EmployeesSeen(s)' = EmployeesSeen(s) /\ VersionsSeen(s)' = VersionsSeen(s)
    BY <1>1 DEF EmployeesSeen, VersionsSeen
  <2>5. /\ HireFactsIn(EmployeesSeen(s)) = Employing(s)[req[s].row_index - 1].hired
        /\ HistoriesIn(VersionsSeen(s)) = Employing(s)[req[s].row_index - 1].past
    BY <1>1, <1>2 DEF StaffProgress
  <2> QED
    BY <1>1, <2>2, <2>3, <2>4, <2>5, HireNext DEF Resting
<1> QED
  BY <1>3, <1>4 DEF CheckJob

-----------------------------------------------------------------------------
(***************************************************************************)
(* Rows of hires: _persist_hire.                                           *)
(***************************************************************************)

\* A row that is persisted goes on to what the batch makes of it.
LEMMA PersistProgress ==
    ASSUME TypeInv, Backings, NEW s \in Sessions, Progress(s), pc[s] \in Persisting
    PROVE  LET k == req[s].row_index
               done == Employing(s)[k - 1]
           IN  /\ pc[s] \notin Resting /\ req[s].target_table = Hires
               /\ StaffProgress(s) /\ req[s].rows \in HireBatches
               /\ k <= Len(req[s].rows) + 1 /\ k + 1 <= Len(req[s].rows) + 1 /\ (k + 1) - 1 = k
               /\ Employing(s)[k].hired = History!Hire(done.hired, Row(s))
               /\ Employing(s)[k].past = History!Record(done.past, Row(s))
<1>1. pc[s] \notin Resting
  BY DEF Persisting, Midway, Resting
<1>2. req[s].target_table = Hires /\ MoreRows(s)
  BY PersistedValid
<1>3. StaffProgress(s) /\ req[s].rows \in HireBatches /\ req[s].row_index <= Len(req[s].rows) + 1
  BY <1>1, <1>2, HireProgress
<1>4. /\ req[s].row_index + 1 <= Len(req[s].rows) + 1
      /\ (req[s].row_index + 1) - 1 = req[s].row_index
  BY <1>2, RowNumber
<1> QED
  BY <1>1, <1>2, <1>3, <1>4, ValidEmployed

LEMMA ExistsProgress ==
    ASSUME TypeInv, Backings, NEW s \in Sessions, Progress(s), Exists(s)
    PROVE  Progress(s)'
<1>1. /\ pc[s] = "exists" /\ pc'[s] \in {"add_employee", "get_current"}
      /\ UNCHANGED << dimensions, employees, versions, wEmployees, wVersions, req >>
  BY GotoOthers DEF Exists, tables, writes
<1>2. req[s].target_table = Hires
  BY <1>1, PersistedValid DEF Persisting
<1> QED
  BY <1>1, <1>2, CalmProgress DEF Resting

FactsOf(r) == [datetime |-> r.hire_datetime, attributes |-> r.hired_as]

LEMMA NoHireFacts ==
    ASSUME NEW E \in [EmployeeIds -> Employee \cup {NoRow}], NEW e \in EmployeeIds
    PROVE  HireFactsIn(E)[e] = NoRow <=> E[e] = NoRow
<1>1. ASSUME E[e] # NoRow
      PROVE  [datetime |-> E[e].hire_datetime, attributes |-> E[e].hired_as] # NoRow
  <2>1. E[e] \in Employee
    BY <1>1
  <2> QED
    BY <2>1, HireFactsAssumption DEF Employee, HireFacts
<1> QED
  BY <1>1 DEF HireFactsIn

\* What a session sees after it has written an employee.
LEMMA EmployeeSeenAfter ==
    ASSUME TypeInv, TypeInv', NEW s \in Sessions, NEW e \in EmployeeIds, NEW new \in Employee,
           UNCHANGED employees, wEmployees' = [wEmployees EXCEPT ![s][e] = new]
    PROVE  EmployeesSeen(s)' = [EmployeesSeen(s) EXCEPT ![e] = new]
<1>1. wEmployees'[s] = [wEmployees[s] EXCEPT ![e] = new] /\ new # NoRow
  BY NoRowDistinct DEF TypeInv, TypeOK
<1>2. DOMAIN employees = EmployeeIds /\ DOMAIN wEmployees[s] = EmployeeIds
  BY DEF TypeInv, TypeOK
<1>3. EmployeesSeen(s)' = Over(employees, [wEmployees[s] EXCEPT ![e] = new])
  BY <1>1 DEF EmployeesSeen
<1>4. Over(employees, [wEmployees[s] EXCEPT ![e] = new])
        = [Over(employees, wEmployees[s]) EXCEPT ![e] = new]
  BY <1>1, <1>2 DEF Over
<1> QED
  BY <1>3, <1>4 DEF EmployeesSeen

LEMMA AddEmployeeProgress ==
    ASSUME Consistent, TypeInv', Backings, NEW s \in Sessions, Progress(s), AddEmployee(s)
    PROVE  Progress(s)'
<1> DEFINE e == Row(s).id
           k == req[s].row_index
           new == NewEmployee(Row(s))
<1>0. TypeInv /\ pc[s] = "add_employee" /\ pc[s] \in Persisting
  BY DEF AddEmployee, Persisting, Consistent
<1>1. CASE Fail(s)
  BY <1>0, <1>1, FailProgress
<1>2. CASE ~ Fail(s)
  <2>1. /\ wEmployees' = [wEmployees EXCEPT ![s][e] = new]
        /\ Goto(s, "add_first_version")
        /\ UNCHANGED << dimensions, employees, versions, wVersions, req >>
        /\ employees[e] = NoRow
    BY <1>2 DEF AddEmployee, tables
  <2>2. e \in EmployeeIds /\ wEmployees[s][e] = NoRow
    BY <1>0, HireAtWork DEF Consistent, SessionInv
  <2>3. new \in Employee
    <3>1. RowAttributes(Row(s)) \in Attributes /\ Row(s).datetime \in Nat
      BY <1>0 DEF TypeInv, RowInv
    <3> QED
      BY <3>1 DEF Employee, NewEmployee
  <2>4. EmployeesSeen(s)' = [EmployeesSeen(s) EXCEPT ![e] = new]
    <3> HIDE DEF e, new
    <3> QED
      BY <1>0, <2>1, <2>2, <2>3, EmployeeSeenAfter
  <2>5. VersionsSeen(s)' = VersionsSeen(s) /\ Row(s)' = Row(s)
    BY <2>1 DEF VersionsSeen, Row
  <2>6. /\ pc[s] \notin Resting /\ req[s].target_table = Hires
        /\ StaffProgress(s) /\ k <= Len(req[s].rows) + 1
        /\ Employing(s)[k].hired = History!Hire(Employing(s)[k - 1].hired, Row(s))
    BY <1>0, PersistProgress
  <2>7. /\ HireFactsIn(EmployeesSeen(s)) = Employing(s)[k - 1].hired
        /\ HistoriesIn(VersionsSeen(s)) = Employing(s)[k - 1].past
    BY <1>0, <2>6 DEF StaffProgress
  <2>8. HireFactsIn(EmployeesSeen(s)') = Employing(s)[k].hired
    <3> DEFINE before == HireFactsIn(EmployeesSeen(s))
               after == HireFactsIn(EmployeesSeen(s)')
    <3>1. after[e] = FactsOf(new) /\ \A f \in EmployeeIds \ {e} : after[f] = before[f]
      <4> HIDE DEF e, new
      <4>1. EmployeesSeen(s) \in [EmployeeIds -> Employee \cup {NoRow}]
        BY <1>0, SeenType
      <4>2. \A U : U = [EmployeesSeen(s) EXCEPT ![e] = new] =>
              /\ HireFactsIn(U)[e] = FactsOf(new)
              /\ \A f \in EmployeeIds \ {e} :
                   HireFactsIn(U)[f] = HireFactsIn(EmployeesSeen(s))[f]
        BY <2>2, <2>3, <4>1, NoRowDistinct DEF HireFactsIn, FactsOf
      <4> QED
        BY <2>4, <4>2
    <3>2. FactsOf(new) = [datetime |-> Row(s).datetime,
                          attributes |-> History!AttributesOf(Row(s))]
      BY <1>0, PersistedValid DEF NewEmployee, FactsOf
    <3>3. HireFactsIn(EmployeesSeen(s))[e] = NoRow
      <4>1. EmployeesSeen(s)[e] = NoRow
        BY <1>0, <2>1, <2>2, SeenType
      <4> QED
        BY <2>2, <4>1 DEF HireFactsIn
    <3>4. /\ after = [f \in EmployeeIds |-> after[f]]
          /\ before = [f \in EmployeeIds |-> before[f]]
      BY DEF HireFactsIn
    <3> HIDE DEF before, after, new
    <3>5. after = [before EXCEPT ![e] = FactsOf(new)]
      BY <2>2, <3>1, <3>4
    <3>6. History!Hire(before, Row(s)) = [before EXCEPT ![e] = FactsOf(new)]
      BY <3>2, <3>3 DEF History!Hire, before
    <3> QED
      BY <2>6, <2>7, <3>5, <3>6 DEF before, after
  <2>9. pc'[s] = "add_first_version"
    BY <1>0, <2>1, GotoOthers
  <2> QED
    BY <1>0, <2>1, <2>5, <2>6, <2>7, <2>8, <2>9, HireNext DEF Resting
<1> QED
  BY <1>1, <1>2

\* The current version of an employee is the last one.
LEMMA CurrentIsLast ==
    ASSUME NEW T, NEW e, NEW v \in CurrentIn(T, e), Chained(T, e)
    PROVE  LET h == HistoryIn(T, e)
           IN  h # << >> /\ h[Len(h)] = T[v].attributes
<1>1. v \in VersionsOf(T, e) /\ T[v].is_current
  BY DEF CurrentIn, VersionsOf
<1>2. LaterVersions(T, e, v) = {}
  BY <1>1 DEF Chained, MeetsNext
<1>3. \A w \in VersionsOf(T, e) : w <= v
  <2>1. \A w \in VersionsOf(T, e) : w \in Nat /\ v \in Nat /\ ~ (w > v)
    BY <1>1, <1>2 DEF LaterVersions, VersionsOf, VersionIds
  <2> QED
    BY <2>1
<1> QED
  BY <1>1, <1>3, LastOfHistory

LEMMA GetCurrentProgress ==
    ASSUME Consistent, Backings, Chains, NEW s \in Sessions, Progress(s), GetCurrent(s)
    PROVE  Progress(s)'
<1> DEFINE e == Row(s).id
           k == req[s].row_index
           past == HistoriesIn(VersionsSeen(s))
<1>0. TypeInv /\ pc[s] = "get_current" /\ pc[s] \in Persisting
  BY DEF GetCurrent, Persisting, Consistent
<1>1. CASE Fail(s)
  BY <1>0, <1>1, FailProgress
<1>2. CASE ~ Fail(s)
  <2>1. PICK v \in CurrentIn(VersionsSeen(s), e) :
          /\ IF SameAttributes(VersionsSeen(s)[v], Row(s))
               THEN Accept(s)
               ELSE Goto(s, "close_select") /\ UNCHANGED req
          /\ UNCHANGED << dimensions, employees, versions, wEmployees, wVersions >>
    BY <1>2 DEF GetCurrent, tables, writes
  <2>2. /\ e \in EmployeeIds
        /\ EmployeesSeen(s)[e] # NoRow
        /\ Chained(VersionsSeen(s), e)
    BY <1>0, HireAtWork DEF Consistent, SessionInv, Chains, ChainInv
  <2>3. /\ past[e] # << >>
        /\ past[e][Len(past[e])] = VersionsSeen(s)[v].attributes
    <3>1. past[e] = HistoryIn(VersionsSeen(s), e)
      BY <2>2 DEF HistoriesIn
    <3> HIDE DEF e, past
    <3> QED
      BY <2>2, <3>1, CurrentIsLast
  <2>4. /\ pc[s] \notin Resting /\ req[s].target_table = Hires
        /\ StaffProgress(s) /\ k + 1 <= Len(req[s].rows) + 1 /\ (k + 1) - 1 = k
        /\ Employing(s)[k].hired = History!Hire(Employing(s)[k - 1].hired, Row(s))
        /\ Employing(s)[k].past = History!Record(Employing(s)[k - 1].past, Row(s))
    BY <1>0, PersistProgress
  <2>5. /\ HireFactsIn(EmployeesSeen(s)) = Employing(s)[k - 1].hired
        /\ past = Employing(s)[k - 1].past
    BY <1>0, <2>4 DEF StaffProgress
  <2>6. EmployeesSeen(s)' = EmployeesSeen(s) /\ VersionsSeen(s)' = VersionsSeen(s)
    BY <2>1 DEF EmployeesSeen, VersionsSeen
  <2>7. CASE SameAttributes(VersionsSeen(s)[v], Row(s))
    <3>1. Employing(s)[k].past = past
      <4>1. VersionsSeen(s)[v].attributes = History!AttributesOf(Row(s))
        BY <1>0, <2>7, PersistedValid DEF SameAttributes
      <4> HIDE DEF past
      <4> QED
        BY <2>3, <2>4, <2>5, <4>1 DEF History!Record
    <3>2. Employing(s)[k].hired = HireFactsIn(EmployeesSeen(s))
      <4>1. HireFactsIn(EmployeesSeen(s))[e] # NoRow
        BY <1>0, <2>2, NoHireFacts, SeenType
      <4> QED
        BY <2>4, <2>5, <4>1 DEF History!Hire
    <3>3. /\ pc'[s] = "row" /\ req'[s].rows = req[s].rows /\ req'[s].target_table = Hires
          /\ req'[s].row_index = k + 1
      BY <1>0, <2>1, <2>4, <2>7, AcceptEffect
    <3> QED
      BY <2>1, <2>4, <2>6, <3>1, <3>2, <3>3, HireNext DEF Resting
  <2>8. CASE ~ SameAttributes(VersionsSeen(s)[v], Row(s))
    <3>1. past[e][Len(past[e])] # RowAttributes(Row(s))
      BY <2>3, <2>8 DEF SameAttributes
    <3>2. pc'[s] = "close_select" /\ UNCHANGED req
      BY <1>0, <2>1, <2>8, GotoOthers
    <3> QED
      BY <1>0, <2>1, <2>3, <2>4, <3>1, <3>2, CalmProgress DEF Resting
  <2> QED
    BY <2>7, <2>8
<1> QED
  BY <1>1, <1>2

LEMMA CloseSelectProgress ==
    ASSUME TypeInv, Backings, NEW s \in Sessions, Progress(s), CloseSelect(s)
    PROVE  Progress(s)'
<1>1. /\ pc[s] = "close_select" /\ pc'[s] \in {"close_update", "add_version"}
      /\ UNCHANGED << dimensions, employees, versions, wEmployees, wVersions, req >>
  BY GotoOthers DEF CloseSelect, tables, writes
<1>2. /\ req[s].target_table = Hires /\ pc[s] \notin Resting /\ StaffProgress(s)
  BY <1>1, PersistProgress DEF Persisting
<1>3. LET past == HistoriesIn(VersionsSeen(s))[Row(s).id]
      IN  past # << >> /\ past[Len(past)] # RowAttributes(Row(s))
  BY <1>1, <1>2 DEF StaffProgress
<1> QED
  BY <1>1, <1>2, <1>3, CalmProgress DEF Resting

-----------------------------------------------------------------------------
(***************************************************************************)
(* Rows of hires: the versions that close_current and add_version write.   *)
(***************************************************************************)
SameFacts(T, U, v) ==
    /\ U[v] # NoRow <=> T[v] # NoRow
    /\ U[v] # NoRow => U[v].employee_id = T[v].employee_id /\ U[v].attributes = T[v].attributes

LEMMA SameHistories ==
    ASSUME NEW T, NEW U, \A v \in VersionIds : SameFacts(T, U, v)
    PROVE  HistoriesIn(U) = HistoriesIn(T)
<1>1. ASSUME NEW e \in EmployeeIds PROVE HistoryIn(U, e) = HistoryIn(T, e)
  <2>1. VersionsOf(U, e) = VersionsOf(T, e)
    BY DEF SameFacts, VersionsOf
  <2>2. \A v \in VersionsOf(T, e) : U[v].attributes = T[v].attributes
    BY DEF SameFacts, VersionsOf
  <2> QED
    BY <2>1, <2>2, SameHistory
<1> QED
  BY <1>1 DEF HistoriesIn

\* Table U is table T with one more version, that of employee e.
OneMore(T, U, e, m, a) ==
    /\ T[m] = NoRow /\ \A v \in VersionIds : v > m => T[v] = NoRow
    /\ U[m] # NoRow /\ U[m].employee_id = e /\ U[m].attributes = a
    /\ \A v \in VersionIds \ {m} : U[v] = T[v]

\* The histories G are those of H with a appended to that of employee e.
OneLonger(H, G, e, a) ==
    /\ G[e] = Append(H[e], a)
    /\ \A f \in EmployeeIds \ {e} : G[f] = H[f]

LEMMA AppendedHistories ==
    ASSUME NEW T, NEW U, NEW e \in EmployeeIds, NEW m \in VersionIds, NEW a,
           OneMore(T, U, e, m, a)
    PROVE  OneLonger(HistoriesIn(T), HistoriesIn(U), e, a)
<1>0. U[m].attributes = a
  BY DEF OneMore
<1>1. HistoryIn(U, e) = Append(HistoryIn(T, e), U[m].attributes)
  <2>1. m \notin VersionsOf(T, e) /\ VersionsOf(U, e) = VersionsOf(T, e) \cup {m}
    BY DEF OneMore, VersionsOf
  <2>2. \A v \in VersionsOf(T, e) : v < m /\ U[v].attributes = T[v].attributes
    <3>1. ASSUME NEW v \in VersionsOf(T, e) PROVE v \in VersionIds \ {m} /\ ~ (v > m)
      BY <3>1 DEF OneMore, VersionsOf
    <3>2. \A v \in VersionIds \ {m} : ~ (v > m) => v < m
      BY DEF VersionIds
    <3> QED
      BY <3>1, <3>2 DEF OneMore
  <2> QED
    BY <2>1, <2>2, AppendedHistory
<1>2. ASSUME NEW f \in EmployeeIds \ {e} PROVE HistoryIn(U, f) = HistoryIn(T, f)
  <2>1. VersionsOf(U, f) = VersionsOf(T, f)
    BY DEF OneMore, VersionsOf
  <2>2. \A v \in VersionsOf(T, f) : U[v].attributes = T[v].attributes
    BY DEF OneMore, VersionsOf
  <2> QED
    BY <2>1, <2>2, SameHistory
<1> QED
  BY <1>0, <1>1, <1>2 DEF HistoriesIn, OneLonger

\* What a session sees after it has written a version.
LEMMA VersionSeenAfter ==
    ASSUME TypeInv, TypeInv', NEW s \in Sessions, NEW v \in VersionIds, NEW new \in Version,
           UNCHANGED versions, wVersions' = [wVersions EXCEPT ![s][v] = new]
    PROVE  /\ VersionsSeen(s)'[v] = new
           /\ \A u \in VersionIds \ {v} : VersionsSeen(s)'[u] = VersionsSeen(s)[u]
<1>1. /\ wVersions'[s][v] = new
      /\ \A u \in VersionIds \ {v} : wVersions'[s][u] = wVersions[s][u]
  BY DEF TypeInv, TypeOK
<1>2. new # NoRow
  BY NoRowDistinct
<1> QED
  BY <1>1, <1>2, SeenType, SeenNext

LEMMA CloseUpdateProgress ==
    ASSUME Consistent, TypeInv', Backings, NEW s \in Sessions, Progress(s), CloseUpdate(s),
           NEW v, v = local[s].target
    PROVE  Progress(s)'
<1> DEFINE T == VersionsSeen(s)
           k == req[s].row_index
           past == HistoriesIn(T)
<1>1. /\ TypeInv /\ pc[s] = "close_update" /\ pc[s] \in Persisting
      /\ v \in VersionIds /\ T[v] \in Version /\ local[s].valid_from \in Nat
  BY SeenType DEF Consistent, CloseUpdate, TargetInv, TypeInv, TypeOK, Reads, Persisting
<1>2. /\ UNCHANGED << employees, versions, wEmployees, dimensions, req >>
      /\ Goto(s, "add_version")
      /\ wVersions' = [wVersions EXCEPT ![s][v] = Closed(T[v], local[s].valid_from)]
  BY DEF CloseUpdate, tables
<1>3. PICK closed \in Version :
        /\ closed.employee_id = T[v].employee_id /\ closed.attributes = T[v].attributes
        /\ wVersions' = [wVersions EXCEPT ![s][v] = closed]
  <2> DEFINE row == Closed(T[v], local[s].valid_from)
  <2>1. /\ row \in Version
        /\ row.employee_id = T[v].employee_id /\ row.attributes = T[v].attributes
    BY <1>1 DEF Version, Closed
  <2> HIDE DEF row
  <2> QED
    BY <1>2, <2>1 DEF row
<1>4. /\ T'[v] = closed
      /\ \A u \in VersionIds \ {v} : T'[u] = T[u]
      /\ EmployeesSeen(s)' = EmployeesSeen(s)
  <2>1. UNCHANGED << employees, versions, wEmployees >>
    BY <1>2
  <2>2. wVersions' = [wVersions EXCEPT ![s][v] = closed]
    BY <1>3
  <2>3. TypeInv /\ v \in VersionIds /\ UNCHANGED versions
    BY <1>1, <1>2
  <2>4. /\ VersionsSeen(s)'[v] = closed
        /\ \A u \in VersionIds \ {v} : VersionsSeen(s)'[u] = VersionsSeen(s)[u]
    <3>1. /\ wVersions'[s][v] = closed
          /\ \A u \in VersionIds \ {v} : wVersions'[s][u] = wVersions[s][u]
      BY <2>2, <2>3 DEF TypeInv, TypeOK
    <3>2. closed # NoRow
      BY NoRowDistinct
    <3> QED
      BY <2>3, <3>1, <3>2, SeenType, SeenNext
  <2>5. EmployeesSeen(s)' = EmployeesSeen(s)
    BY <2>1 DEF EmployeesSeen
  <2> QED
    BY <2>4, <2>5
<1>5. HistoriesIn(T)' = past
  <2>1. \A U : U = T' => HistoriesIn(U) = past
    <3>1. \A U : U = T' => \A u \in VersionIds : SameFacts(T, U, u)
      BY <1>1, <1>3, <1>4, NoRowDistinct DEF SameFacts
    <3> HIDE DEF T
    <3> QED
      BY <3>1, SameHistories
  <2> QED
    BY <2>1
<1>6. /\ pc[s] \notin Resting /\ req[s].target_table = Hires
      /\ StaffProgress(s) /\ k <= Len(req[s].rows) + 1
  BY <1>1, PersistProgress
<1>7. /\ HireFactsIn(EmployeesSeen(s)) = Employing(s)[k - 1].hired
      /\ past = Employing(s)[k - 1].past
      /\ past[Row(s).id] # << >>
      /\ past[Row(s).id][Len(past[Row(s).id])] # RowAttributes(Row(s))
  BY <1>1, <1>6 DEF StaffProgress
<1>8. pc'[s] = "add_version" /\ Row(s)' = Row(s)
  BY <1>1, <1>2, GotoOthers DEF Row
<1>9. PICK j, E, table, old : /\ j = req'[s].row_index
                              /\ E = EmployeesSeen(s)' /\ table = VersionsSeen(s)'
                              /\ old = HistoriesIn(table)[Row(s)'.id]
  OBVIOUS
<1>10. HistoriesIn(table) = past /\ UNCHANGED req
  BY <1>2, <1>5, <1>9
<1>11. /\ HireFactsIn(E) = Employing(s)[j - 1].hired
       /\ HistoriesIn(table) = Employing(s)[j - 1].past
       /\ old # << >> /\ old[Len(old)] # RowAttributes(Row(s)')
  BY <1>4, <1>7, <1>8, <1>9, <1>10
<1>12. /\ pc'[s] \notin Resting
       /\ req'[s].rows = req[s].rows /\ req'[s].target_table = Hires
       /\ req'[s].row_index <= Len(req[s].rows) + 1
       /\ UNCHANGED << dimensions, employees, versions >>
  BY <1>2, <1>6, <1>8, <1>10 DEF Resting
<1> HIDE DEF T
<1> QED
  BY <1>6, <1>8, <1>9, <1>11, <1>12, HireNext

\* The employee that add_first_version works on has no version yet.
LEMMA NoVersionBefore ==
    ASSUME Consistent, NEW s \in Sessions, pc[s] = "add_first_version"
    PROVE  VersionsOf(VersionsSeen(s), Row(s).id) = {}
<1> DEFINE e == Row(s).id
<1>1. TypeInv /\ e \in EmployeeIds
  BY HireAtWork DEF Consistent, Midway
<1>2. /\ employees[e] = NoRow
      /\ \A u \in VersionIds : wVersions[s][u] # NoRow => wVersions[s][u].employee_id # e
  BY DEF Consistent, SessionInv
<1>3. \A u \in VersionIds : versions[u] # NoRow => versions[u].employee_id # e
  BY <1>1, <1>2 DEF Consistent, OneVersionEach, OneVersion
<1> QED
  BY <1>1, <1>2, <1>3, SeenType DEF VersionsOf

LEMMA InsertVersionProgress ==
    ASSUME Consistent, TypeInv', Backings, NEW s \in Sessions, Progress(s), InsertVersion(s),
           pc[s] \in {"add_first_version", "add_version"}, NEW e, e = Row(s).id
    PROVE  Progress(s)'
<1> DEFINE T == VersionsSeen(s)
           k == req[s].row_index
           past == HistoriesIn(T)
           a == RowAttributes(Row(s))
           inserted == NewVersion(Row(s), local[s].valid_from)
<1>1. /\ TypeInv /\ e \in EmployeeIds /\ a \in Attributes /\ local[s].valid_from \in Nat
      /\ versionSeq + 1 \in VersionIds /\ versionSeq \in Nat /\ pc[s] \in Persisting
  BY HireAtWork DEF Consistent, InsertVersion, TypeInv, TypeOK, Midway, Reads, Persisting
<1>2. CASE CurrentIn(T, e) # {}
  BY <1>1, <1>2, FailProgress DEF InsertVersion
<1>3. CASE CurrentIn(T, e) = {}
  <2>0. PICK v \in VersionIds : v = versionSeq + 1
    BY <1>1
  <2>1. /\ wVersions' = [wVersions EXCEPT ![s][v] = inserted]
        /\ UNCHANGED << employees, versions, wEmployees, dimensions >>
        /\ IF pc[s] = "add_first_version"
             THEN Accept(s)
             ELSE Goto(s, "update_current") /\ UNCHANGED << req, local >>
    BY <1>3, <2>0 DEF InsertVersion, tables
  <2>2. inserted \in Version /\ inserted.employee_id = e /\ inserted.attributes = a
    BY <1>1 DEF Version, NewVersion
  <2> HIDE DEF inserted
  <2>3. T[v] = NoRow /\ \A u \in VersionIds : u > v => T[u] = NoRow
    <3>1. v > versionSeq /\ \A u \in VersionIds : u > v => u > versionSeq
      BY <1>1, <2>0 DEF VersionIds
    <3> QED
      BY <1>1, <3>1, SeenType DEF Consistent, SequenceAhead
  <2>4. /\ T'[v] = inserted /\ inserted # NoRow
        /\ \A u \in VersionIds \ {v} : T'[u] = T[u]
        /\ EmployeesSeen(s)' = EmployeesSeen(s)
    <3>1. UNCHANGED << employees, versions, wEmployees >>
      BY <2>1
    <3>2. wVersions' = [wVersions EXCEPT ![s][v] = inserted]
      BY <2>1
    <3>3. inserted # NoRow
      BY <2>2, NoRowDistinct
    <3>4. inserted \in Version
      BY <2>2
    <3>5. EmployeesSeen(s)' = EmployeesSeen(s)
      BY <3>1 DEF EmployeesSeen
    <3> QED
      BY <1>1, <3>1, <3>2, <3>3, <3>4, <3>5, VersionSeenAfter
  <2>5. HistoriesIn(T)' = [past EXCEPT ![e] = Append(past[e], a)]
    <3>1. ASSUME NEW W, W = T, NEW U, U = T'
          PROVE  HistoriesIn(U) = [HistoriesIn(W) EXCEPT ![e] = Append(HistoriesIn(W)[e], a)]
      <4>1. /\ U[v] # NoRow /\ U[v].employee_id = e /\ U[v].attributes = a
            /\ \A u \in VersionIds \ {v} : U[u] = W[u]
        BY <2>2, <2>4, <3>1
      <4>2. W[v] = NoRow /\ \A u \in VersionIds : u > v => W[u] = NoRow
        BY <2>3, <3>1
      <4>3. e \in EmployeeIds /\ v \in VersionIds
        BY <1>1
      <4>4. OneMore(W, U, e, v, a)
        BY <4>1, <4>2 DEF OneMore
      <4> HIDE DEF a
      <4>5. OneLonger(HistoriesIn(W), HistoriesIn(U), e, a)
        BY <4>3, <4>4, AppendedHistories
      <4>6. /\ HistoriesIn(U) = [f \in EmployeeIds |-> HistoriesIn(U)[f]]
            /\ HistoriesIn(W) = [f \in EmployeeIds |-> HistoriesIn(W)[f]]
        BY DEF HistoriesIn
      <4> QED
        BY <4>3, <4>5, <4>6 DEF OneLonger
    <3> HIDE DEF T
    <3>2. \A U : U = T' => HistoriesIn(U) = [past EXCEPT ![e] = Append(past[e], a)]
      BY <3>1
    <3> HIDE DEF past, a
    <3> QED
      BY <3>2
  <2>6. /\ pc[s] \notin Resting /\ req[s].target_table = Hires
        /\ StaffProgress(s) /\ k <= Len(req[s].rows) + 1
        /\ k + 1 <= Len(req[s].rows) + 1 /\ (k + 1) - 1 = k
        /\ Employing(s)[k].past = History!Record(Employing(s)[k - 1].past, Row(s))
    BY <1>1, PersistProgress
  <2>7. /\ HireFactsIn(EmployeesSeen(s)) =
             Employing(s)[IF pc[s] = "add_first_version" THEN k ELSE k - 1].hired
        /\ past = Employing(s)[k - 1].past
    <3>1. pc[s] # "update_current"
      OBVIOUS
    <3> QED
      BY <2>6, <3>1 DEF StaffProgress
  <2>8. past[e] = << >> \/ past[e][Len(past[e])] # a
    <3>1. CASE pc[s] = "add_first_version"
      <4>1. VersionsOf(T, e) = {}
        BY <3>1, NoVersionBefore
      <4>2. past[e] = HistoryIn(T, e)
        BY <1>1 DEF HistoriesIn
      <4> HIDE DEF T, past
      <4> QED
        BY <4>1, <4>2, NoHistory
    <3>2. CASE pc[s] = "add_version"
      BY <2>6, <3>2 DEF StaffProgress
    <3> QED
      BY <3>1, <3>2
  <2>9. Employing(s)[k].past = HistoriesIn(T)'
    <3>1. History!AttributesOf(Row(s)) = a
      BY <1>1, PersistedValid
    <3> HIDE DEF past, T, a
    <3>2. History!Record(past, Row(s)) = [past EXCEPT ![e] = Append(past[e], a)]
      BY <2>8, <3>1 DEF History!Record
    <3> QED
      BY <2>5, <2>6, <2>7, <3>2
  <2> HIDE DEF T, past, a
  <2>10. CASE pc[s] = "add_first_version"
    <3>1. /\ pc'[s] = "row" /\ req'[s].rows = req[s].rows /\ req'[s].target_table = Hires
          /\ req'[s].row_index = k + 1
      BY <1>1, <2>1, <2>6, <2>10, AcceptEffect
    <3> QED
      BY <2>1, <2>4, <2>6, <2>7, <2>9, <2>10, <3>1, HireNext DEF Resting, T
  <2>11. CASE pc[s] = "add_version"
    <3>1. pc'[s] = "update_current" /\ UNCHANGED req
      BY <1>1, <2>1, <2>11, GotoOthers
    <3> QED
      BY <2>1, <2>4, <2>6, <2>7, <2>9, <2>11, <3>1, HireNext DEF Resting, T
  <2> QED
    BY <2>10, <2>11
<1> QED
  BY <1>2, <1>3

LEMMA UpdateCurrentProgress ==
    ASSUME Consistent, TypeInv', Backings, NEW s \in Sessions, Progress(s), UpdateCurrent(s),
           NEW e, e = Row(s).id, NEW a, a = RowAttributes(Row(s)),
           NEW row, row = EmployeesSeen(s)[e]
    PROVE  Progress(s)'
<1> DEFINE new == Transferred(row, a)
           k == req[s].row_index
<1>1. /\ TypeInv /\ pc[s] = "update_current" /\ pc[s] \in Persisting
      /\ e \in EmployeeIds /\ a \in Attributes
  BY HireAtWork DEF Consistent, UpdateCurrent, Midway, Persisting
<1>2. row # NoRow /\ row \in Employee
  <2>1. row # NoRow
    BY <1>1 DEF Consistent, SessionInv, OneCurrent
  <2> QED
    BY <1>1, <2>1, SeenType
<1>3. /\ Accept(s)
      /\ UNCHANGED << dimensions, employees, versions, wVersions >>
      /\ \/ UNCHANGED wEmployees
         \/ wEmployees' = [wEmployees EXCEPT ![s][e] = new]
  BY <1>2 DEF UpdateCurrent, tables
<1>4. new \in Employee /\ FactsOf(new) = FactsOf(row)
  BY <1>1, <1>2 DEF Employee, Transferred, FactsOf
<1>5. VersionsSeen(s)' = VersionsSeen(s)
  BY <1>3 DEF VersionsSeen
<1>6. HireFactsIn(EmployeesSeen(s))' = HireFactsIn(EmployeesSeen(s))
  <2>1. CASE UNCHANGED wEmployees
    BY <1>3, <2>1 DEF EmployeesSeen, HireFactsIn
  <2>2. CASE wEmployees' = [wEmployees EXCEPT ![s][e] = new]
    <3> HIDE DEF new
    <3> DEFINE E == EmployeesSeen(s)
    <3>1. E \in [EmployeeIds -> Employee \cup {NoRow}]
      BY <1>1, SeenType
    <3>2. E' = [E EXCEPT ![e] = new]
      <4>1. UNCHANGED employees
        BY <1>3
      <4> QED
        BY <1>1, <1>4, <2>2, <4>1, EmployeeSeenAfter
    <3>3. HireFactsIn(E)[e] = FactsOf(row)
      BY <1>1, <1>2 DEF HireFactsIn, FactsOf
    <3> HIDE DEF E
    <3>4. \A U : U = [E EXCEPT ![e] = new] =>
            /\ HireFactsIn(U)[e] = FactsOf(new)
            /\ \A f \in EmployeeIds \ {e} : HireFactsIn(U)[f] = HireFactsIn(E)[f]
      <4>1. e \in EmployeeIds /\ new \in Employee
        BY <1>1, <1>4
      <4> QED
        BY <3>1, <4>1, NoRowDistinct DEF HireFactsIn, FactsOf
    <3>5. \A U : U = [E EXCEPT ![e] = new] => HireFactsIn(U) = HireFactsIn(E)
      <4>1. ASSUME NEW U, U = [E EXCEPT ![e] = new] PROVE HireFactsIn(U) = HireFactsIn(E)
        <5>1. \A f \in EmployeeIds : HireFactsIn(U)[f] = HireFactsIn(E)[f]
          BY <1>1, <1>4, <3>3, <3>4, <4>1
        <5>2. /\ HireFactsIn(U) = [f \in EmployeeIds |-> HireFactsIn(U)[f]]
              /\ HireFactsIn(E) = [f \in EmployeeIds |-> HireFactsIn(E)[f]]
          BY DEF HireFactsIn
        <5> QED
          BY <5>1, <5>2
      <4> QED
        BY <4>1
    <3>6. HireFactsIn(E') = HireFactsIn(E)
      BY <3>2, <3>5
    <3> QED
      BY <3>6 DEF E
  <2> QED
    BY <1>3, <2>1, <2>2
<1>7. /\ pc[s] \notin Resting /\ req[s].target_table = Hires
      /\ StaffProgress(s) /\ k + 1 <= Len(req[s].rows) + 1 /\ (k + 1) - 1 = k
      /\ Employing(s)[k].hired = History!Hire(Employing(s)[k - 1].hired, Row(s))
  BY <1>1, PersistProgress
<1>8. /\ HireFactsIn(EmployeesSeen(s)) = Employing(s)[k - 1].hired
      /\ HistoriesIn(VersionsSeen(s)) = Employing(s)[k].past
  BY <1>1, <1>7 DEF StaffProgress
<1>9. Employing(s)[k].hired = HireFactsIn(EmployeesSeen(s))
  <2>1. HireFactsIn(EmployeesSeen(s))[e] # NoRow
    BY <1>1, <1>2, NoHireFacts, SeenType
  <2> QED
    BY <1>7, <1>8, <2>1 DEF History!Hire
<1>10. /\ pc'[s] = "row" /\ req'[s].rows = req[s].rows /\ req'[s].target_table = Hires
       /\ req'[s].row_index = k + 1
  BY <1>1, <1>3, <1>7, AcceptEffect
<1> QED
  BY <1>3, <1>5, <1>6, <1>7, <1>8, <1>9, <1>10, HireNext DEF Resting

-----------------------------------------------------------------------------
(***************************************************************************)
(* Progress is invariant.                                                  *)
(***************************************************************************)
LEMMA ProgressInit == Init => Progresses
BY DEF Init, Progresses, Progress, NothingWritten, Resting

LEMMA EndProgress ==
    ASSUME TypeInv, NEW s \in Sessions, Progress(s),
           Commit(s) \/ Refresh(s) \/ Abort(s) \/ DeadlockVictim(s)
    PROVE  Progress(s)'
<1>1. CASE Commit(s)
  <2>1. DropWrites(s) /\ pc'[s] = "refresh"
    BY <1>1, GotoOthers DEF Commit
  <2> QED
    BY <2>1, Resting1 DEF Resting
<1>2. CASE Refresh(s)
  <2>1. /\ pc[s] = "refresh" /\ pc'[s] = "idle"
        /\ UNCHANGED << wDimensions, wEmployees, wVersions >>
    BY <1>2, GotoOthers DEF Refresh, writes
  <2> QED
    BY <2>1 DEF Progress, NothingWritten, Resting
<1>3. CASE Abort(s) \/ DeadlockVictim(s)
  BY <1>3, FailProgress DEF Abort, DeadlockVictim
<1> QED
  BY <1>1, <1>2, <1>3

LEMMA NothingProgresses ==
    ASSUME UNCHANGED vars, Progresses
    PROVE  Progresses'
<1>1. UNCHANGED << dimensions, employees, versions, wDimensions, wEmployees, wVersions, pc, req, local >>
  BY DEF vars, tables, writes
<1>2. ASSUME NEW s \in Sessions PROVE Progress(s)'
  <2>1. /\ EmployeesSeen(s)' = EmployeesSeen(s) /\ VersionsSeen(s)' = VersionsSeen(s)
        /\ \A t : DimensionsSeen(s, t)' = DimensionsSeen(s, t)
        /\ Row(s)' = Row(s)
        /\ Catalogued(s)' = Catalogued(s) /\ Employing(s)' = Employing(s)
    BY <1>1 DEF EmployeesSeen, VersionsSeen, DimensionsSeen, Row, Catalogued, Employing, StaffBefore
  <2>2. \A t, id : Known(s, t, id)' = Known(s, t, id)
    BY <2>1 DEF Known
  <2>3. Progress(s)
    BY DEF Progresses
  <2>4. CatalogProgress(s) => CatalogProgress(s)'
    BY <1>1, <2>1 DEF CatalogProgress
  <2>5. StaffProgress(s) => StaffProgress(s)'
    BY <1>1, <2>1, <2>2 DEF StaffProgress
  <2> QED
    BY <1>1, <2>3, <2>4, <2>5 DEF Progress, NothingWritten
<1> QED
  BY <1>2 DEF Progresses

LEMMA ProgressStep ==
    OneHandler /\ Consistent /\ Backings /\ Chains /\ Progresses /\ [Next]_vars => Progresses'
<1> SUFFICES ASSUME OneHandler, Consistent, Backings, Chains, Progresses, [Next]_vars
             PROVE  Progresses'
  OBVIOUS
<1>1. TypeInv /\ TypeInv'
  BY TypeStep DEF Consistent
<1>2. CASE UNCHANGED vars
  BY <1>2, NothingProgresses
<1>3. CASE Quiet
  BY <1>2, <1>3 DEF Quiet
<1>4. ASSUME NEW s \in Sessions, Receive(s) \/ Statement(s) \/ Abort(s) \/ DeadlockVictim(s)
      PROVE  Progresses'
  <2>1. Progress(s)
    BY DEF Progresses
  <2>2. Progress(s)'
    <3>1. CASE Receive(s)
      BY <1>1, <2>1, <3>1, ReceiveProgress
    <3>2. CASE RejectDimension(s) \/ SelectDimension(s) \/ InsertDimension(s) \/ UpdateDimension(s)
      BY <1>1, <2>1, <3>2, RejectDimensionProgress, SelectDimensionProgress, UpsertsProgress
    <3>3. CASE CheckDepartment(s) \/ CheckJob(s) \/ Exists(s)
      BY <1>1, <2>1, <3>3, CheckDepartmentProgress, CheckJobProgress, ExistsProgress
    <3>4. CASE AddEmployee(s) \/ GetCurrent(s) \/ CloseSelect(s)
      BY <1>1, <2>1, <3>4, AddEmployeeProgress, GetCurrentProgress, CloseSelectProgress
    <3>5. CASE CloseUpdate(s)
      BY <1>1, <2>1, <3>5, CloseUpdateProgress
    <3>6. CASE AddFirstVersion(s) \/ AddVersion(s)
      BY <1>1, <2>1, <3>6, InsertVersionProgress DEF AddFirstVersion, AddVersion
    <3>7. CASE UpdateCurrent(s)
      BY <1>1, <2>1, <3>7, UpdateCurrentProgress
    <3>8. CASE Commit(s) \/ Refresh(s) \/ Abort(s) \/ DeadlockVictim(s)
      BY <1>1, <2>1, <3>8, EndProgress
    <3> QED
      BY <1>4, <3>1, <3>2, <3>3, <3>4, <3>5, <3>6, <3>7, <3>8, OutOfRangeIsAbort DEF Statement
  <2> QED
    BY <2>2 DEF Progresses, OneHandler
<1> QED
  BY <1>2, <1>3, <1>4 DEF Next

LEMMA ProgressAlways ==
    ASSUME OneHandler
    PROVE  Spec => [](Consistent /\ Backings /\ Chains /\ Progresses)
<1>1. Consistent => TypeInv
  BY DEF Consistent
<1>2. Consistent /\ Backings /\ Chains /\ Progresses /\ [Next]_vars => Progresses'
  BY ProgressStep
<1> QED
  BY <1>1, <1>2, BackingsInit, BackingsStep, ChainsInit, ChainsStep, ProgressInit,
     ConsistentAlways, PTL DEF Spec

-----------------------------------------------------------------------------
(***************************************************************************)
(* A commit is one batch of EmployeeHistory, any other step is none.       *)
(***************************************************************************)
LEMMA CommitMaps ==
    ASSUME TypeInv, Backings, NEW s \in Sessions, Progress(s), Commit(s)
    PROVE  History!Next
<1> DEFINE t == req[s].target_table
           rows == req[s].rows
<1>1. /\ pc[s] = "row" /\ pc[s] \notin Resting /\ ~ MoreRows(s)
      /\ dimensions' = [u \in DimensionTables |-> DimensionsSeen(s, u)]
      /\ employees' = EmployeesSeen(s) /\ versions' = VersionsSeen(s)
  BY DEF Commit, Resting
<1>2. rows \in Batches(t) /\ t \in Targets /\ req[s].row_index - 1 = Len(rows)
  <2>1. /\ rows \in Batches(t) /\ req[s].row_index <= Len(rows) + 1
        /\ ~ (req[s].row_index <= Len(rows))
    BY <1>1 DEF Progress, MoreRows
  <2>2. rows \in Seq(DimensionRow) \cup Seq(HireRow) /\ req[s].row_index \in Nat /\ t \in Targets
    BY DEF TypeInv, TypeOK, Request
  <2>3. Len(rows) \in Nat
    BY <2>2
  <2> QED
    BY <2>1, <2>2, <2>3
<1>3. CASE t = Hires
  <2>1. rows \in HireBatches /\ StaffProgress(s)
    BY <1>1, <1>3, HireProgress
  <2>2. /\ HireFactsIn(employees') = Employing(s)[Len(rows)].hired
        /\ HistoriesIn(versions') = Employing(s)[Len(rows)].past
    BY <1>1, <1>2, <2>1 DEF StaffProgress
  <2>3. dimensions' = dimensions
    <3>1. \A u \in DimensionTables : DimensionsSeen(s, u) = dimensions[u]
      BY <1>3, CommittedCatalog
    <3>2. dimensions = [u \in DimensionTables |-> dimensions[u]]
      BY DEF TypeInv, TypeOK
    <3> QED
      BY <1>1, <3>1, <3>2
  <2>4. History!LoadHires(rows)
    BY <2>2, <2>3 DEF History!LoadHires, Employing, StaffBefore
  <2> QED
    BY <2>1, <2>4 DEF History!Next
<1>4. CASE t # Hires
  <2>1. t \in DimensionTables /\ CatalogProgress(s)
    BY <1>1, <1>2, <1>4 DEF Progress, Targets
  <2>2. employees' = employees /\ versions' = versions
    <3>1. /\ employees' = Over(employees, NoEmployees)
          /\ versions' = Over(versions, NoVersions)
      BY <1>1, <2>1 DEF CatalogProgress, EmployeesSeen, VersionsSeen
    <3>2. /\ employees \in [EmployeeIds -> Employee \cup {NoRow}]
          /\ versions \in [VersionIds -> Version \cup {NoRow}]
      BY DEF TypeInv, TypeOK
    <3> QED
      BY <3>1, <3>2, OverNothing
  <2>3. dimensions' = [dimensions EXCEPT ![t] = Catalogued(s)[Len(rows)]]
    <3>1. /\ DimensionsSeen(s, t) = Catalogued(s)[Len(rows)]
          /\ \A u \in DimensionTables \ {t} : DimensionsSeen(s, u) = dimensions[u]
      BY <1>2, <2>1 DEF CatalogProgress
    <3>2. DOMAIN dimensions = DimensionTables /\ dimensions = [u \in DimensionTables |-> dimensions[u]]
      BY DEF TypeInv, TypeOK
    <3> HIDE DEF t, rows
    <3> QED
      BY <1>1, <2>1, <3>1, <3>2
  <2>4. History!LoadCatalog(t, rows)
    BY <2>2, <2>3 DEF History!LoadCatalog, Catalogued
  <2>5. \/ t = "departments" /\ rows \in DepartmentBatches
        \/ t = "jobs" /\ rows \in JobBatches
    BY <1>2, <2>1 DEF Batches, DimensionTables, Hires
  <2> QED
    BY <2>4, <2>5 DEF History!Next
<1> QED
  BY <1>3, <1>4

\* The committed tables of a lone handler implement EmployeeHistory: its commit
\* applies its whole batch, row by row and at once, a re-upload changes nothing
\* and the first row of an employee fixes the hire facts, whatever statement
\* fails before; no other step changes what is known (_run_batch,
\* _persist_hire).
THEOREM LoneHandlerImplementsHistory ==
    ASSUME OneHandler
    PROVE  Spec => ImplementsHistory
<1>1. Init => History!Init
  <2> SUFFICES ASSUME Init PROVE History!Init
    OBVIOUS
  <2>1. HireFactsIn(employees) = [e \in EmployeeIds |-> NoRow]
    BY DEF Init, NoEmployees, HireFactsIn
  <2>2. HistoriesIn(versions) = [e \in EmployeeIds |-> << >>]
    <3>1. \A e \in EmployeeIds : VersionsOf(versions, e) = {}
      BY DEF Init, NoVersions, VersionsOf
    <3>2. \A e \in EmployeeIds : HistoryIn(versions, e) = << >>
      BY <3>1, NoHistory
    <3> QED
      BY <3>2 DEF HistoriesIn
  <2> QED
    BY <2>1, <2>2 DEF Init, History!Init
<1>2. Consistent /\ Backings /\ Progresses /\ [Next]_vars => [History!Next]_History!vars
  <2> SUFFICES ASSUME Consistent, Backings, Progresses, [Next]_vars
               PROVE  History!Next \/ UNCHANGED History!vars
    OBVIOUS
  <2>1. ASSUME NEW s \in Sessions, Commit(s) PROVE History!Next
    BY <2>1, CommitMaps DEF Consistent, Progresses
  <2>2. CASE UNCHANGED << dimensions, employees, versions >>
    BY <2>2 DEF History!vars, HireFactsIn, HistoriesIn, HistoryIn, VersionsOf
  <2> QED
    BY <2>1, <2>2, OnlyCommitPublishes
<1> QED
  BY <1>1, <1>2, ProgressAlways, PTL DEF Spec, ImplementsHistory, History!Spec

-----------------------------------------------------------------------------
(***************************************************************************)
(* The errors of a row: each field with a defect has one.                  *)
(***************************************************************************)
VerdictOn(row) == [f \in Field |-> Verdict(f, row)]

\* The errors name each of the fields once, with the code of its verdict.
Reports(errors, fields, verdict) ==
    /\ errors \in Seq(ErrorRecord)
    /\ IsFiniteSet(fields) /\ Len(errors) = Cardinality(fields)
    /\ {errors[i] : i \in 1 .. Len(errors)} = {FieldError(f, verdict[f]) : f \in fields}

LEMMA OneReport ==
    ASSUME NEW verdict, NEW f \in Field, NEW code \in ReasonCode, NEW test,
           ~ test => verdict[f] = code
    PROVE  Reports(ErrorUnless(test, f, code), {g \in {f} : ~ test}, verdict)
<1>1. CASE test
  <2>1. ErrorUnless(test, f, code) = << >> /\ {g \in {f} : ~ test} = {}
    BY <1>1 DEF ErrorUnless
  <2>2. Reports(<< >>, {}, verdict)
    BY FS_EmptySet DEF Reports
  <2> QED
    BY <2>1, <2>2
<1>2. CASE ~ test
  <2> DEFINE errors == << FieldError(f, code) >>
  <2>1. ErrorUnless(test, f, code) = errors /\ {g \in {f} : ~ test} = {f}
    BY <1>2 DEF ErrorUnless
  <2>2. errors \in Seq(ErrorRecord) /\ Len(errors) = 1 /\ errors[1] = FieldError(f, verdict[f])
    BY <1>2, OneError
  <2>3. {errors[i] : i \in 1 .. 1} = {FieldError(g, verdict[g]) : g \in {f}}
    BY <2>2
  <2> HIDE DEF errors
  <2>4. Reports(errors, {f}, verdict)
    BY <2>2, <2>3, FS_Singleton DEF Reports
  <2> QED
    BY <2>1, <2>4
<1> QED
  BY <1>1, <1>2

LEMMA BothReports ==
    ASSUME NEW verdict, NEW a, NEW F, NEW b, NEW G,
           Reports(a, F, verdict), Reports(b, G, verdict), F \cap G = {}
    PROVE  Reports(a \o b, F \cup G, verdict)
<1>1. /\ a \in Seq(ErrorRecord) /\ b \in Seq(ErrorRecord)
      /\ IsFiniteSet(F) /\ Len(a) = Cardinality(F)
      /\ IsFiniteSet(G) /\ Len(b) = Cardinality(G)
  BY DEF Reports
<1>2. /\ (a \o b) \in Seq(ErrorRecord) /\ Len(a \o b) = Len(a) + Len(b)
      /\ Len(a) \in Nat /\ Len(b) \in Nat
  BY <1>1
<1>3. IsFiniteSet(F \cup G) /\ Len(a \o b) = Cardinality(F \cup G)
  <2>1. /\ IsFiniteSet(F \cup G)
        /\ Cardinality(F \cup G) = Cardinality(F) + Cardinality(G) - Cardinality(F \cap G)
    BY <1>1, FS_Union
  <2>2. Cardinality(F \cap G) = 0
    BY FS_EmptySet
  <2> QED
    BY <1>1, <1>2, <2>1, <2>2
<1>4. /\ \A i \in 1 .. Len(a) : (a \o b)[i] = a[i]
      /\ \A i \in 1 .. Len(b) : (a \o b)[Len(a) + i] = b[i]
  BY <1>1
<1>5. ASSUME NEW i \in 1 .. Len(a) + Len(b)
      PROVE  i \in 1 .. Len(a) \/ (i - Len(a) \in 1 .. Len(b) /\ i = Len(a) + (i - Len(a)))
  BY <1>2
<1>6. \A i \in 1 .. Len(b) : Len(a) + i \in 1 .. Len(a) + Len(b)
  BY <1>2
<1>7. \A i \in 1 .. Len(a) : i \in 1 .. Len(a) + Len(b)
  BY <1>2
<1>8. {(a \o b)[i] : i \in 1 .. Len(a) + Len(b)}
        = {a[i] : i \in 1 .. Len(a)} \cup {b[i] : i \in 1 .. Len(b)}
  <2>1. ASSUME NEW i \in 1 .. Len(a) + Len(b)
        PROVE  (a \o b)[i] \in {a[j] : j \in 1 .. Len(a)} \cup {b[j] : j \in 1 .. Len(b)}
    <3>1. CASE i \in 1 .. Len(a)
      BY <1>4, <3>1
    <3>2. CASE i - Len(a) \in 1 .. Len(b) /\ i = Len(a) + (i - Len(a))
      <4>1. (a \o b)[i] = b[i - Len(a)]
        BY <1>4, <3>2
      <4> QED
        BY <3>2, <4>1
    <3> QED
      BY <1>5, <3>1, <3>2
  <2>2. \A i \in 1 .. Len(a) : a[i] \in {(a \o b)[j] : j \in 1 .. Len(a) + Len(b)}
    BY <1>4, <1>7
  <2>3. \A i \in 1 .. Len(b) : b[i] \in {(a \o b)[j] : j \in 1 .. Len(a) + Len(b)}
    BY <1>4, <1>6
  <2> QED
    BY <2>1, <2>2, <2>3
<1>9. {FieldError(f, verdict[f]) : f \in F \cup G}
        = {FieldError(f, verdict[f]) : f \in F} \cup {FieldError(f, verdict[f]) : f \in G}
  OBVIOUS
<1> QED
  BY <1>2, <1>3, <1>8, <1>9 DEF Reports

LEMMA DimensionReports ==
    ASSUME NEW row, NEW t \in DimensionTables
    PROVE  Reports(DimensionErrors(row, NameKey(t)),
                   {f \in FieldsOf(t) : Verdict(f, row) # "ok"}, VerdictOn(row))
<1> DEFINE V == VerdictOn(row)
           key == NameKey(t)
           F == {f \in {"id"} : ~ (row.id # Absent)}
           G == {f \in {key} : ~ (row.name # Absent)}
<1>1. FieldsOf(t) = {"id", key} /\ key \in Field /\ key \in {"department", "job"}
  BY DEF FieldsOf, NameKey, DimensionTables, Field
<1>2. /\ Verdict("id", row) = IF row.id = Absent THEN "MISSING_ID" ELSE "ok"
      /\ Verdict(key, row) = IF row.name = Absent THEN "MISSING_NAME" ELSE "ok"
  BY <1>1 DEF Verdict
<1>3. V["id"] = Verdict("id", row) /\ V[key] = Verdict(key, row)
  BY <1>1 DEF VerdictOn, Field
<1> HIDE DEF V, key
<1>4. Reports(CheckId(row), F, V)
  BY <1>2, <1>3, OneReport DEF CheckId, Field, ReasonCode
<1>5. Reports(CheckName(row, key), G, V)
  BY <1>1, <1>2, <1>3, OneReport DEF CheckName, ReasonCode
<1>6. F \cap G = {} /\ F \cup G = {f \in {"id", key} : Verdict(f, row) # "ok"}
  BY <1>1, <1>2
<1> HIDE DEF F, G
<1>7. Reports(CheckId(row) \o CheckName(row, key), F \cup G, V)
  BY <1>4, <1>5, <1>6, BothReports
<1> QED
  BY <1>1, <1>6, <1>7 DEF DimensionErrors, V, key

LEMMA HireReports ==
    ASSUME NEW row, NEW dk \in BOOLEAN, NEW jk \in BOOLEAN,
           dk <=> row.department_id # Absent /\ dimensions["departments"][row.department_id] # NoRow,
           jk <=> row.job_id # Absent /\ dimensions["jobs"][row.job_id] # NoRow
    PROVE  Reports(HireErrors(row, dk, jk),
                   {f \in FieldsOf(Hires) : Verdict(f, row) # "ok"}, VerdictOn(row))
<1> DEFINE V == VerdictOn(row)
           a == CheckId(row)
           b == CheckName(row, "name")
           c == CheckDatetime(row)
           d == CheckFkId(row.department_id, "department_id", "MISSING_DEPARTMENT")
           e == CheckFkId(row.job_id, "job_id", "MISSING_JOB")
           f == CheckReference(row.department_id, dk, "department_id", "UNKNOWN_DEPARTMENT")
           g == CheckReference(row.job_id, jk, "job_id", "UNKNOWN_JOB")
           A == {x \in {"id"} : ~ (row.id # Absent)}
           B == {x \in {"name"} : ~ (row.name # Absent)}
           C == {x \in {"datetime"} : row.datetime \in {Absent, Malformed}}
           D == {x \in {"department_id"} : ~ (row.department_id # Absent)}
           E == {x \in {"job_id"} : ~ (row.job_id # Absent)}
           F == {x \in {"department_id"} : ~ (row.department_id = Absent \/ dk)}
           G == {x \in {"job_id"} : ~ (row.job_id = Absent \/ jk)}
<1>1. FieldsOf(Hires) = {"id", "name", "datetime", "department_id", "job_id"}
  BY DEF FieldsOf, Hires
<1>2. /\ Verdict("id", row) = IF row.id = Absent THEN "MISSING_ID" ELSE "ok"
      /\ Verdict("name", row) = IF row.name = Absent THEN "MISSING_NAME" ELSE "ok"
  BY DEF Verdict
<1>3. Verdict("datetime", row) = IF row.datetime = Absent THEN "MISSING_DATETIME"
                                 ELSE IF row.datetime = Malformed THEN "BAD_DATETIME_FORMAT"
                                 ELSE "ok"
  BY SentinelAssumption DEF Verdict
<1>4. Verdict("department_id", row) = IF row.department_id = Absent THEN "MISSING_DEPARTMENT"
                                      ELSE IF ~ dk THEN "UNKNOWN_DEPARTMENT" ELSE "ok"
  BY DEF Verdict
<1>5. Verdict("job_id", row) = IF row.job_id = Absent THEN "MISSING_JOB"
                               ELSE IF ~ jk THEN "UNKNOWN_JOB" ELSE "ok"
  BY DEF Verdict
<1>6. \A x \in {"id", "name", "datetime", "department_id", "job_id"} :
        x \in Field /\ V[x] = Verdict(x, row)
  BY DEF VerdictOn, Field
<1> HIDE DEF V
<1>7. Reports(a, A, V)
  <2>1. ~ (row.id # Absent) => V["id"] = "MISSING_ID"
    BY <1>2, <1>6
  <2>2. "id" \in Field /\ "MISSING_ID" \in ReasonCode
    BY DEF Field, ReasonCode
  <2>3. Reports(ErrorUnless(row.id # Absent, "id", "MISSING_ID"),
                {x \in {"id"} : ~ (row.id # Absent)}, V)
    BY <2>1, <2>2, OneReport
  <2> QED
    BY <2>3 DEF CheckId
<1>8. Reports(b, B, V)
  <2>1. ~ (row.name # Absent) => V["name"] = "MISSING_NAME"
    BY <1>2, <1>6
  <2>2. "name" \in Field /\ "MISSING_NAME" \in ReasonCode
    BY DEF Field, ReasonCode
  <2>3. Reports(ErrorUnless(row.name # Absent, "name", "MISSING_NAME"),
                {x \in {"name"} : ~ (row.name # Absent)}, V)
    BY <2>1, <2>2, OneReport
  <2> QED
    BY <2>3 DEF CheckName
<1>9. Reports(c, C, V)
  <2>1. CASE row.datetime = Absent
    <3>1. /\ c = ErrorUnless(FALSE, "datetime", "MISSING_DATETIME")
          /\ C = {x \in {"datetime"} : ~ FALSE}
      BY <2>1 DEF CheckDatetime, ErrorUnless
    <3> QED
      BY <1>3, <1>6, <2>1, <3>1, OneReport DEF ReasonCode
  <2>2. CASE row.datetime # Absent
    <3>1. /\ c = ErrorUnless(row.datetime # Malformed, "datetime", "BAD_DATETIME_FORMAT")
          /\ C = {x \in {"datetime"} : ~ (row.datetime # Malformed)}
      BY <2>2 DEF CheckDatetime
    <3> QED
      BY <1>3, <1>6, <2>2, <3>1, OneReport DEF ReasonCode
  <2> QED
    BY <2>1, <2>2
<1>10. Reports(d, D, V)
  <2>1. ~ (row.department_id # Absent) => V["department_id"] = "MISSING_DEPARTMENT"
    BY <1>4, <1>6
  <2>2. "department_id" \in Field /\ "MISSING_DEPARTMENT" \in ReasonCode
    BY DEF Field, ReasonCode
  <2>3. Reports(ErrorUnless(row.department_id # Absent, "department_id", "MISSING_DEPARTMENT"),
                {x \in {"department_id"} : ~ (row.department_id # Absent)}, V)
    BY <2>1, <2>2, OneReport
  <2> QED
    BY <2>3 DEF CheckFkId
<1>11. Reports(e, E, V)
  <2>1. ~ (row.job_id # Absent) => V["job_id"] = "MISSING_JOB"
    BY <1>5, <1>6
  <2>2. "job_id" \in Field /\ "MISSING_JOB" \in ReasonCode
    BY DEF Field, ReasonCode
  <2>3. Reports(ErrorUnless(row.job_id # Absent, "job_id", "MISSING_JOB"),
                {x \in {"job_id"} : ~ (row.job_id # Absent)}, V)
    BY <2>1, <2>2, OneReport
  <2> QED
    BY <2>3 DEF CheckFkId
<1>12. Reports(f, F, V)
  <2>1. ~ (row.department_id = Absent \/ dk) => V["department_id"] = "UNKNOWN_DEPARTMENT"
    BY <1>4, <1>6
  <2>2. "department_id" \in Field /\ "UNKNOWN_DEPARTMENT" \in ReasonCode
    BY DEF Field, ReasonCode
  <2>3. Reports(ErrorUnless(row.department_id = Absent \/ dk, "department_id", "UNKNOWN_DEPARTMENT"),
                {x \in {"department_id"} : ~ (row.department_id = Absent \/ dk)}, V)
    BY <2>1, <2>2, OneReport
  <2> QED
    BY <2>3 DEF CheckReference
<1>13. Reports(g, G, V)
  <2>1. ~ (row.job_id = Absent \/ jk) => V["job_id"] = "UNKNOWN_JOB"
    BY <1>5, <1>6
  <2>2. "job_id" \in Field /\ "UNKNOWN_JOB" \in ReasonCode
    BY DEF Field, ReasonCode
  <2>3. Reports(ErrorUnless(row.job_id = Absent \/ jk, "job_id", "UNKNOWN_JOB"),
                {x \in {"job_id"} : ~ (row.job_id = Absent \/ jk)}, V)
    BY <2>1, <2>2, OneReport
  <2> QED
    BY <2>3 DEF CheckReference
<1> DEFINE AB == A \cup B
           AC == AB \cup C
           AD == AC \cup D
           AE == AD \cup E
           AF == AE \cup F
<1>14. /\ A \cap B = {} /\ AB \cap C = {} /\ AC \cap D = {} /\ AD \cap E = {}
       /\ AE \cap F = {} /\ AF \cap G = {}
  OBVIOUS
<1>15. AF \cup G = {x \in FieldsOf(Hires) : Verdict(x, row) # "ok"}
  <2>1. \A x \in AF \cup G : x \in FieldsOf(Hires) /\ Verdict(x, row) # "ok"
    BY <1>1, <1>2, <1>3, <1>4, <1>5
  <2>2. \A x \in FieldsOf(Hires) : Verdict(x, row) # "ok" => x \in AF \cup G
    BY <1>1, <1>2, <1>3, <1>4, <1>5
  <2> QED
    BY <2>1, <2>2
<1> HIDE DEF a, b, c, d, e, f, g, A, B, C, D, E, F, G
<1>16. Reports(a \o b, AB, V)
  BY <1>7, <1>8, <1>14, BothReports
<1> HIDE DEF AB
<1>17. Reports((a \o b) \o c, AC, V)
  BY <1>9, <1>14, <1>16, BothReports
<1> HIDE DEF AC
<1>18. Reports(((a \o b) \o c) \o d, AD, V)
  BY <1>10, <1>14, <1>17, BothReports
<1> HIDE DEF AD
<1>19. Reports((((a \o b) \o c) \o d) \o e, AE, V)
  BY <1>11, <1>14, <1>18, BothReports
<1> HIDE DEF AE
<1>20. Reports(((((a \o b) \o c) \o d) \o e) \o f, AF, V)
  BY <1>12, <1>14, <1>19, BothReports
<1> HIDE DEF AF
<1>21. Reports((((((a \o b) \o c) \o d) \o e) \o f) \o g, AF \cup G, V)
  BY <1>13, <1>14, <1>20, BothReports
<1>22. HireErrors(row, dk, jk) = ((((((a \o b) \o c) \o d) \o e) \o f) \o g)
  BY DEF HireErrors, a, b, c, d, e, f, g
<1> QED
  BY <1>15, <1>21, <1>22 DEF V

\* The records that a statement adds to those of the batch.
NewRejects(s) == SubSeq(req'[s].rejects, Len(req[s].rejects) + 1, Len(req'[s].rejects))

DefectRecords(s) ==
    {[raw_payload |-> Row(s), field |-> f, reason_code |-> Verdict(f, Row(s))] : f \in Defects(s)}

TellsDefects(s) ==
    /\ {NewRejects(s)[i] : i \in DOMAIN NewRejects(s)} = DefectRecords(s)
    /\ Len(NewRejects(s)) = Cardinality(Defects(s))

LEMMA RejectTells ==
    ASSUME TypeInv, NEW s \in Sessions, NEW errors, Reject(s, errors),
           Defects(s) \subseteq Field, Reports(errors, Defects(s), VerdictOn(Row(s)))
    PROVE  TellsDefects(s)
<1> DEFINE before == req[s].rejects
           added == RejectedRecords(Row(s), errors)
           new == NewRejects(s)
           Made(f) == [raw_payload |-> Row(s), field |-> f, reason_code |-> Verdict(f, Row(s))]
<1>1. /\ errors \in Seq(ErrorRecord) /\ Len(errors) \in Nat
      /\ Len(errors) = Cardinality(Defects(s))
      /\ \A i \in 1 .. Len(errors) :
           \E f \in Defects(s) : errors[i] = FieldError(f, VerdictOn(Row(s))[f])
      /\ \A f \in Defects(s) :
           \E i \in 1 .. Len(errors) : errors[i] = FieldError(f, VerdictOn(Row(s))[f])
  <2>1. errors \in Seq(ErrorRecord) /\ Len(errors) = Cardinality(Defects(s))
    BY DEF Reports
  <2>2. ASSUME NEW i \in 1 .. Len(errors)
        PROVE  \E f \in Defects(s) : errors[i] = FieldError(f, VerdictOn(Row(s))[f])
    BY DEF Reports
  <2>3. ASSUME NEW f \in Defects(s)
        PROVE  \E i \in 1 .. Len(errors) : errors[i] = FieldError(f, VerdictOn(Row(s))[f])
    BY DEF Reports
  <2>4. Len(errors) \in Nat
    BY <2>1
  <2> QED
    BY <2>1, <2>2, <2>3, <2>4
<1>2. before \in Seq(RejectedRecord) /\ req'[s].rejects = before \o added
  BY DEF Reject, TypeInv, TypeOK, Request
<1>3. /\ Len(added) = Len(errors) /\ DOMAIN added = 1 .. Len(errors)
      /\ \A i \in 1 .. Len(errors) :
           added[i] = [raw_payload |-> Row(s), reason_code |-> errors[i].reason_code,
                       field |-> errors[i].field]
      /\ \E S : added \in Seq(S)
  <2>1. added = [i \in 1 .. Len(errors) |->
                   [raw_payload |-> Row(s), reason_code |-> errors[i].reason_code,
                    field |-> errors[i].field]]
    BY DEF RejectedRecords
  <2> DEFINE S == {added[i] : i \in 1 .. Len(errors)}
  <2>2. added \in Seq(S)
    <3>1. \A i \in 1 .. Len(errors) : added[i] \in S
      OBVIOUS
    <3>2. added = [i \in 1 .. Len(errors) |-> added[i]]
      BY <2>1
    <3> HIDE DEF S, added
    <3>3. added \in [1 .. Len(errors) -> S]
      BY <3>1, <3>2
    <3> QED
      BY <1>1, <3>3
  <2>3. DOMAIN added = 1 .. Len(errors)
    BY <2>1
  <2>4. Len(added) = Len(errors)
    <3> HIDE DEF S, added
    <3> QED
      BY <1>1, <2>2, <2>3
  <2> QED
    BY <2>1, <2>2, <2>3, <2>4
<1> HIDE DEF added
<1>4. /\ Len(new) = Len(errors) /\ DOMAIN new = 1 .. Len(errors)
      /\ \A i \in 1 .. Len(errors) : new[i] = added[i]
  <2> DEFINE n == Len(before)
             all == before \o added
  <2>1. PICK S : added \in Seq(S)
    BY <1>3
  <2> DEFINE U == RejectedRecord \cup S
  <2>2. before \in Seq(U) /\ added \in Seq(U)
    <3> HIDE DEF before
    <3> QED
      BY <1>2, <2>1
  <2> HIDE DEF U, before
  <2>3. /\ n \in Nat /\ Len(all) = n + Len(errors)
        /\ \A i \in 1 .. Len(errors) : all[n + i] = added[i]
    BY <1>1, <1>3, <2>2
  <2>4. new = SubSeq(all, n + 1, n + Len(errors))
    BY <1>2, <2>3 DEF NewRejects, before
  <2>5. new = [i \in 1 .. Len(errors) |-> all[n + i]]
    <3> HIDE DEF all, n
    <3> QED
      BY <1>1, <2>3, <2>4
  <2>6. Len(new) = Len(errors) /\ DOMAIN new = 1 .. Len(errors)
    <3> HIDE DEF new, all, n
    <3>1. DOMAIN new = 1 .. Len(errors)
      BY <2>5
    <3> QED
      BY <1>1, <2>5, <3>1
  <2>7. \A i \in 1 .. Len(errors) : new[i] = added[i]
    <3> HIDE DEF new, all, n
    <3> QED
      BY <2>3, <2>5
  <2> QED
    BY <2>6, <2>7
<1>5. \A f \in Defects(s) : FieldError(f, VerdictOn(Row(s))[f]) = FieldError(f, Verdict(f, Row(s)))
  BY DEF VerdictOn
<1>6. {new[i] : i \in 1 .. Len(errors)} = {Made(f) : f \in Defects(s)}
  <2>1. ASSUME NEW i \in 1 .. Len(errors) PROVE \E f \in Defects(s) : new[i] = Made(f)
    <3>1. PICK f \in Defects(s) : errors[i] = FieldError(f, Verdict(f, Row(s)))
      BY <1>1, <1>5
    <3>2. errors[i].reason_code = Verdict(f, Row(s)) /\ errors[i].field = f
      BY <3>1 DEF FieldError
    <3> QED
      BY <1>3, <1>4, <3>2
  <2>2. ASSUME NEW f \in Defects(s) PROVE \E i \in 1 .. Len(errors) : new[i] = Made(f)
    <3>1. PICK i \in 1 .. Len(errors) : errors[i] = FieldError(f, Verdict(f, Row(s)))
      BY <1>1, <1>5
    <3>2. errors[i].reason_code = Verdict(f, Row(s)) /\ errors[i].field = f
      BY <3>1 DEF FieldError
    <3> QED
      BY <1>3, <1>4, <3>2
  <2> HIDE DEF new, Made
  <2> QED
    BY <2>1, <2>2
<1> QED
  BY <1>1, <1>4, <1>6 DEF TellsDefects, DefectRecords

LEMMA NothingTold ==
    ASSUME TypeInv, NEW s \in Sessions, UNCHANGED req, Reports(<< >>, Defects(s), VerdictOn(Row(s)))
    PROVE  TellsDefects(s)
<1>1. IsFiniteSet(Defects(s)) /\ Cardinality(Defects(s)) = 0
  BY DEF Reports
<1>2. Defects(s) = {}
  BY <1>1, FS_EmptySet
<1>3. Len(req[s].rejects) \in Nat
  BY DEF TypeInv, TypeOK, Request
<1>4. NewRejects(s) = << >>
  <2> DEFINE r == req[s].rejects
             n == Len(r)
  <2>1. NewRejects(s) = SubSeq(r, n + 1, n)
    BY DEF NewRejects
  <2> HIDE DEF r, n
  <2>2. n \in Nat => SubSeq(r, n + 1, n) = << >>
    OBVIOUS
  <2> QED
    BY <1>3, <2>1, <2>2 DEF n, r
<1> QED
  BY <1>1, <1>2, <1>4 DEF TellsDefects, DefectRecords

LEMMA StatementTells ==
    ASSUME TypeInv, Backings, NEW s \in Sessions, Progress(s),
           RejectDimension(s) \/ SelectDimension(s) \/ CheckJob(s)
    PROVE  TellsDefects(s)
<1> DEFINE t == req[s].target_table
           row == Row(s)
<1>1. CASE RejectDimension(s) \/ SelectDimension(s)
  <2> DEFINE errors == DimensionErrors(row, NameKey(t))
  <2>1. /\ t \in DimensionTables
        /\ Reject(s, errors) \/ (UNCHANGED req /\ errors = << >>)
    BY <1>1 DEF RejectDimension, SelectDimension, AtDimensionRow
  <2>2. Reports(errors, Defects(s), VerdictOn(row))
    BY <2>1, DimensionReports DEF Defects
  <2>3. Defects(s) \subseteq Field
    BY <2>1 DEF Defects, FieldsOf, DimensionTables, Field
  <2> HIDE DEF errors
  <2> QED
    BY <2>1, <2>2, <2>3, RejectTells, NothingTold
<1>2. CASE CheckJob(s)
  <2> DEFINE dk == local[s].department_known
             jk == Known(s, "jobs", row.job_id)
             errors == HireErrors(row, dk, jk)
  <2>1. /\ pc[s] = "check_job" /\ t = Hires
        /\ Reject(s, errors) \/ (UNCHANGED req /\ errors = << >>)
    BY <1>2 DEF CheckJob, TypeInv, RowInv
  <2>2. /\ DimensionsSeen(s, "departments") = dimensions["departments"]
        /\ DimensionsSeen(s, "jobs") = dimensions["jobs"]
    BY <2>1, CommittedCatalog DEF DimensionTables
  <2>3. dk = Known(s, "departments", row.department_id)
    BY <2>1, HireProgress DEF StaffProgress, Resting
  <2>4. /\ dk \in BOOLEAN /\ jk \in BOOLEAN
        /\ dk <=> row.department_id # Absent /\ dimensions["departments"][row.department_id] # NoRow
        /\ jk <=> row.job_id # Absent /\ dimensions["jobs"][row.job_id] # NoRow
    BY <2>2, <2>3 DEF Known
  <2>5. Reports(errors, Defects(s), VerdictOn(row))
    <3> HIDE DEF dk, jk, row
    <3>1. Reports(errors, {f \in FieldsOf(Hires) : Verdict(f, row) # "ok"}, VerdictOn(row))
      BY <2>4, HireReports
    <3> QED
      BY <2>1, <3>1 DEF Defects, row
  <2>6. Defects(s) \subseteq Field
    BY <2>1 DEF Defects, FieldsOf, Hires, Field
  <2> HIDE DEF errors
  <2> QED
    BY <2>1, <2>5, <2>6, RejectTells, NothingTold
<1> QED
  BY <1>1, <1>2

\* A lone handler leaves a record for every defect of a row and each once, with
\* the documented code: the seven checks of validate_hire overlap in no field,
\* and the department that it looked up is still the committed one when the
\* row is rejected (validation.py, _run_batch).
THEOREM LoneHandlerReportsDefects ==
    ASSUME OneHandler
    PROVE  Spec => EveryErrorReportedOnce
<1> DEFINE Told == \A s \in Sessions :
                     RejectDimension(s) \/ SelectDimension(s) \/ CheckJob(s) => TellsDefects(s)
<1>1. Consistent /\ Backings /\ Progresses => Told
  BY StatementTells DEF Consistent, Progresses
<1>2. Told <=> \A s \in Sessions :
        RejectDimension(s) \/ SelectDimension(s) \/ CheckJob(s) =>
           LET new == SubSeq(req'[s].rejects, Len(req[s].rejects) + 1, Len(req'[s].rejects))
           IN  /\ {new[i] : i \in DOMAIN new} =
                     {[raw_payload |-> Row(s), field |-> f,
                       reason_code |-> Verdict(f, Row(s))] : f \in Defects(s)}
               /\ Len(new) = Cardinality(Defects(s))
  BY DEF TellsDefects, NewRejects, DefectRecords
<1> HIDE DEF Told
<1> QED
  BY <1>1, <1>2, ProgressAlways, PTL DEF EveryErrorReportedOnce

=============================================================================
