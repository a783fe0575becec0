------------------------ MODULE IngestOutcomeProofs ------------------------
(***************************************************************************)
(* What a batch leaves behind, whatever handlers interleave.  The versions *)
(* of an employee chain: of two handlers that close the same version only  *)
(* one can insert the next one, and the other, which closes it again, is   *)
(* rolled back.  The hires refer to committed catalog rows.  And the answer*)
(* tells the client what happened to its batch.                            *)
(***************************************************************************)
EXTENDS IngestBatchProofs

-----------------------------------------------------------------------------
(***************************************************************************)
(* Chains of rows.                                                         *)
(***************************************************************************)

\* The chain of an employee depends on the rows of that employee only.
LEMMA SameRowsChain ==
    ASSUME NEW T, NEW U, NEW e,
           \A v \in VersionIds : v \in VersionsOf(T, e) \/ v \in VersionsOf(U, e) => U[v] = T[v]
    PROVE  /\ VersionsOf(U, e) = VersionsOf(T, e)
           /\ Chained(T, e) => Chained(U, e)
           /\ \A now : ChainedUntil(T, e, now) => ChainedUntil(U, e, now)
<1>1. VersionsOf(U, e) = VersionsOf(T, e)
  BY DEF VersionsOf
<1>2. \A v \in VersionsOf(T, e) : U[v] = T[v] /\ LaterVersions(U, e, v) = LaterVersions(T, e, v)
  BY <1>1 DEF VersionsOf, LaterVersions
<1>3. \A v \in VersionsOf(T, e) : MeetsNext(T, e, v) => MeetsNext(U, e, v)
  <2>1. \A v : LaterVersions(T, e, v) \subseteq VersionsOf(T, e)
    BY DEF LaterVersions
  <2> QED
    BY <1>2, <2>1 DEF MeetsNext
<1> QED
  BY <1>1, <1>2, <1>3 DEF Chained, ChainedUntil

\* VersionsChain, of any table and employee by employee.
TableChains(T) ==
    \A v \in VersionIds : T[v] # NoRow =>
        LET later == {w \in VersionIds : /\ T[w] # NoRow
                                         /\ T[w].employee_id = T[v].employee_id
                                         /\ w > v}
        IN  IF later = {}
              THEN T[v].is_current /\ T[v].valid_to = NoRow
              ELSE /\ ~ T[v].is_current
                   /\ \E w \in later : /\ \A u \in later : w <= u
                                       /\ T[v].valid_to = T[w].valid_from

LEMMA ChainPerEmployee ==
    ASSUME NEW T \in [VersionIds -> Version \cup {NoRow}]
    PROVE  TableChains(T) <=> \A e \in EmployeeIds : Chained(T, e)
<1>1. ASSUME NEW v \in VersionIds, T[v] # NoRow
      PROVE  T[v].employee_id \in EmployeeIds
  BY <1>1 DEF Version
<1>2. TableChains(T) <=>
        \A v \in VersionIds : T[v] # NoRow =>
          LET e == T[v].employee_id
          IN  IF LaterVersions(T, e, v) = {}
                THEN T[v].is_current /\ T[v].valid_to = NoRow
                ELSE MeetsNext(T, e, v)
  <2> DEFINE later(v) == {w \in VersionIds : /\ T[w] # NoRow
                                             /\ T[w].employee_id = T[v].employee_id
                                             /\ w > v}
  <2>1. \A v \in VersionIds : later(v) = LaterVersions(T, T[v].employee_id, v)
    BY DEF LaterVersions, VersionsOf
  <2>2. TableChains(T) <=>
          \A v \in VersionIds : T[v] # NoRow =>
            IF later(v) = {}
              THEN T[v].is_current /\ T[v].valid_to = NoRow
              ELSE /\ ~ T[v].is_current
                   /\ \E w \in later(v) : /\ \A u \in later(v) : w <= u
                                          /\ T[v].valid_to = T[w].valid_from
    BY DEF TableChains
  <2> HIDE DEF later
  <2> QED
    BY <2>1, <2>2 DEF MeetsNext
<1>3. ASSUME NEW e \in EmployeeIds, NEW v \in VersionIds
      PROVE  v \in VersionsOf(T, e) <=> T[v] # NoRow /\ T[v].employee_id = e
  BY DEF VersionsOf
<1>4. \A e : VersionsOf(T, e) \subseteq VersionIds
  BY DEF VersionsOf
<1> QED
  BY <1>1, <1>2, <1>3, <1>4 DEF Chained

LEMMA CommittedChains ==
    ASSUME TypeInv
    PROVE  VersionsChain <=> \A e \in EmployeeIds : Chained(versions, e)
<1>1. versions \in [VersionIds -> Version \cup {NoRow}]
  BY DEF TypeInv, TypeOK
<1> QED
  BY <1>1, ChainPerEmployee DEF VersionsChain, TableChains

LEMMA CommittedChainsNext ==
    ASSUME TypeInv'
    PROVE  VersionsChain' <=> \A e \in EmployeeIds : Chained(versions', e)
<1>1. versions' \in [VersionIds -> Version \cup {NoRow}]
  BY DEF TypeInv, TypeOK
<1> QED
  BY <1>1, ChainPerEmployee DEF VersionsChain, TableChains

\* An employee without versions.
LEMMA NoVersionsChain ==
    ASSUME NEW T, NEW e, VersionsOf(T, e) = {}
    PROVE  Chained(T, e) /\ \A now : ChainedUntil(T, e, now)
BY DEF Chained, ChainedUntil

-----------------------------------------------------------------------------
(***************************************************************************)
(* Steps of one session that publish nothing.                              *)
(***************************************************************************)
LEMMA ChainFrame ==
    ASSUME NEW o \in Sessions, UNCHANGED versions, wVersions'[o] = wVersions[o],
           pc'[o] = pc[o], req'[o] = req[o], local'[o] = local[o], ChainInv(o)
    PROVE  ChainInv(o)'
<1>1. Row(o)' = Row(o) /\ VersionsSeen(o)' = VersionsSeen(o)
  BY DEF Row, VersionsSeen
<1>2. Overtaken(o, Row(o).id)' <=> Overtaken(o, Row(o).id)
  BY <1>1 DEF Overtaken, Owns
<1> QED
  BY <1>1, <1>2 DEF ChainInv

LEMMA ChainsOfOneStep ==
    ASSUME Chains, TypeInv', NEW s \in Sessions, UNCHANGED versions, ChainInv(s)',
           \A o \in Sessions \ {s} : /\ wVersions'[o] = wVersions[o]
                                     /\ pc'[o] = pc[o] /\ req'[o] = req[o] /\ local'[o] = local[o]
    PROVE  Chains'
<1>1. VersionsChain'
  BY DEF Chains, VersionsChain
<1>2. \A o \in Sessions \ {s} : ChainInv(o)'
  BY ChainFrame DEF Chains
<1> QED
  BY <1>1, <1>2 DEF Chains

\* A step that writes no version and does not lead into the middle of
\* closing one.
WritesNoVersion(s) ==
    /\ UNCHANGED << versions, wVersions >>
    /\ pc[s] \notin {"add_first_version", "add_version"}
    /\ pc'[s] \notin {"close_update", "add_version"}
    /\ \A o \in Sessions \ {s} : pc'[o] = pc[o] /\ req'[o] = req[o] /\ local'[o] = local[o]

LEMMA NoVersionWritten ==
    ASSUME Chains, TypeInv', NEW s \in Sessions, WritesNoVersion(s)
    PROVE  Chains'
<1>1. VersionsSeen(s)' = VersionsSeen(s)
  BY DEF VersionsSeen, WritesNoVersion
<1>2. ChainInv(s)'
  BY <1>1 DEF Chains, ChainInv, WritesNoVersion
<1> QED
  BY <1>2, ChainsOfOneStep DEF WritesNoVersion

\* A rollback leaves the session with the committed versions.
LEMMA FailChains ==
    ASSUME TypeInv, Chains, TypeInv', NEW s \in Sessions, Fail(s)
    PROVE  Chains'
<1>1. /\ DropWrites(s) /\ Goto(s, "idle") /\ UNCHANGED << versions, req >>
      /\ local' = [local EXCEPT ![s] = NoReads]
  BY DEF Fail, Rollback, tables
<1>2. /\ pc'[s] = "idle" /\ \A o \in Sessions \ {s} : pc'[o] = pc[o] /\ local'[o] = local[o]
      /\ \A v \in VersionIds : wVersions'[s][v] = NoRow
      /\ \A o \in Sessions \ {s} : wVersions'[o] = wVersions[o]
  BY <1>1, GotoOthers, Dropped DEF TypeInv, TypeOK
<1>3. ASSUME NEW f \in EmployeeIds PROVE Chained(VersionsSeen(s)', f)
  <2>1. \A v \in VersionIds : VersionsSeen(s)'[v] = versions[v]
    BY <1>1, <1>2, SeenNext
  <2>2. Chained(versions, f)
    BY CommittedChains DEF Chains
  <2> QED
    BY <2>1, <2>2, SameRowsChain
<1>4. ChainInv(s)'
  BY <1>2, <1>3 DEF ChainInv
<1> QED
  BY <1>1, <1>2, <1>4, ChainsOfOneStep

-----------------------------------------------------------------------------
(***************************************************************************)
(* Closing the last version and opening the next one.                      *)
(***************************************************************************)
LEMMA CloseChain ==
    ASSUME NEW T, NEW U, NEW e, NEW now, NEW v \in VersionsOf(T, e),
           Chained(T, e), T[v].is_current,
           \A u \in VersionIds \ {v} : U[u] = T[u],
           U[v] # NoRow, U[v].employee_id = e, U[v].valid_from = T[v].valid_from,
           ~ U[v].is_current, U[v].valid_to = now
    PROVE  ChainedUntil(U, e, now)
<1>1. LaterVersions(T, e, v) = {}
  BY DEF Chained, MeetsNext
<1>2. /\ VersionsOf(U, e) = VersionsOf(T, e)
      /\ \A u : LaterVersions(U, e, u) = LaterVersions(T, e, u)
  BY DEF VersionsOf, LaterVersions
<1>3. ASSUME NEW u \in VersionsOf(T, e), u # v
      PROVE  LaterVersions(T, e, u) # {} /\ MeetsNext(U, e, u)
  <2>1. v \in LaterVersions(T, e, u)
    <3>1. u \in Nat /\ v \in Nat /\ ~ (u > v)
      BY <1>1 DEF VersionsOf, LaterVersions, VersionIds
    <3>2. v > u
      BY <1>3, <3>1
    <3> QED
      BY <3>2 DEF LaterVersions
  <2>2. MeetsNext(T, e, u)
    BY <2>1 DEF Chained
  <2>3. \A w \in LaterVersions(T, e, u) : U[w].valid_from = T[w].valid_from
    BY DEF LaterVersions, VersionsOf
  <2>4. U[u] = T[u]
    BY <1>3 DEF VersionsOf
  <2> QED
    BY <1>2, <2>1, <2>2, <2>3, <2>4 DEF MeetsNext
<1> QED
  BY <1>1, <1>2, <1>3 DEF ChainedUntil

LEMMA InsertChain ==
    ASSUME NEW T, NEW U, NEW e, NEW now, NEW v \in VersionIds,
           ChainedUntil(T, e, now), T[v] = NoRow, \A u \in VersionIds : u > v => T[u] = NoRow,
           \A u \in VersionIds \ {v} : U[u] = T[u],
           U[v] # NoRow, U[v].employee_id = e, U[v].valid_from = now,
           U[v].is_current, U[v].valid_to = NoRow
    PROVE  Chained(U, e)
<1>1. VersionsOf(U, e) = VersionsOf(T, e) \cup {v} /\ v \notin VersionsOf(T, e)
  BY DEF VersionsOf
<1>2. ASSUME NEW u \in VersionsOf(T, e)
      PROVE  v > u /\ ~ (u > v)
  <2>1. u \in Nat /\ v \in Nat /\ u # v /\ ~ (u > v)
    BY <1>1 DEF VersionsOf, VersionIds
  <2> QED
    BY <2>1
<1>3. LaterVersions(U, e, v) = {}
  <2>1. ~ (v > v)
    BY DEF VersionIds
  <2> QED
    BY <1>1, <1>2, <2>1 DEF LaterVersions
<1>4. ASSUME NEW u \in VersionsOf(T, e)
      PROVE  LaterVersions(U, e, u) = LaterVersions(T, e, u) \cup {v} /\ U[u] = T[u]
  BY <1>1, <1>2 DEF LaterVersions, VersionsOf
<1>5. ASSUME NEW u \in VersionsOf(T, e) PROVE MeetsNext(U, e, u)
  <2>1. CASE LaterVersions(T, e, u) = {}
    <3>1. ~ T[u].is_current /\ T[u].valid_to = now
      BY <2>1 DEF ChainedUntil
    <3>2. LaterVersions(U, e, u) = {v} /\ v <= v
      BY <1>4, <2>1 DEF VersionIds
    <3> QED
      BY <1>4, <3>1, <3>2 DEF MeetsNext
  <2>2. CASE LaterVersions(T, e, u) # {}
    <3>1. MeetsNext(T, e, u)
      BY <2>2 DEF ChainedUntil
    <3>2. PICK w \in LaterVersions(T, e, u) :
            /\ \A x \in LaterVersions(T, e, u) : w <= x
            /\ T[u].valid_to = T[w].valid_from
      BY <3>1 DEF MeetsNext
    <3>3. w \in VersionsOf(T, e)
      BY DEF LaterVersions
    <3>4. w <= v /\ U[w] = T[w]
      <4>1. w \in Nat /\ v \in Nat /\ v > w
        BY <1>2, <3>3 DEF VersionsOf, VersionIds
      <4> QED
        BY <1>4, <3>3, <4>1
    <3>5. \A x \in LaterVersions(U, e, u) : w <= x
      BY <1>4, <3>2, <3>4
    <3> QED
      BY <1>4, <3>1, <3>2, <3>4, <3>5 DEF MeetsNext
  <2> QED
    BY <2>1, <2>2
<1>6. \A u \in VersionsOf(T, e) : LaterVersions(U, e, u) # {}
  BY <1>4
<1> QED
  BY <1>1, <1>3, <1>5, <1>6 DEF Chained

\* Writing a version of one employee leaves the chains of the others alone.
LEMMA OtherChains ==
    ASSUME NEW T, NEW U, NEW f, NEW v \in VersionIds, Chained(T, f),
           \A u \in VersionIds \ {v} : U[u] = T[u],
           T[v] # NoRow => T[v].employee_id # f, U[v].employee_id # f
    PROVE  Chained(U, f)
<1>1. \A u \in VersionIds : u \in VersionsOf(T, f) \/ u \in VersionsOf(U, f) => U[u] = T[u]
  BY DEF VersionsOf
<1> QED
  BY <1>1, SameRowsChain

-----------------------------------------------------------------------------
(***************************************************************************)
(* The statements that close a version and insert the next one.            *)
(***************************************************************************)

\* An employee that a session sees, and does not work on, has a current version.
LEMMA SeesCurrent ==
    ASSUME Consistent, NEW s \in Sessions, NEW f \in EmployeeIds,
           Settled(s, f), EmployeesSeen(s)[f] # NoRow
    PROVE  CurrentIn(VersionsSeen(s), f) # {}
<1>1. CASE Touches(s, f)
  BY <1>1 DEF Settled, OneCurrent
<1>2. CASE ~ Touches(s, f)
  <2>1. employees[f] # NoRow
    BY <1>2, SeenType DEF Consistent, Touches
  <2>2. PICK v \in VersionIds : CurrentIn(versions, f) = {v}
    BY <2>1 DEF Consistent, OneVersionEach, OneVersion
  <2>3. versions[v] # NoRow /\ versions[v].employee_id = f /\ versions[v].is_current
    BY <2>2 DEF CurrentIn
  <2>4. wVersions[s][v] = NoRow
    BY <1>2, <2>3 DEF Consistent, FactsKept, Touches
  <2>5. VersionsSeen(s)[v] = versions[v]
    BY <2>4, SeenType DEF Consistent
  <2> QED
    BY <2>3, <2>5 DEF CurrentIn
<1> QED
  BY <1>1, <1>2

LEMMA CloseSelectChains ==
    ASSUME Consistent, Chains, TypeInv', NEW s \in Sessions, CloseSelect(s)
    PROVE  Chains'
<1> DEFINE e == Row(s).id
<1>1. TypeInv /\ pc[s] = "close_select" /\ e \in EmployeeIds
  BY HireAtWork DEF Consistent, CloseSelect
<1>2. CurrentIn(VersionsSeen(s), e) # {}
  <2>1. Settled(s, e) /\ EmployeesSeen(s)[e] # NoRow
    BY <1>1 DEF Consistent, SessionInv, Midway
  <2> QED
    BY <1>1, <2>1, SeesCurrent
<1>3. PICK v \in CurrentIn(VersionsSeen(s), e) :
        local' = [local EXCEPT ![s].target = v] /\ Goto(s, "close_update")
  BY <1>2 DEF CloseSelect
<1>4. UNCHANGED << versions, wVersions, req >>
  BY DEF CloseSelect, tables, writes
<1>5. /\ pc'[s] = "close_update" /\ local'[s].target = v
      /\ \A o \in Sessions \ {s} : pc'[o] = pc[o] /\ local'[o] = local[o]
  BY <1>1, <1>3, GotoOthers DEF TypeInv, TypeOK, Reads
<1>6. VersionsSeen(s)' = VersionsSeen(s) /\ VersionsSeen(s)[v].is_current
  BY <1>4 DEF VersionsSeen, CurrentIn
<1>7. ChainInv(s)'
  BY <1>1, <1>5, <1>6 DEF Chains, ChainInv
<1> QED
  BY <1>4, <1>5, <1>7, ChainsOfOneStep

LEMMA CloseUpdateChains ==
    ASSUME Consistent, Chains, TypeInv', NEW s \in Sessions, CloseUpdate(s),
           NEW e, e = Row(s).id, NEW v, v = local[s].target
    PROVE  Chains'
<1> DEFINE now == local[s].valid_from
<1>1. /\ TypeInv /\ pc[s] = "close_update" /\ e \in EmployeeIds
      /\ v \in VersionIds /\ VersionsSeen(s)[v] \in Version /\ VersionsSeen(s)[v].employee_id = e
      /\ VersionsSeen(s)[v].is_current \/ Overtaken(s, e)
      /\ now \in Nat
  <2>1. TypeInv /\ pc[s] = "close_update"
    BY DEF Consistent, CloseUpdate
  <2>2. e \in EmployeeIds /\ now \in Nat
    BY <2>1, HireAtWork DEF TypeInv, TypeOK, Reads
  <2>3. v \in VersionIds /\ VersionsSeen(s)[v] # NoRow /\ VersionsSeen(s)[v].employee_id = e
    BY <2>1 DEF Consistent, TargetInv, SessionInv
  <2>4. VersionsSeen(s)[v].is_current \/ Overtaken(s, e)
    BY <2>1 DEF Chains, ChainInv
  <2> QED
    BY <2>1, <2>2, <2>3, <2>4, SeenType
<1>2. UNCHANGED << employees, versions, wEmployees, req, local >> /\ Goto(s, "add_version")
  BY DEF CloseUpdate, tables
<1>3. PICK closed \in Version :
        /\ closed.employee_id = e /\ closed.valid_from = VersionsSeen(s)[v].valid_from
        /\ ~ closed.is_current /\ closed.valid_to = now
        /\ wVersions' = [wVersions EXCEPT ![s][v] = closed]
  <2> DEFINE row == Closed(VersionsSeen(s)[v], now)
  <2>1. /\ row \in Version
        /\ row.employee_id = e /\ row.valid_from = VersionsSeen(s)[v].valid_from
        /\ ~ row.is_current /\ row.valid_to = now
    BY <1>1 DEF Version, Closed
  <2>2. wVersions' = [wVersions EXCEPT ![s][v] = row]
    BY DEF CloseUpdate
  <2> HIDE DEF row
  <2> QED
    BY <2>1, <2>2
<1>4. /\ \A u \in VersionIds \ {v} : wVersions'[s][u] = wVersions[s][u]
      /\ \A o \in Sessions \ {s} : wVersions'[o] = wVersions[o]
      /\ VersionsSeen(s)'[v] = closed
      /\ \A u \in VersionIds \ {v} : VersionsSeen(s)'[u] = VersionsSeen(s)[u]
  <2>1. /\ wVersions'[s][v] = closed
        /\ \A u \in VersionIds \ {v} : wVersions'[s][u] = wVersions[s][u]
        /\ \A o \in Sessions \ {s} : wVersions'[o] = wVersions[o]
    BY <1>1, <1>3 DEF TypeInv, TypeOK
  <2>2. closed # NoRow /\ versions' = versions
    BY <1>2, NoRowDistinct
  <2> QED
    BY <1>1, <2>1, <2>2, SeenType, SeenNext
<1>5. /\ pc'[s] = "add_version" /\ Row(s)' = Row(s) /\ local'[s] = local[s]
      /\ \A o \in Sessions \ {s} : pc'[o] = pc[o]
  BY <1>1, <1>2, GotoOthers DEF Row
<1>6. \A f \in EmployeeIds : Chained(VersionsSeen(s), f)
  BY <1>1 DEF Chains, ChainInv
<1>7. \A f \in EmployeeIds \ {e} : Chained(VersionsSeen(s)', f)
  BY <1>1, <1>3, <1>4, <1>6, OtherChains
<1>8. ChainedUntil(VersionsSeen(s)', e, now) \/ Overtaken(s, e)'
  <2>1. CASE VersionsSeen(s)[v].is_current
    <3>1. v \in VersionsOf(VersionsSeen(s), e)
      BY <1>1, NoRowDistinct DEF VersionsOf
    <3>2. VersionsSeen(s)'[v] # NoRow /\ Chained(VersionsSeen(s), e)
      BY <1>1, <1>3, <1>4, <1>6, NoRowDistinct
    <3> HIDE DEF now
    <3> QED
      BY <1>3, <1>4, <2>1, <3>1, <3>2, CloseChain
  <2>2. CASE ~ VersionsSeen(s)[v].is_current
    <3>1. PICK u \in CurrentIn(versions, e) : wVersions[s][u] = NoRow
      BY <1>1, <2>2 DEF Overtaken, Owns
    <3>2. u \in VersionIds \ {v}
      BY <1>1, <2>2, <3>1, SeenType DEF CurrentIn
    <3> QED
      BY <1>2, <1>4, <3>1, <3>2 DEF Overtaken, Owns
  <2> QED
    BY <2>1, <2>2
<1>9. ChainInv(s)'
  BY <1>5, <1>7, <1>8 DEF ChainInv
<1> QED
  BY <1>2, <1>4, <1>5, <1>9, ChainsOfOneStep

LEMMA InsertVersionChains ==
    ASSUME Consistent, Chains, TypeInv', NEW s \in Sessions, InsertVersion(s),
           pc[s] \in {"add_first_version", "add_version"}, NEW e, e = Row(s).id
    PROVE  Chains'
<1> DEFINE now == local[s].valid_from
           inserted == NewVersion(Row(s), now)
<1>1. /\ TypeInv /\ e \in EmployeeIds /\ RowAttributes(Row(s)) \in Attributes /\ now \in Nat
      /\ versionSeq + 1 \in VersionIds /\ versionSeq \in Nat
  <2>1. TypeInv
    BY DEF Consistent
  <2>2. Row(s).id \in EmployeeIds /\ RowAttributes(Row(s)) \in Attributes
    BY <2>1, HireAtWork DEF Midway
  <2>3. local[s].valid_from \in Nat
    BY <2>1 DEF TypeInv, TypeOK, Reads
  <2>4. versionSeq \in Nat
    BY <2>1 DEF TypeInv, TypeOK
  <2>5. versionSeq + 1 \in VersionIds
    BY DEF InsertVersion
  <2> QED
    BY <2>1, <2>2, <2>3, <2>4, <2>5
<1>2. CASE CurrentIn(VersionsSeen(s), e) # {}
  BY <1>1, <1>2, FailChains DEF InsertVersion
<1>3. CASE CurrentIn(VersionsSeen(s), e) = {}
  <2>0. PICK v \in VersionIds : v = versionSeq + 1
    BY <1>1
  <2>1. /\ wVersions' = [wVersions EXCEPT ![s][v] = inserted]
        /\ UNCHANGED << employees, versions, wEmployees >>
        /\ IF pc[s] = "add_first_version"
             THEN Accept(s)
             ELSE Goto(s, "update_current") /\ UNCHANGED << req, local >>
    BY <1>3, <2>0 DEF InsertVersion, tables
  <2>2. /\ inserted \in Version
        /\ inserted.employee_id = e /\ inserted.valid_from = now
        /\ inserted.is_current /\ inserted.valid_to = NoRow
    BY <1>1 DEF Version, NewVersion
  <2> HIDE DEF inserted
  <2>3. /\ VersionsSeen(s)[v] = NoRow
        /\ \A u \in VersionIds : u > v => VersionsSeen(s)[u] = NoRow
    <3>1. v > versionSeq /\ \A u \in VersionIds : u > v => u > versionSeq
      BY <1>1, <2>0 DEF VersionIds
    <3> QED
      BY <1>1, <3>1, SeenType DEF Consistent, SequenceAhead
  <2>4. /\ \A o \in Sessions \ {s} : wVersions'[o] = wVersions[o]
        /\ VersionsSeen(s)'[v] = inserted
        /\ \A u \in VersionIds \ {v} : VersionsSeen(s)'[u] = VersionsSeen(s)[u]
    <3>1. UNCHANGED << employees, versions, wEmployees >>
      BY <2>1
    <3>2. wVersions' = [wVersions EXCEPT ![s][v] = inserted]
      BY <2>1
    <3>3. /\ wVersions'[s][v] = inserted
          /\ \A u \in VersionIds \ {v} : wVersions'[s][u] = wVersions[s][u]
          /\ \A o \in Sessions \ {s} : wVersions'[o] = wVersions[o]
      BY <1>1, <3>2 DEF TypeInv, TypeOK
    <3>4. inserted # NoRow
      BY <2>2, NoRowDistinct
    <3> QED
      BY <1>1, <3>1, <3>3, <3>4, SeenType, SeenNext
  <2>5. Owns(s, e)
    BY <1>1, <1>3, SeenType DEF Owns, CurrentIn
  <2>6. ChainedUntil(VersionsSeen(s), e, now)
    <3>1. CASE pc[s] = "add_version"
      BY <2>5, <3>1 DEF Chains, ChainInv, Overtaken
    <3>2. CASE pc[s] = "add_first_version"
      <4>1. /\ employees[e] = NoRow
            /\ \A u \in VersionIds : wVersions[s][u] # NoRow => wVersions[s][u].employee_id # e
        BY <3>2 DEF Consistent, SessionInv
      <4>2. \A u \in VersionIds : versions[u] # NoRow => versions[u].employee_id # e
        BY <1>1, <4>1 DEF Consistent, OneVersionEach, OneVersion
      <4>3. VersionsOf(VersionsSeen(s), e) = {}
        BY <1>1, <4>1, <4>2, SeenType DEF VersionsOf
      <4> QED
        BY <4>3, NoVersionsChain
    <3> QED
      BY <3>1, <3>2
  <2>7. Chained(VersionsSeen(s)', e)
    BY <2>2, <2>3, <2>4, <2>6, InsertChain, NoRowDistinct
  <2>8. ASSUME NEW f \in EmployeeIds PROVE Chained(VersionsSeen(s)', f)
    <3>1. CASE f = e
      BY <2>7, <3>1
    <3>2. CASE f # e
      <4>1. Chained(VersionsSeen(s), f)
        BY <3>2 DEF Chains, ChainInv
      <4> QED
        BY <2>2, <2>3, <2>4, <3>2, <4>1, OtherChains
    <3> QED
      BY <3>1, <3>2
  <2>9. /\ pc'[s] \in {"row", "update_current"}
        /\ \A o \in Sessions \ {s} : pc'[o] = pc[o] /\ req'[o] = req[o] /\ local'[o] = local[o]
    BY <1>1, <2>1, AcceptOthers, GotoOthers
  <2>10. ChainInv(s)'
    BY <2>8, <2>9 DEF ChainInv
  <2> QED
    BY <2>1, <2>4, <2>9, <2>10, ChainsOfOneStep
<1> QED
  BY <1>2, <1>3

-----------------------------------------------------------------------------
(***************************************************************************)
(* The commit.                                                             *)
(***************************************************************************)

\* What another session sees of an employee that s has not touched.
LEMMA UntouchedSeen ==
    ASSUME Consistent, TypeInv', NEW s \in Sessions, Commit(s), NEW o \in Sessions, o # s,
           NEW f \in EmployeeIds, ~ Touches(s, f)
    PROVE  /\ Chained(VersionsSeen(o), f) => Chained(VersionsSeen(o)', f)
           /\ \A now : ChainedUntil(VersionsSeen(o), f, now) => ChainedUntil(VersionsSeen(o)', f, now)
<1>1. TypeInv /\ wVersions'[o] = wVersions[o]
  BY CommitEffects DEF OthersKept
<1>2. \A v \in VersionIds :
        \/ versions[v] # NoRow /\ versions[v].employee_id = f
        \/ versions'[v] # NoRow /\ versions'[v].employee_id = f
        => versions'[v] = versions[v]
  BY UntouchedByCommit
<1>3. \A v \in VersionIds : v \in VersionsOf(VersionsSeen(o), f) \/ v \in VersionsOf(VersionsSeen(o)', f)
        => VersionsSeen(o)'[v] = VersionsSeen(o)[v]
  BY <1>1, <1>2, SeenType, SeenNext DEF VersionsOf
<1> QED
  BY <1>3, SameRowsChain

LEMMA OtherChainsAfterCommit ==
    ASSUME Consistent, Chains, VersionsChain', TypeInv', NEW s \in Sessions, Commit(s),
           NEW o \in Sessions, o # s, NEW e, e = Row(o).id, NEW t, t = local[o].target
    PROVE  ChainInv(o)'
<1>1. /\ TypeInv /\ TargetInv(o) /\ SessionInv(o) /\ ChainInv(o)
      /\ wVersions'[o] = wVersions[o]
      /\ pc'[o] = pc[o] /\ req'[o] = req[o] /\ local'[o] = local[o]
      /\ Row(o)' = Row(o)
  BY CommitEffects DEF Consistent, OthersKept, Row, Chains
<1>2. pc[o] \in {"close_update", "add_version"} => e \in EmployeeIds
  BY <1>1, HireAtWork DEF Midway
<1>3. ASSUME NEW f \in EmployeeIds, Chained(VersionsSeen(o), f),
             Settled(o, f) \/ (OneCurrent(o, f, RowAttributes(Row(o))) /\ Owns(o, f))
      PROVE  Chained(VersionsSeen(o)', f)
  <2>1. CASE ~ Touches(s, f)
    BY <1>3, <2>1, UntouchedSeen
  <2>2. CASE Touches(s, f)
    <3>1. ~ (EmployeesSeen(o)[f] # NoRow /\ Owns(o, f))
      BY <2>2, CommitEffects, NoOverlap
    <3>2. ~ Touches(o, f)
      BY <1>3, <3>1 DEF Settled, OneCurrent
    <3>3. \A v \in VersionIds : wVersions[o][v] # NoRow => wVersions[o][v].employee_id # f
      BY <3>2 DEF Touches
    <3>4. \A v \in VersionIds : wVersions[o][v] # NoRow => versions'[v] = versions[v]
      BY CommitEffects DEF Consistent, LocksExclusive
    <3>5. \A v \in VersionIds : wVersions[o][v] # NoRow /\ versions[v] # NoRow =>
            versions[v].employee_id # f
      BY <1>1, <3>3 DEF Consistent, FactsKept
    <3>6. \A v \in VersionIds :
            v \in VersionsOf(versions', f) \/ v \in VersionsOf(VersionsSeen(o)', f)
            => VersionsSeen(o)'[v] = versions'[v]
      BY <1>1, <3>3, <3>4, <3>5, SeenNext DEF VersionsOf
    <3>7. Chained(versions', f)
      BY CommittedChainsNext
    <3> QED
      BY <3>6, <3>7, SameRowsChain
  <2> QED
    BY <2>1, <2>2
<1>4. ASSUME NEW f \in EmployeeIds, ~ (pc[o] \in {"add_first_version", "add_version"} /\ f = e)
      PROVE  Chained(VersionsSeen(o)', f)
  <2>1. Chained(VersionsSeen(o), f)
    BY <1>1, <1>4 DEF ChainInv
  <2>2. Settled(o, f) \/ (OneCurrent(o, f, RowAttributes(Row(o))) /\ Owns(o, f))
    BY <1>1, <1>4 DEF SessionInv, Midway
  <2> QED
    BY <1>3, <2>1, <2>2
<1>5. ASSUME pc[o] = "close_update"
      PROVE  VersionsSeen(o)'[t].is_current \/ Overtaken(o, e)'
  <2>1. /\ t \in VersionIds /\ VersionsSeen(o)[t] # NoRow /\ VersionsSeen(o)[t].employee_id = e
        /\ VersionsSeen(o)[t].is_current \/ ~ Owns(o, e)
        /\ e \in EmployeeIds
    BY <1>1, <1>2, <1>5 DEF TargetInv, SessionInv, ChainInv, Overtaken
  <2>2. CASE versions'[t] = versions[t]
    <3>1. VersionsSeen(o)'[t] = VersionsSeen(o)[t]
      BY <1>1, <2>1, <2>2, SeenType, SeenNext
    <3> QED
      BY <1>1, <2>1, <3>1, OtherAfterCommit DEF Overtaken
  <2>3. CASE versions'[t] # versions[t]
    <3>1. wVersions[s][t] # NoRow /\ wVersions[o][t] = NoRow
      BY <2>1, <2>3, CommitEffects DEF Consistent, LocksExclusive
    <3>2. versions[t] # NoRow /\ versions[t].employee_id = e
      BY <1>1, <2>1, <3>1, SeenType
    <3>3. Touches(s, e)
      BY <2>1, <3>1, <3>2 DEF Consistent, FactsKept, Touches
    <3> QED
      BY <1>1, <2>1, <3>3, CommitOvertakes DEF Overtaken
  <2> QED
    BY <2>2, <2>3
<1>6. ASSUME pc[o] = "add_version"
      PROVE  ChainedUntil(VersionsSeen(o)', e, local[o].valid_from) \/ Overtaken(o, e)'
  <2>1. e \in EmployeeIds
    BY <1>2, <1>6
  <2>2. ChainedUntil(VersionsSeen(o), e, local[o].valid_from) \/ ~ Owns(o, e)
    BY <1>1, <1>6 DEF ChainInv, Overtaken
  <2>3. CASE Touches(s, e)
    BY <2>1, <2>3, CommitOvertakes DEF Overtaken
  <2>4. CASE ~ Touches(s, e)
    BY <2>1, <2>2, <2>4, UntouchedSeen, OtherAfterCommit DEF Overtaken
  <2> QED
    BY <2>3, <2>4
<1> QED
  BY <1>1, <1>4, <1>5, <1>6 DEF ChainInv

LEMMA CommitChains ==
    ASSUME Consistent, Chains, TypeInv', NEW s \in Sessions, Commit(s)
    PROVE  Chains'
<1>1. /\ versions' = VersionsSeen(s) /\ versions' \in [VersionIds -> Version \cup {NoRow}]
      /\ pc'[s] = "refresh" /\ pc[s] = "row"
      /\ \A v \in VersionIds : wVersions'[s][v] = NoRow
  BY CommitEffects DEF TypeInv, TypeOK, Commit
<1>2. \A f \in EmployeeIds : Chained(versions', f)
  BY <1>1 DEF Chains, ChainInv
<1>3. VersionsChain'
  BY <1>2, CommittedChainsNext
<1>4. ChainInv(s)'
  <2>1. \A v \in VersionIds : VersionsSeen(s)'[v] = versions'[v]
    BY <1>1, SeenNext
  <2>2. \A f \in EmployeeIds : Chained(VersionsSeen(s)', f)
    BY <1>2, <2>1, SameRowsChain
  <2> QED
    BY <1>1, <2>2 DEF ChainInv
<1>5. \A o \in Sessions \ {s} : ChainInv(o)'
  BY <1>3, OtherChainsAfterCommit
<1> QED
  BY <1>3, <1>4, <1>5 DEF Chains

-----------------------------------------------------------------------------
(***************************************************************************)
(* The theorem.                                                            *)
(***************************************************************************)

\* Every other statement writes no version.
LEMMA OtherStatements ==
    ASSUME Consistent, Chains, TypeInv', NEW s \in Sessions,
           \/ Receive(s) \/ RejectDimension(s) \/ SelectDimension(s) \/ InsertDimension(s)
           \/ UpdateDimension(s) \/ CheckDepartment(s) \/ CheckJob(s) \/ Exists(s)
           \/ AddEmployee(s) \/ GetCurrent(s) \/ UpdateCurrent(s) \/ Refresh(s)
    PROVE  Chains'
<1>1. TypeInv
  BY DEF Consistent
<1> USE DEF tables, writes
<1>2. Fail(s) \/ WritesNoVersion(s)
  <2>1. CASE Receive(s)
    <3>1. /\ pc[s] = "idle" /\ pc'[s] = "row" /\ \A o \in Sessions \ {s} : pc'[o] = pc[o]
          /\ UNCHANGED << versions, wVersions, local >>
      BY <1>1, <2>1, GotoOthers DEF Receive
    <3>2. PICK request : req' = [req EXCEPT ![s] = request]
      BY <2>1 DEF Receive
    <3>3. \A o \in Sessions \ {s} : req'[o] = req[o]
      BY <1>1, <3>2 DEF TypeInv, TypeOK
    <3> QED
      BY <3>1, <3>3 DEF WritesNoVersion
  <2>2. CASE RejectDimension(s)
    BY <1>1, <2>2, RejectOthers DEF RejectDimension, AtDimensionRow, WritesNoVersion
  <2>3. CASE SelectDimension(s) \/ CheckDepartment(s) \/ Exists(s)
    BY <1>1, <2>3, GotoOthers
    DEF SelectDimension, AtDimensionRow, CheckDepartment, Exists, WritesNoVersion, TypeInv, TypeOK
  <2>4. CASE InsertDimension(s) \/ UpdateDimension(s)
    BY <1>1, <2>4, AcceptOthers DEF InsertDimension, UpdateDimension, WritesNoVersion
  <2>5. CASE CheckJob(s)
    BY <1>1, <2>5, RejectOthers, GotoOthers DEF CheckJob, WritesNoVersion
  <2>6. CASE AddEmployee(s)
    BY <1>1, <2>6, GotoOthers DEF AddEmployee, WritesNoVersion, TypeInv, TypeOK
  <2>7. CASE GetCurrent(s)
    BY <1>1, <2>7, AcceptOthers, GotoOthers DEF GetCurrent, WritesNoVersion, TypeInv, TypeOK
  <2>8. CASE UpdateCurrent(s)
    BY <1>1, <2>8, AcceptOthers DEF UpdateCurrent, WritesNoVersion
  <2>9. CASE Refresh(s)
    BY <1>1, <2>9, GotoOthers DEF Refresh, WritesNoVersion
  <2> QED
    BY <2>1, <2>2, <2>3, <2>4, <2>5, <2>6, <2>7, <2>8, <2>9
<1> QED
  BY <1>1, <1>2, FailChains, NoVersionWritten

LEMMA ChainsInit == Init => Chains
<1> SUFFICES ASSUME Init PROVE Chains
  OBVIOUS
<1>1. /\ TypeInv
      /\ \A v \in VersionIds : versions[v] = NoRow
      /\ \A s \in Sessions : pc[s] = "idle" /\ \A v \in VersionIds : wVersions[s][v] = NoRow
  BY TypeInit DEF Init, NoVersions
<1>2. VersionsChain
  BY <1>1 DEF VersionsChain
<1>3. ASSUME NEW s \in Sessions PROVE ChainInv(s)
  <2>1. \A f : VersionsOf(VersionsSeen(s), f) = {}
    BY <1>1, SeenType DEF VersionsOf
  <2> QED
    BY <1>1, <2>1, NoVersionsChain DEF ChainInv
<1> QED
  BY <1>2, <1>3 DEF Chains

LEMMA ChainsStep == Consistent /\ Chains /\ [Next]_vars => Chains'
<1> SUFFICES ASSUME Consistent, Chains, [Next]_vars PROVE Chains'
  OBVIOUS
<1>1. TypeInv /\ TypeInv'
  BY TypeStep DEF Consistent
<1>2. CASE UNCHANGED vars
  <2>1. VersionsChain'
    <3>1. UNCHANGED versions
      BY <1>2 DEF vars, tables
    <3> QED
      BY <3>1 DEF Chains, VersionsChain
  <2>2. ASSUME NEW o \in Sessions PROVE ChainInv(o)'
    BY <1>2, ChainFrame DEF Chains, vars, tables, writes
  <2> QED
    BY <2>1, <2>2 DEF Chains
<1>3. CASE Quiet
  BY <1>2, <1>3 DEF Quiet
<1>4. ASSUME NEW s \in Sessions, Receive(s) \/ Statement(s) \/ Abort(s) \/ DeadlockVictim(s)
      PROVE  Chains'
  <2>1. CASE AddFirstVersion(s) \/ AddVersion(s)
    BY <1>1, <2>1, InsertVersionChains DEF AddFirstVersion, AddVersion
  <2>2. CASE CloseSelect(s)
    BY <1>1, <2>2, CloseSelectChains
  <2>3. CASE CloseUpdate(s)
    BY <1>1, <2>3, CloseUpdateChains
  <2>4. CASE Commit(s)
    BY <1>1, <2>4, CommitChains
  <2>5. CASE Abort(s) \/ DeadlockVictim(s)
    BY <1>1, <2>5, FailChains DEF Abort, DeadlockVictim
  <2>6. CASE \/ Receive(s) \/ RejectDimension(s) \/ SelectDimension(s) \/ InsertDimension(s)
             \/ UpdateDimension(s) \/ CheckDepartment(s) \/ CheckJob(s) \/ Exists(s)
             \/ AddEmployee(s) \/ GetCurrent(s) \/ UpdateCurrent(s) \/ Refresh(s)
    BY <1>1, <2>6, OtherStatements
  <2> QED
    BY <1>4, <2>1, <2>2, <2>3, <2>4, <2>5, <2>6, OutOfRangeIsAbort DEF Statement
<1> QED
  BY <1>2, <1>3, <1>4 DEF Next

\* The committed versions of an employee always chain: a closed one ends where
\* the next one begins and only the last one is open, although two handlers
\* may both select and close the same version (close_current, add_version and
\* the partial unique index ux_employee_versions_current).
THEOREM VersionsAlwaysChain == Spec => []VersionsChain
<1>1. Spec => [](Consistent /\ Chains)
  <2>1. Init => Consistent /\ Chains
    BY InvInit, ChainsInit DEF IInv
  <2>2. Consistent /\ Chains /\ [Next]_vars => (Consistent /\ Chains)'
    BY ConsistentStep, ChainsStep
  <2> QED
    BY <2>1, <2>2, PTL DEF Spec
<1>2. Chains => VersionsChain
  BY DEF Chains
<1> QED
  BY <1>1, <1>2, PTL

-----------------------------------------------------------------------------
(***************************************************************************)
(* Accepted hires refer to committed departments and jobs: validate_hire   *)
(* looks them up one after the other, statements before the INSERT, and    *)
(* nothing locks them in between.  Departments and jobs are never removed. *)
(***************************************************************************)
CatalogsGrow ==
    \A t \in DimensionTables, d \in DimensionIds :
        dimensions[t][d] # NoRow => dimensions'[t][d] # NoRow

LEMMA NextGrowsCatalogs ==
    ASSUME TypeInv, [Next]_vars
    PROVE  CatalogsGrow
<1>1. CASE UNCHANGED dimensions
  BY <1>1 DEF CatalogsGrow
<1>2. ASSUME NEW s \in Sessions, Commit(s) PROVE CatalogsGrow
  <2>1. \A t \in DimensionTables : dimensions'[t] = DimensionsSeen(s, t)
    BY <1>2 DEF Commit
  <2> QED
    BY <2>1, SeenType DEF CatalogsGrow
<1> QED
  BY <1>1, <1>2, OnlyCommitPublishes

LEMMA StillBacked ==
    ASSUME CatalogsGrow, NEW a \in Attributes, BackedBy(dimensions, a)
    PROVE  BackedBy(dimensions', a)
BY DEF CatalogsGrow, BackedBy, Attributes, DimensionTables

LEMMA EmployeeStillBacked ==
    ASSUME CatalogsGrow, NEW r \in Employee, EmployeeBacked(dimensions, r)
    PROVE  EmployeeBacked(dimensions', r)
BY StillBacked DEF EmployeeBacked, Employee

-----------------------------------------------------------------------------
(***************************************************************************)
(* What a step of one session must show.                                   *)
(***************************************************************************)

\* Only session s moves.
OthersStill(s) ==
    \A o \in Sessions \ {s} :
        /\ pc'[o] = pc[o] /\ req'[o] = req[o] /\ local'[o] = local[o]
        /\ wDimensions'[o] = wDimensions[o] /\ wEmployees'[o] = wEmployees[o]

\* The employees that session s writes are backed, and only those are published.
WritesOnlyBacked(s) ==
    /\ \A e \in EmployeeIds : wEmployees'[s][e] # NoRow =>
         \/ wEmployees'[s][e] = wEmployees[s][e]
         \/ EmployeeBacked(dimensions, wEmployees'[s][e])
    /\ \A e \in EmployeeIds : employees'[e] # NoRow =>
         employees'[e] \in {employees[e], wEmployees[s][e]}

LEMMA WorkStillBacked ==
    ASSUME TypeInv, CatalogsGrow, NEW o \in Sessions, WorkBacked(o),
           pc'[o] = pc[o], req'[o] = req[o], local'[o] = local[o],
           wDimensions'[o] = wDimensions[o]
    PROVE  WorkBacked(o)'
<1>1. Row(o)' = Row(o)
  BY DEF Row
<1>2. pc[o] \in Persisting => BackedBy(dimensions', RowAttributes(Row(o)))
  <2>1. pc[o] \in Persisting => RowAttributes(Row(o)) \in Attributes
    BY HireAtWork DEF Persisting
  <2> QED
    BY <2>1, StillBacked DEF WorkBacked
<1>3. pc[o] = "check_job" /\ local[o].department_known =>
        /\ Row(o).department_id \in DimensionIds
        /\ dimensions'["departments"][Row(o).department_id] # NoRow
  BY DEF WorkBacked, CatalogsGrow, DimensionTables
<1> QED
  BY <1>1, <1>2, <1>3 DEF WorkBacked

LEMMA OneSessionBacks ==
    ASSUME TypeInv, TypeInv', Backings, CatalogsGrow, NEW s \in Sessions,
           OthersStill(s), WritesOnlyBacked(s), WorkBacked(s)'
    PROVE  Backings'
<1>1. ASSUME NEW o \in Sessions, NEW e \in EmployeeIds, wEmployees'[o][e] # NoRow
      PROVE  EmployeeBacked(dimensions', wEmployees'[o][e])
  <2>1. wEmployees'[o][e] \in Employee
    BY <1>1 DEF TypeInv, TypeOK
  <2>2. EmployeeBacked(dimensions, wEmployees'[o][e])
    <3>1. \/ wEmployees'[o][e] = wEmployees[o][e]
          \/ EmployeeBacked(dimensions, wEmployees'[o][e])
      BY <1>1 DEF WritesOnlyBacked, OthersStill
    <3>2. wEmployees[o][e] # NoRow => EmployeeBacked(dimensions, wEmployees[o][e])
      BY DEF Backings, WritesBacked
    <3> QED
      BY <1>1, <3>1, <3>2
  <2> QED
    BY <2>1, <2>2, EmployeeStillBacked
<1>2. ASSUME NEW e \in EmployeeIds, employees'[e] # NoRow
      PROVE  EmployeeBacked(dimensions', employees'[e])
  <2>1. employees'[e] \in Employee
    BY <1>2 DEF TypeInv, TypeOK
  <2>2. EmployeeBacked(dimensions, employees'[e])
    <3>1. employees'[e] = employees[e] \/ employees'[e] = wEmployees[s][e]
      BY <1>2 DEF WritesOnlyBacked
    <3>2. wEmployees[s][e] # NoRow => EmployeeBacked(dimensions, wEmployees[s][e])
      BY DEF Backings, WritesBacked
    <3>3. employees[e] # NoRow => EmployeeBacked(dimensions, employees[e])
      BY DEF Backings, ReferencesKnown, EmployeeBacked, BackedBy
    <3> QED
      BY <1>2, <3>1, <3>2, <3>3
  <2> QED
    BY <2>1, <2>2, EmployeeStillBacked
<1>3. ASSUME NEW o \in Sessions PROVE WorkBacked(o)'
  BY WorkStillBacked DEF Backings, OthersStill
<1>4. ReferencesKnown'
  BY <1>2 DEF ReferencesKnown, EmployeeBacked, BackedBy
<1> QED
  BY <1>1, <1>3, <1>4 DEF Backings, WritesBacked

\* A statement that leaves the employees alone.
LEMMA NoEmployeeWritten ==
    ASSUME NEW s \in Sessions, UNCHANGED << employees, wEmployees >>
    PROVE  WritesOnlyBacked(s)
BY DEF WritesOnlyBacked

\* Between two rows, and at the upsert of a department or job.
LEMMA RowWork ==
    ASSUME NEW s \in Sessions, WorkBacked(s), pc'[s] \in {"row", "upsert"},
           req'[s].target_table = req[s].target_table,
           req[s].target_table = Hires => wDimensions'[s] = wDimensions[s]
    PROVE  WorkBacked(s)'
BY DEF WorkBacked, Resting, Persisting, Midway

\* From one statement of _persist_hire to the next.
LEMMA PersistWork ==
    ASSUME TypeInv, CatalogsGrow, NEW s \in Sessions, WorkBacked(s),
           pc[s] \in Persisting, pc'[s] \in Persisting,
           req'[s] = req[s], wDimensions'[s] = wDimensions[s]
    PROVE  WorkBacked(s)'
<1>1. Row(s)' = Row(s)
  BY DEF Row
<1>2. BackedBy(dimensions', RowAttributes(Row(s)))
  <2>1. RowAttributes(Row(s)) \in Attributes
    BY HireAtWork DEF Persisting
  <2> QED
    BY <2>1, StillBacked DEF WorkBacked
<1> QED
  BY <1>1, <1>2 DEF WorkBacked, Persisting, Midway

\* A handler that rests has no uncommitted writes.
LEMMA RestWork ==
    ASSUME NEW s \in Sessions, pc'[s] \in Resting, wDimensions'[s] = NoDimensions
    PROVE  WorkBacked(s)'
BY DEF WorkBacked, Resting, Persisting, Midway

LEMMA DropsAll ==
    ASSUME TypeInv, NEW s \in Sessions, DropWrites(s)
    PROVE  /\ wDimensions'[s] = NoDimensions
           /\ \A e \in EmployeeIds : wEmployees'[s][e] = NoRow
           /\ \A o \in Sessions \ {s} : /\ wDimensions'[o] = wDimensions[o]
                                        /\ wEmployees'[o] = wEmployees[o]
BY DEF DropWrites, TypeInv, TypeOK, NoEmployees

LEMMA FailBacks ==
    ASSUME TypeInv, NEW s \in Sessions, Fail(s)
    PROVE  OthersStill(s) /\ WritesOnlyBacked(s) /\ WorkBacked(s)'
<1>1. /\ DropWrites(s) /\ Goto(s, "idle") /\ UNCHANGED << employees, req >>
      /\ local' = [local EXCEPT ![s] = NoReads]
  BY DEF Fail, Rollback, tables
<1>2. pc'[s] = "idle" /\ \A o \in Sessions \ {s} : pc'[o] = pc[o] /\ local'[o] = local[o]
  BY <1>1, GotoOthers DEF TypeInv, TypeOK
<1> QED
  BY <1>1, <1>2, DropsAll, RestWork DEF OthersStill, WritesOnlyBacked, Resting

-----------------------------------------------------------------------------
(***************************************************************************)
(* The statements.                                                         *)
(***************************************************************************)
LEMMA AcceptRow ==
    ASSUME TypeInv, NEW s \in Sessions, Accept(s)
    PROVE  pc'[s] = "row" /\ req'[s].target_table = req[s].target_table
BY DEF Accept, Goto, TypeInv, TypeOK, Request

LEMMA RejectRow ==
    ASSUME TypeInv, NEW s \in Sessions, NEW errors, Reject(s, errors)
    PROVE  pc'[s] = "row" /\ req'[s].target_table = req[s].target_table
BY DEF Reject, Goto, TypeInv, TypeOK, Request

Backs(s) == OthersStill(s) /\ WritesOnlyBacked(s) /\ WorkBacked(s)'

LEMMA ReceiveBacks ==
    ASSUME TypeInv, Backings, NEW s \in Sessions, Receive(s)
    PROVE  Backs(s)
<1>1. /\ pc[s] = "idle" /\ pc'[s] = "row" /\ \A o \in Sessions \ {s} : pc'[o] = pc[o]
      /\ UNCHANGED << employees, wEmployees, wDimensions, local >>
  BY GotoOthers DEF Receive, tables, writes
<1>2. PICK request : req' = [req EXCEPT ![s] = request]
  BY DEF Receive
<1>3. \A o \in Sessions \ {s} : req'[o] = req[o]
  BY <1>2 DEF TypeInv, TypeOK
<1>4. wDimensions[s] = NoDimensions
  BY <1>1 DEF Backings, WorkBacked, Resting
<1>5. WorkBacked(s)'
  BY <1>1, <1>4 DEF WorkBacked, Persisting, Midway
<1> QED
  BY <1>1, <1>3, <1>5, NoEmployeeWritten DEF Backs, OthersStill

LEMMA DimensionBacks ==
    ASSUME TypeInv, Backings, NEW s \in Sessions,
           RejectDimension(s) \/ SelectDimension(s) \/ InsertDimension(s) \/ UpdateDimension(s)
    PROVE  Backs(s)
<1> USE DEF tables, writes, sequences
<1>0. WorkBacked(s) /\ DOMAIN wDimensions = Sessions
  BY DEF Backings, TypeInv, TypeOK
<1>1. CASE RejectDimension(s)
  <2>1. UNCHANGED << employees, wEmployees, wDimensions >>
    BY <1>1 DEF RejectDimension
  <2>2. PICK errors : Reject(s, errors)
    BY <1>1 DEF RejectDimension
  <2>3. WorkBacked(s)'
    BY <1>0, <2>1, <2>2, RejectRow, RowWork
  <2> QED
    BY <2>1, <2>2, <2>3, RejectOthers, NoEmployeeWritten DEF Backs, OthersStill
<1>2. CASE SelectDimension(s)
  <2>1. /\ UNCHANGED << employees, wEmployees, wDimensions, req >>
        /\ Goto(s, "upsert")
        /\ \A o \in Sessions \ {s} : local'[o] = local[o]
    BY <1>2 DEF SelectDimension, TypeInv, TypeOK
  <2>2. WorkBacked(s)'
    BY <1>0, <2>1, GotoOthers, RowWork
  <2> QED
    BY <2>1, <2>2, GotoOthers, NoEmployeeWritten DEF Backs, OthersStill
<1>3. CASE (InsertDimension(s) /\ ~ Fail(s)) \/ UpdateDimension(s)
  <2>1. /\ pc[s] = "upsert" /\ Accept(s)
        /\ UNCHANGED << employees, wEmployees >>
        /\ \/ UNCHANGED wDimensions
           \/ WriteDimension(s, req[s].target_table, Row(s).id, Row(s).name)
    BY <1>3 DEF InsertDimension, UpdateDimension
  <2>2. req[s].target_table # Hires
    BY <2>1 DEF TypeInv, RowInv, DimensionTables, Hires
  <2>3. \A o \in Sessions \ {s} : wDimensions'[o] = wDimensions[o]
    BY <1>0, <2>1 DEF WriteDimension
  <2>4. WorkBacked(s)'
    BY <1>0, <2>1, <2>2, AcceptRow, RowWork
  <2> QED
    BY <2>1, <2>3, <2>4, AcceptOthers, NoEmployeeWritten DEF Backs, OthersStill
<1>4. CASE Fail(s)
  BY <1>4, FailBacks DEF Backs
<1> QED
  BY <1>1, <1>2, <1>3, <1>4

LEMMA CheckBacks ==
    ASSUME TypeInv, Backings, CatalogsGrow, NEW s \in Sessions, CheckDepartment(s) \/ CheckJob(s)
    PROVE  Backs(s)
<1> USE DEF tables, writes, sequences
<1>0. WorkBacked(s)
  BY DEF Backings
<1>1. /\ MoreRows(s) /\ req[s].target_table = Hires
      /\ UNCHANGED << dimensions, employees, wEmployees, wDimensions >>
  BY DEF CheckDepartment, CheckJob, TypeInv, RowInv
<1>2. Row(s) \in HireRow
  BY <1>1, RowType
<1>3. \A t \in DimensionTables, d \in DimensionIds : DimensionsSeen(s, t)[d] = dimensions[t][d]
  <2>1. wDimensions[s] = NoDimensions
    BY <1>0, <1>1 DEF WorkBacked
  <2> QED
    BY <2>1, SeenType DEF NoDimensions
<1>4. CASE CheckDepartment(s)
  <2>1. /\ pc'[s] = "check_job" /\ UNCHANGED req
        /\ \A o \in Sessions \ {s} : pc'[o] = pc[o] /\ local'[o] = local[o]
        /\ local'[s].department_known = Known(s, "departments", Row(s).department_id)
        /\ Row(s)' = Row(s)
    BY <1>4, GotoOthers DEF CheckDepartment, TypeInv, TypeOK, Reads, Row
  <2>2. local'[s].department_known =>
          /\ Row(s).department_id \in DimensionIds
          /\ dimensions["departments"][Row(s).department_id] # NoRow
    BY <1>2, <1>3, <2>1 DEF Known, HireRow, DimensionTables
  <2>3. WorkBacked(s)'
    BY <1>0, <1>1, <2>1, <2>2 DEF WorkBacked, Resting, Persisting, Midway
  <2> QED
    BY <1>1, <2>1, <2>3, NoEmployeeWritten DEF Backs, OthersStill
<1>5. CASE CheckJob(s)
  <2> DEFINE known == Known(s, "jobs", Row(s).job_id)
             errors == HireErrors(Row(s), local[s].department_known, known)
  <2>1. /\ pc[s] = "check_job"
        /\ IF errors # << >>
             THEN Reject(s, errors)
             ELSE Goto(s, "exists") /\ UNCHANGED << req, local >>
    BY <1>5 DEF CheckJob
  <2>2. errors = << >> =>
          /\ local[s].department_known /\ known
          /\ Row(s).department_id # Absent /\ Row(s).job_id # Absent
    <3>1. local[s].department_known \in BOOLEAN /\ known \in BOOLEAN
      BY DEF TypeInv, TypeOK, Reads, Known
    <3> HIDE DEF known
    <3> QED
      BY <1>2, <3>1, HireErrorsEmpty
  <2>3. known => dimensions["jobs"][Row(s).job_id] # NoRow
    BY <1>2, <1>3 DEF Known, HireRow, DimensionTables
  <2> HIDE DEF known, errors
  <2>4. CASE errors # << >>
    <3>1. WorkBacked(s)'
      BY <1>0, <1>1, <2>1, <2>4, RejectRow, RowWork
    <3> QED
      BY <1>1, <2>1, <2>4, <3>1, RejectOthers, NoEmployeeWritten DEF Backs, OthersStill
  <2>5. CASE errors = << >>
    <3>1. /\ pc'[s] = "exists" /\ UNCHANGED << req, local >> /\ Row(s)' = Row(s)
          /\ \A o \in Sessions \ {s} : pc'[o] = pc[o]
      BY <2>1, <2>5, GotoOthers DEF Row
    <3>2. BackedBy(dimensions, RowAttributes(Row(s)))
      BY <1>0, <2>1, <2>2, <2>3, <2>5 DEF WorkBacked, BackedBy, RowAttributes
    <3>3. WorkBacked(s)'
      BY <1>0, <1>1, <3>1, <3>2 DEF WorkBacked, Resting, Persisting, Midway
    <3> QED
      BY <1>1, <3>1, <3>3, NoEmployeeWritten DEF Backs, OthersStill
  <2> QED
    BY <2>4, <2>5
<1> QED
  BY <1>4, <1>5

\* The statements of _persist_hire that write no employee.
LEMMA PersistBacks ==
    ASSUME TypeInv, Backings, CatalogsGrow, NEW s \in Sessions,
           \/ Exists(s) \/ GetCurrent(s) \/ CloseSelect(s) \/ CloseUpdate(s)
           \/ AddFirstVersion(s) \/ AddVersion(s)
    PROVE  Backs(s)
<1> USE DEF tables, writes, sequences
<1>0. WorkBacked(s) /\ pc[s] \in Persisting
  BY DEF Backings, Exists, GetCurrent, CloseSelect, CloseUpdate, AddFirstVersion, AddVersion,
         Persisting, Midway
<1>1. CASE Fail(s)
  BY <1>1, FailBacks DEF Backs
<1>2. CASE Accept(s) /\ UNCHANGED << employees, wEmployees, wDimensions >>
  <2>1. WorkBacked(s)'
    BY <1>0, <1>2, AcceptRow, RowWork
  <2> QED
    BY <1>2, <2>1, AcceptOthers, NoEmployeeWritten DEF Backs, OthersStill
<1>3. ASSUME NEW label \in Persisting, Goto(s, label),
             UNCHANGED << req, employees, wEmployees, wDimensions >>,
             \A o \in Sessions \ {s} : local'[o] = local[o]
      PROVE  Backs(s)
  <2>1. WorkBacked(s)'
    BY <1>0, <1>3, GotoOthers, PersistWork
  <2> QED
    BY <1>3, <2>1, GotoOthers, NoEmployeeWritten DEF Backs, OthersStill
<1>4. CASE Exists(s)
  BY <1>3, <1>4 DEF Exists, Persisting
<1>5. CASE GetCurrent(s)
  <2>1. \/ Fail(s)
        \/ Accept(s) /\ UNCHANGED << employees, wEmployees, wDimensions >>
        \/ /\ Goto(s, "close_select") /\ UNCHANGED << req, employees, wEmployees, wDimensions >>
           /\ local' = [local EXCEPT ![s].valid_from = clock]
    BY <1>5 DEF GetCurrent
  <2> QED
    BY <1>1, <1>2, <1>3, <2>1 DEF Persisting, TypeInv, TypeOK
<1>6. CASE CloseSelect(s)
  <2>1. \A o \in Sessions \ {s} : local'[o] = local[o]
    BY <1>6 DEF CloseSelect, TypeInv, TypeOK
  <2>2. /\ Goto(s, "add_version") \/ Goto(s, "close_update")
        /\ UNCHANGED << req, employees, wEmployees, wDimensions >>
    BY <1>6 DEF CloseSelect
  <2> QED
    BY <1>3, <2>1, <2>2 DEF Persisting, Midway
<1>7. CASE CloseUpdate(s)
  BY <1>3, <1>7 DEF CloseUpdate, Persisting, Midway
<1>8. CASE AddFirstVersion(s) \/ AddVersion(s)
  <2>1. \/ Fail(s)
        \/ Accept(s) /\ UNCHANGED << employees, wEmployees, wDimensions >>
        \/ /\ Goto(s, "update_current")
           /\ UNCHANGED << req, local, employees, wEmployees, wDimensions >>
    BY <1>8 DEF AddFirstVersion, AddVersion, InsertVersion
  <2> QED
    BY <1>1, <1>2, <1>3, <2>1 DEF Persisting, Midway
<1> QED
  BY <1>4, <1>5, <1>6, <1>7, <1>8

\* A new employee refers to what its row refers to.
LEMMA AddEmployeeBacks ==
    ASSUME TypeInv, Backings, CatalogsGrow, NEW s \in Sessions, AddEmployee(s)
    PROVE  Backs(s)
<1> DEFINE e == Row(s).id
           r == NewEmployee(Row(s))
<1>0. WorkBacked(s) /\ pc[s] = "add_employee"
  BY DEF Backings, AddEmployee
<1>1. CASE Fail(s)
  BY <1>1, FailBacks DEF Backs
<1>2. CASE ~ Fail(s)
  <2>1. /\ wEmployees' = [wEmployees EXCEPT ![s][e] = r]
        /\ Goto(s, "add_first_version") /\ UNCHANGED << req, employees, wDimensions >>
        /\ \A o \in Sessions \ {s} : local'[o] = local[o]
    BY <1>2 DEF AddEmployee, tables, TypeInv, TypeOK
  <2>2. EmployeeBacked(dimensions, r)
    BY <1>0 DEF WorkBacked, Persisting, EmployeeBacked, NewEmployee
  <2> HIDE DEF e, r
  <2>3. WritesOnlyBacked(s)
    BY <2>1, <2>2 DEF WritesOnlyBacked, TypeInv, TypeOK
  <2>4. WorkBacked(s)'
    BY <1>0, <2>1, GotoOthers, PersistWork DEF Persisting, Midway
  <2>5. \A o \in Sessions \ {s} : wEmployees'[o] = wEmployees[o]
    BY <2>1 DEF TypeInv, TypeOK
  <2> QED
    BY <2>1, <2>3, <2>4, <2>5, GotoOthers DEF Backs, OthersStill
<1> QED
  BY <1>1, <1>2

\* A transfer keeps what the employee was hired as, as the session sees it.
LEMMA UpdateCurrentBacks ==
    ASSUME TypeInv, Backings, CatalogsGrow, NEW s \in Sessions, UpdateCurrent(s)
    PROVE  Backs(s)
<1> DEFINE e == Row(s).id
           r == EmployeesSeen(s)[e]
           n == Transferred(r, RowAttributes(Row(s)))
<1>0. WorkBacked(s) /\ WritesBacked(s) /\ ReferencesKnown /\ pc[s] = "update_current"
  BY DEF Backings, UpdateCurrent
<1>1. CASE Fail(s)
  BY <1>1, FailBacks DEF Backs
<1>2. CASE ~ Fail(s)
  <2>1. /\ r # NoRow /\ Accept(s) /\ UNCHANGED << employees, wDimensions >>
        /\ \/ UNCHANGED wEmployees
           \/ wEmployees' = [wEmployees EXCEPT ![s][e] = n]
    BY <1>2 DEF UpdateCurrent, tables
  <2>2. e \in EmployeeIds
    BY <1>0, HireAtWork DEF Midway
  <2>3. r \in Employee /\ EmployeeBacked(dimensions, r)
    <3>1. r = IF wEmployees[s][e] = NoRow THEN employees[e] ELSE wEmployees[s][e]
      BY <2>2, SeenType
    <3>2. employees[e] # NoRow => EmployeeBacked(dimensions, employees[e])
      BY <1>0, <2>2 DEF ReferencesKnown, EmployeeBacked, BackedBy
    <3>3. r \in Employee \cup {NoRow}
      BY <2>2, SeenType
    <3> HIDE DEF r, e
    <3> QED
      BY <1>0, <2>1, <2>2, <3>1, <3>2, <3>3 DEF WritesBacked
  <2>4. EmployeeBacked(dimensions, n)
    <3>1. BackedBy(dimensions, RowAttributes(Row(s)))
      BY <1>0 DEF WorkBacked, Persisting, Midway
    <3> HIDE DEF r
    <3> QED
      BY <2>3, <3>1 DEF EmployeeBacked, Transferred, Employee
  <2> HIDE DEF e, n, r
  <2>5. WritesOnlyBacked(s)
    BY <2>1, <2>4 DEF WritesOnlyBacked, TypeInv, TypeOK
  <2>6. WorkBacked(s)'
    BY <1>0, <2>1, AcceptRow, RowWork
  <2>7. \A o \in Sessions \ {s} : wEmployees'[o] = wEmployees[o]
    BY <2>1 DEF TypeInv, TypeOK
  <2> QED
    BY <2>1, <2>5, <2>6, <2>7, AcceptOthers DEF Backs, OthersStill
<1> QED
  BY <1>1, <1>2

LEMMA EndBacks ==
    ASSUME TypeInv, Backings, NEW s \in Sessions, Commit(s) \/ Refresh(s)
    PROVE  Backs(s)
<1> USE DEF tables, writes, sequences
<1>1. CASE Commit(s)
  <2>1. /\ employees' = EmployeesSeen(s) /\ DropWrites(s) /\ Goto(s, "refresh")
        /\ UNCHANGED << req, local >>
    BY <1>1 DEF Commit
  <2>2. WorkBacked(s)'
    BY <2>1, DropsAll, GotoOthers, RestWork DEF Resting
  <2>3. WritesOnlyBacked(s)
    BY <2>1, DropsAll, SeenType DEF WritesOnlyBacked
  <2> QED
    BY <2>1, <2>2, <2>3, DropsAll, GotoOthers DEF Backs, OthersStill
<1>2. CASE Refresh(s)
  <2>1. /\ pc[s] = "refresh" /\ Goto(s, "idle")
        /\ UNCHANGED << employees, wEmployees, wDimensions, req, local >>
    BY <1>2 DEF Refresh
  <2>2. wDimensions[s] = NoDimensions
    BY <2>1 DEF Backings, WorkBacked, Resting
  <2>3. WorkBacked(s)'
    BY <2>1, <2>2, GotoOthers, RestWork DEF Resting
  <2> QED
    BY <2>1, <2>3, GotoOthers, NoEmployeeWritten DEF Backs, OthersStill
<1> QED
  BY <1>1, <1>2

-----------------------------------------------------------------------------
LEMMA BackingsInit == Init => Backings
<1> SUFFICES ASSUME Init PROVE Backings
  OBVIOUS
<1>1. \A e \in EmployeeIds : employees[e] = NoRow
  BY DEF Init, NoEmployees
<1>2. ASSUME NEW s \in Sessions
      PROVE  /\ pc[s] = "idle" /\ wDimensions[s] = NoDimensions
             /\ \A e \in EmployeeIds : wEmployees[s][e] = NoRow
  BY DEF Init, NoEmployees
<1> QED
  BY <1>1, <1>2 DEF Backings, ReferencesKnown, WritesBacked, WorkBacked, Resting, Persisting, Midway

LEMMA BackingsStep == TypeInv /\ TypeInv' /\ Backings /\ [Next]_vars => Backings'
<1> SUFFICES ASSUME TypeInv, TypeInv', Backings, [Next]_vars PROVE Backings'
  OBVIOUS
<1>0. CatalogsGrow
  BY NextGrowsCatalogs
<1>1. CASE UNCHANGED vars
  <2>1. UNCHANGED << dimensions, employees, wDimensions, wEmployees, pc, req, local >>
    BY <1>1 DEF vars, tables, writes
  <2> QED
    BY <2>1 DEF Backings, ReferencesKnown, WritesBacked, WorkBacked, Row
<1>2. CASE Quiet
  BY <1>1, <1>2 DEF Quiet
<1>3. ASSUME NEW s \in Sessions, Receive(s) \/ Statement(s) \/ Abort(s) \/ DeadlockVictim(s)
      PROVE  Backings'
  <2>1. CASE Abort(s) \/ DeadlockVictim(s)
    BY <1>0, <2>1, FailBacks, OneSessionBacks DEF Abort, DeadlockVictim
  <2>2. CASE (Receive(s) \/ Statement(s)) /\ ~ Abort(s)
    <3>1. Backs(s)
      BY <1>0, <2>2, ReceiveBacks, DimensionBacks, CheckBacks, PersistBacks, AddEmployeeBacks,
         UpdateCurrentBacks, EndBacks, OutOfRangeIsAbort DEF Statement
    <3> QED
      BY <1>0, <3>1, OneSessionBacks DEF Backs
  <2> QED
    BY <1>3, <2>1, <2>2
<1> QED
  BY <1>1, <1>2, <1>3 DEF Next

\* Every department and job that an employee was hired with, or works with now,
\* is committed: what validate_hire has found is still there when the batch
\* commits, for a handler of hires writes no catalog and nobody removes one.
THEOREM ReferencesAlwaysKnown == Spec => []ReferencesKnown
<1>1. Consistent => TypeInv
  BY DEF Consistent
<1>2. Backings => ReferencesKnown
  BY DEF Backings
<1> QED
  BY <1>1, <1>2, BackingsInit, BackingsStep, ConsistentAlways, PTL DEF Spec

-----------------------------------------------------------------------------
(***************************************************************************)
(* The answers: the account that _run_batch keeps is an invariant, too.    *)
(***************************************************************************)

\* Session s is not the one that steps.
Bystander(o) ==
    req'[o] = req[o] /\ pc'[o] = pc[o] /\ answer'[o] = answer[o]

\* A statement in the middle of a batch: the row is accepted, rejected, or
\* still at work.
Works(s) ==
    /\ pc[s] \notin Resting /\ pc'[s] \notin Resting
    /\ UNCHANGED << loads, rejected, loadSeq, answer >>
    /\ \A o \in Sessions \ {s} : Bystander(o)
    /\ \/ req' = req
       \/ MoreRows(s) /\ Accept(s)
       \/ /\ MoreRows(s)
          /\ \E errors \in Seq(ErrorRecord) : errors # << >> /\ Reject(s, errors)

\* A statement that fails ends the request.
Fails(s) == pc[s] \notin Resting /\ Fail(s)

LEMMA AcceptWorks ==
    ASSUME TypeInv, NEW s \in Sessions, pc[s] \notin Resting, MoreRows(s), Accept(s),
           UNCHANGED << loads, rejected, loadSeq, answer >>
    PROVE  Works(s)
<1>1. pc'[s] = "row"
  BY DEF Accept, Goto, TypeInv, TypeOK
<1>2. \A o \in Sessions \ {s} : Bystander(o)
  BY DEF Accept, Goto, TypeInv, TypeOK, Bystander
<1> QED
  BY <1>1, <1>2 DEF Works, Resting

LEMMA RejectWorks ==
    ASSUME TypeInv, NEW s \in Sessions, pc[s] \notin Resting, MoreRows(s),
           NEW errors \in Seq(ErrorRecord), errors # << >>, Reject(s, errors),
           UNCHANGED << loads, rejected, loadSeq, answer >>
    PROVE  Works(s)
<1>1. pc'[s] = "row"
  BY DEF Reject, Goto, TypeInv, TypeOK
<1>2. \A o \in Sessions \ {s} : Bystander(o)
  BY DEF Reject, Goto, TypeInv, TypeOK, Bystander
<1> QED
  BY <1>1, <1>2 DEF Works, Resting

LEMMA GotoWorks ==
    ASSUME TypeInv, NEW s \in Sessions, pc[s] \notin Resting,
           NEW label \in Labels \ Resting, Goto(s, label), UNCHANGED req,
           UNCHANGED << loads, rejected, loadSeq, answer >>
    PROVE  Works(s)
<1>1. pc'[s] = label
  BY DEF Goto, TypeInv, TypeOK
<1>2. \A o \in Sessions \ {s} : Bystander(o)
  BY DEF Goto, TypeInv, TypeOK, Bystander
<1> QED
  BY <1>1, <1>2 DEF Works

\* A session that waits for another one is at a statement of its batch.
LEMMA VictimFails ==
    ASSUME NEW s \in Sessions, DeadlockVictim(s)
    PROVE  Fails(s)
<1>1. PICK D \in SUBSET Sessions :
         s \in D /\ \A o \in D : WaitsFor(o) \cap D # {} /\ \E q \in D : o \in WaitsFor(q)
  BY DEF DeadlockVictim, InWaitCycle
<1>2. WaitsFor(s) # {}
  BY <1>1
<1>3. pc[s] \in Resting => WaitsFor(s) = {}
  BY DEF Resting, WaitsFor
<1> QED
  BY <1>2, <1>3 DEF DeadlockVictim, Fails

\* What a step of session s does to the accounts.
LEMMA StepKinds ==
    ASSUME TypeInv, NEW s \in Sessions, Statement(s) \/ Abort(s) \/ DeadlockVictim(s)
    PROVE  Works(s) \/ Fails(s) \/ Commit(s) \/ Refresh(s)
<1> USE DEF tables, sequences, writes, Resting, Labels
<1>1. CASE RejectDimension(s)
  <2> DEFINE errors == DimensionErrors(Row(s), NameKey(req[s].target_table))
  <2>1. /\ MoreRows(s) /\ pc[s] \notin Resting
        /\ errors # << >> /\ Reject(s, errors)
        /\ UNCHANGED << loads, rejected, loadSeq, answer >>
    BY <1>1 DEF RejectDimension, AtDimensionRow
  <2>2. errors \in Seq(ErrorRecord)
    BY <1>1, RowType, DimensionErrorsEmpty
    DEF RejectDimension, AtDimensionRow, NameKey, DimensionTables, Hires
  <2> HIDE DEF errors
  <2> QED
    BY <2>1, <2>2, RejectWorks
<1>2. CASE SelectDimension(s)
  <2>1. /\ pc[s] \notin Resting /\ Goto(s, "upsert") /\ UNCHANGED req
        /\ UNCHANGED << loads, rejected, loadSeq, answer >>
    BY <1>2 DEF SelectDimension, AtDimensionRow
  <2> QED
    BY <2>1, GotoWorks
<1>3. CASE InsertDimension(s) \/ UpdateDimension(s)
  <2>1. pc[s] = "upsert" /\ MoreRows(s)
    BY <1>3 DEF InsertDimension, UpdateDimension, TypeInv, RowInv
  <2>2. \/ Fail(s)
        \/ Accept(s) /\ UNCHANGED << loads, rejected, loadSeq, answer >>
    BY <1>3 DEF InsertDimension, UpdateDimension
  <2> QED
    BY <2>1, <2>2, AcceptWorks DEF Fails
<1>4. CASE CheckDepartment(s) \/ Exists(s) \/ CloseSelect(s) \/ CloseUpdate(s)
  <2>1. /\ pc[s] \notin Resting /\ UNCHANGED req
        /\ UNCHANGED << loads, rejected, loadSeq, answer >>
    BY <1>4 DEF CheckDepartment, Exists, CloseSelect, CloseUpdate
  <2>2. \E label \in Labels \ Resting : Goto(s, label)
    <3>1. CASE CheckDepartment(s)
      BY <3>1 DEF CheckDepartment
    <3>2. CASE Exists(s)
      BY <3>2 DEF Exists
    <3>3. CASE CloseSelect(s)
      BY <3>3 DEF CloseSelect
    <3>4. CASE CloseUpdate(s)
      BY <3>4 DEF CloseUpdate
    <3> QED
      BY <1>4, <3>1, <3>2, <3>3, <3>4
  <2> QED
    BY <2>1, <2>2, GotoWorks
<1>5. CASE CheckJob(s)
  <2> DEFINE known == Known(s, "jobs", Row(s).job_id)
             errors == HireErrors(Row(s), local[s].department_known, known)
  <2>1. /\ pc[s] = "check_job" /\ MoreRows(s)
        /\ UNCHANGED << loads, rejected, loadSeq, answer >>
        /\ IF errors # << >>
             THEN Reject(s, errors)
             ELSE Goto(s, "exists") /\ UNCHANGED << req, local >>
    BY <1>5 DEF CheckJob, TypeInv, RowInv
  <2>2. errors \in Seq(ErrorRecord)
    <3>1. Row(s) \in HireRow /\ local[s].department_known \in BOOLEAN
      BY <2>1, RowType DEF TypeInv, TypeOK, RowInv, Reads
    <3>2. known \in BOOLEAN
      BY DEF Known
    <3> HIDE DEF known
    <3> QED
      BY <3>1, <3>2, HireErrorsEmpty
  <2> HIDE DEF errors
  <2>3. CASE errors # << >>
    BY <2>1, <2>2, <2>3, RejectWorks
  <2>4. CASE errors = << >>
    BY <2>1, <2>4, GotoWorks
  <2> QED
    BY <2>3, <2>4
<1>6. CASE AddEmployee(s)
  <2>1. /\ pc[s] \notin Resting
        /\ \/ Fail(s)
           \/ /\ Goto(s, "add_first_version") /\ UNCHANGED req
              /\ UNCHANGED << loads, rejected, loadSeq, answer >>
    BY <1>6 DEF AddEmployee
  <2> QED
    BY <2>1, GotoWorks DEF Fails
<1>7. CASE GetCurrent(s)
  <2>1. pc[s] = "get_current" /\ MoreRows(s)
    BY <1>7 DEF GetCurrent, TypeInv, RowInv
  <2>2. \/ Fail(s)
        \/ Accept(s) /\ UNCHANGED << loads, rejected, loadSeq, answer >>
        \/ /\ Goto(s, "close_select") /\ UNCHANGED req
           /\ UNCHANGED << loads, rejected, loadSeq, answer >>
    BY <1>7 DEF GetCurrent
  <2> QED
    BY <2>1, <2>2, AcceptWorks, GotoWorks DEF Fails
<1>8. CASE AddFirstVersion(s) \/ AddVersion(s)
  <2>1. pc[s] \in {"add_first_version", "add_version"} /\ MoreRows(s)
    BY <1>8 DEF AddFirstVersion, AddVersion, TypeInv, RowInv, Midway
  <2>2. \/ Fail(s)
        \/ Accept(s) /\ UNCHANGED << loads, rejected, loadSeq, answer >>
        \/ /\ Goto(s, "update_current") /\ UNCHANGED req
           /\ UNCHANGED << loads, rejected, loadSeq, answer >>
    BY <1>8 DEF AddFirstVersion, AddVersion, InsertVersion
  <2> QED
    BY <2>1, <2>2, AcceptWorks, GotoWorks DEF Fails
<1>9. CASE UpdateCurrent(s)
  <2>1. pc[s] = "update_current" /\ MoreRows(s)
    BY <1>9 DEF UpdateCurrent, TypeInv, RowInv, Midway
  <2>2. \/ Fail(s)
        \/ Accept(s) /\ UNCHANGED << loads, rejected, loadSeq, answer >>
    BY <1>9 DEF UpdateCurrent
  <2> QED
    BY <2>1, <2>2, AcceptWorks DEF Fails
<1>10. CASE Abort(s) \/ DeadlockVictim(s)
  BY <1>10, VictimFails DEF Abort, Fails
<1> QED
  BY <1>1, <1>2, <1>3, <1>4, <1>5, <1>6, <1>7, <1>8, <1>9, <1>10, OutOfRangeIsAbort
  DEF Statement

-----------------------------------------------------------------------------
LEMMA AccountsInit == Init => Accounts
<1> SUFFICES ASSUME Init PROVE Accounts
  OBVIOUS
<1>1. \A s \in Sessions :
        /\ pc[s] = "idle" /\ answer[s] = "none" /\ req[s].load_id = NoRow
        /\ req[s].rejected = 0 /\ req[s].rejects = << >>
  BY DEF Init, NoRequest
<1>2. \A l \in LoadIds : NotRecorded(l)
  BY DEF Init, NotRecorded
<1> QED
  BY <1>1, <1>2 DEF Accounts, LoadsApart, AccountInv, Resting

\* The account of a session survives a step that leaves its handler and its
\* load alone.
LEMMA AccountFrame ==
    ASSUME NEW o \in Sessions, AccountInv(o), Bystander(o),
           req[o].load_id # NoRow =>
             /\ loads'[req[o].load_id] = loads[req[o].load_id]
             /\ rejected'[req[o].load_id] = rejected[req[o].load_id]
    PROVE  AccountInv(o)'
<1>1. /\ req'[o] = req[o] /\ pc'[o] = pc[o] /\ answer'[o] = answer[o]
  BY DEF Bystander
<1>2. CASE req[o].load_id = NoRow
  BY <1>1, <1>2 DEF AccountInv, Resting
<1>3. CASE req[o].load_id # NoRow
  BY <1>1, <1>3 DEF AccountInv, Recorded, NotRecorded
<1> QED
  BY <1>2, <1>3

LEMMA RejectAccount ==
    ASSUME TypeInv, NEW s \in Sessions, MoreRows(s),
           NEW errors \in Seq(ErrorRecord), errors # << >>, Reject(s, errors)
    PROVE  /\ req'[s].load_id = req[s].load_id
           /\ req'[s].rows = req[s].rows
           /\ req'[s].row_index = req[s].row_index + 1
           /\ req'[s].accepted = req[s].accepted
           /\ req'[s].rejected = req[s].rejected + 1
           /\ Len(req'[s].rejects) > Len(req[s].rejects)
<1> DEFINE records == RejectedRecords(Row(s), errors)
<1>1. req'[s] = [req[s] EXCEPT !.row_index = req[s].row_index + 1,
                               !.rejected = req[s].rejected + 1,
                               !.rejects = req[s].rejects \o records]
  BY DEF Reject, TypeInv, TypeOK
<1>2. req[s] \in Request
  BY DEF TypeInv, TypeOK
<1>3. records \in Seq(RejectedRecord) /\ Len(records) > 0
  <2>1. Row(s) \in DimensionRow \cup HireRow
    BY RowType
  <2>2. \A i \in 1 .. Len(errors) : errors[i] \in ErrorRecord
    OBVIOUS
  <2>3. \A i \in 1 .. Len(errors) : records[i] \in RejectedRecord
    BY <2>1, <2>2 DEF RejectedRecords, RejectedRecord, ErrorRecord
  <2>4. Len(errors) > 0
    OBVIOUS
  <2> QED
    BY <2>3, <2>4 DEF RejectedRecords
<1> HIDE DEF records
<1>4. Len(req[s].rejects \o records) > Len(req[s].rejects)
  BY <1>2, <1>3 DEF Request
<1> QED
  BY <1>1, <1>2, <1>4 DEF Request

\* What a handler has gone through, and how it has counted it.
Counted(s) ==
    /\ req[s].accepted + req[s].rejected + 1 = req[s].row_index
    /\ req[s].row_index <= Len(req[s].rows) + 1
    /\ req[s].rejected <= Len(req[s].rejects)
    /\ req[s].rejected = 0 => req[s].rejects = << >>

LEMMA WorksCounts ==
    ASSUME TypeInv, NEW s \in Sessions, Works(s), Counted(s)
    PROVE  Counted(s)' /\ req'[s].load_id = req[s].load_id
<1>1. req[s] \in Request
  BY DEF TypeInv, TypeOK
<1>2. CASE req' = req
  BY <1>2 DEF Counted
<1>3. CASE MoreRows(s) /\ Accept(s)
  <2>1. req'[s] = [req[s] EXCEPT !.row_index = req[s].row_index + 1,
                                 !.accepted = req[s].accepted + 1]
    BY <1>3 DEF Accept, TypeInv, TypeOK
  <2> QED
    BY <1>1, <1>3, <2>1 DEF MoreRows, Request, Counted
<1>4. CASE /\ MoreRows(s)
           /\ \E errors \in Seq(ErrorRecord) : errors # << >> /\ Reject(s, errors)
  <2>1. PICK errors \in Seq(ErrorRecord) : errors # << >> /\ Reject(s, errors)
    BY <1>4
  <2>2. /\ req'[s].load_id = req[s].load_id
        /\ req'[s].rows = req[s].rows
        /\ req'[s].row_index = req[s].row_index + 1
        /\ req'[s].accepted = req[s].accepted
        /\ req'[s].rejected = req[s].rejected + 1
        /\ Len(req'[s].rejects) > Len(req[s].rejects)
    BY <1>4, <2>1, RejectAccount
  <2>3. req' \in [Sessions -> Request]
    BY <1>4, <2>1, RejectType
  <2>4. req'[s] \in Request
    BY <2>3
  <2>5. req[s].accepted \in Nat /\ req[s].rejected \in Nat /\ req[s].row_index \in Nat
    BY <1>1 DEF Request
  <2>6. Len(req[s].rows) \in Nat
    BY <1>1 DEF Request
  <2>7. Len(req[s].rejects) \in Nat /\ Len(req'[s].rejects) \in Nat
    <3>1. req[s].rejects \in Seq(RejectedRecord) /\ req'[s].rejects \in Seq(RejectedRecord)
      BY <1>1, <2>4 DEF Request
    <3> QED
      BY <3>1
  <2>8. /\ req'[s].accepted + req'[s].rejected + 1 = req'[s].row_index
        /\ req'[s].row_index <= Len(req'[s].rows) + 1
    <3>1. req[s].row_index <= Len(req[s].rows)
      BY <1>4 DEF MoreRows
    <3>2. req[s].accepted + req[s].rejected + 1 = req[s].row_index
      BY DEF Counted
    <3>3. req[s].accepted + (req[s].rejected + 1) + 1 = req[s].row_index + 1
      BY <2>5, <3>2
    <3>4. req[s].row_index + 1 <= Len(req[s].rows) + 1
      BY <2>5, <2>6, <3>1
    <3> QED
      BY <2>2, <3>3, <3>4
  <2>9. /\ req'[s].rejected <= Len(req'[s].rejects)
        /\ req'[s].rejected # 0
    <3>1. req[s].rejected <= Len(req[s].rejects)
      BY DEF Counted
    <3>2. req[s].rejected + 1 <= Len(req'[s].rejects) /\ req[s].rejected + 1 # 0
      BY <2>2, <2>5, <2>7, <3>1
    <3> QED
      BY <2>2, <3>2
  <2> QED
    BY <2>2, <2>8, <2>9 DEF Counted
<1> QED
  BY <1>2, <1>3, <1>4 DEF Works

LEMMA WorksKeepsAccounts ==
    ASSUME TypeInv, Accounts, NEW s \in Sessions, Works(s)
    PROVE  Accounts'
<1>1. /\ UNCHANGED << loads, rejected, loadSeq, answer >>
      /\ \A o \in Sessions \ {s} : Bystander(o)
      /\ pc[s] \notin Resting /\ pc'[s] \notin Resting
  BY DEF Works
<1>2. Counted(s)' /\ req'[s].load_id = req[s].load_id
  BY <1>1, WorksCounts DEF Accounts, AccountInv, Counted
<1>3. AccountInv(s)'
  BY <1>1, <1>2 DEF Accounts, AccountInv, Counted, NotRecorded, Resting
<1>4. \A o \in Sessions \ {s} : AccountInv(o)'
  BY <1>1, AccountFrame DEF Accounts
<1>5. LoadsApart'
  BY <1>1, <1>2 DEF Accounts, LoadsApart, NotRecorded, Bystander
<1> QED
  BY <1>3, <1>4, <1>5 DEF Accounts

LEMMA FailsKeepsAccounts ==
    ASSUME TypeInv, Accounts, NEW s \in Sessions, Fails(s)
    PROVE  Accounts'
<1>1. /\ UNCHANGED << loads, rejected, loadSeq, req >>
      /\ pc[s] \notin Resting /\ pc'[s] = "idle" /\ answer'[s] = "500"
      /\ \A o \in Sessions \ {s} : Bystander(o)
  BY DEF Fails, Fail, Goto, tables, TypeInv, TypeOK, Bystander
<1>2. AccountInv(s)'
  BY <1>1 DEF Accounts, AccountInv, NotRecorded, Resting
<1>3. \A o \in Sessions \ {s} : AccountInv(o)'
  BY <1>1, AccountFrame DEF Accounts
<1>4. LoadsApart'
  BY <1>1 DEF Accounts, LoadsApart, NotRecorded
<1> QED
  BY <1>2, <1>3, <1>4 DEF Accounts

LEMMA ReceiveKeepsAccounts ==
    ASSUME TypeInv, Accounts, NEW s \in Sessions, Receive(s)
    PROVE  Accounts'
<1>0. PICK t \in Targets : \E rows \in Batches(t) :
        req' = [req EXCEPT ![s] = [NoRequest EXCEPT !.target_table = t,
                                                    !.rows = rows,
                                                    !.load_id = loadSeq + 1]]
  BY DEF Receive
<1>1. PICK rows \in Batches(t) :
        req' = [req EXCEPT ![s] = [NoRequest EXCEPT !.target_table = t,
                                                    !.rows = rows,
                                                    !.load_id = loadSeq + 1]]
  BY <1>0
<1>2. /\ loadSeq' = loadSeq + 1 /\ loadSeq + 1 \in LoadIds
      /\ loadSeq \in Nat
      /\ UNCHANGED << loads, rejected >>
      /\ pc'[s] = "row" /\ answer'[s] = "none"
      /\ \A o \in Sessions \ {s} : Bystander(o)
  BY <1>1, BoundsAssumption
  DEF Receive, Goto, tables, TypeInv, TypeOK, LoadIds, Bystander
<1>3. /\ req'[s].load_id = loadSeq + 1
      /\ req'[s].accepted = 0 /\ req'[s].rejected = 0 /\ req'[s].row_index = 1
      /\ req'[s].rejects = << >> /\ req'[s].rows = rows
  BY <1>1 DEF TypeInv, TypeOK, NoRequest
<1>4. Len(rows) \in Nat
  BY BatchesAssumption DEF Batches, Targets, DimensionTables, Hires
<1>5. NotRecorded(loadSeq + 1) /\ loadSeq + 1 # NoRow
  <2>1. loadSeq + 1 > loadSeq
    BY <1>2
  <2> QED
    BY <1>2, <2>1, NoRowAssumption DEF Accounts, LoadsApart
<1>6. AccountInv(s)'
  BY <1>2, <1>3, <1>4, <1>5 DEF AccountInv, NotRecorded, Resting
<1>7. \A o \in Sessions \ {s} : AccountInv(o)'
  BY <1>2, AccountFrame DEF Accounts
<1>8. \A o \in Sessions \ {s} :
        req[o].load_id # NoRow => req[o].load_id <= loadSeq /\ req[o].load_id \in Nat
  BY DEF Accounts, LoadsApart, TypeInv, TypeOK, Request, LoadIds
<1>9. LoadsApart'
  <2>1. \A l \in LoadIds : l > loadSeq' => NotRecorded(l)'
    BY <1>2 DEF Accounts, LoadsApart, NotRecorded, LoadIds
  <2>2. ASSUME NEW o \in Sessions, req'[o].load_id # NoRow PROVE req'[o].load_id <= loadSeq'
    BY <1>2, <1>3, <1>8, <2>2 DEF Bystander
  <2>3. ASSUME NEW o \in Sessions, NEW q \in Sessions, o # q, req'[o].load_id # NoRow
        PROVE  req'[o].load_id # req'[q].load_id
    <3>1. CASE o # s /\ q # s
      BY <1>2, <2>3, <3>1 DEF Bystander, Accounts, LoadsApart
    <3>2. CASE o = s
      BY <1>2, <1>3, <1>5, <1>8, <2>3, <3>2 DEF Bystander
    <3>3. CASE q = s
      BY <1>2, <1>3, <1>5, <1>8, <2>3, <3>3 DEF Bystander
    <3> QED
      BY <3>1, <3>2, <3>3
  <2> QED
    BY <2>1, <2>2, <2>3 DEF LoadsApart
<1> QED
  BY <1>6, <1>7, <1>9 DEF Accounts
\* The commit records the account of its session only.
LEMMA CommitRecords ==
    ASSUME TypeInv, Accounts, NEW s \in Sessions, Commit(s)
    PROVE  /\ req[s].load_id \in LoadIds
           /\ NotRecorded(req[s].load_id)
           /\ Recorded(s)'
           /\ \A l \in LoadIds \ {req[s].load_id} :
                loads'[l] = loads[l] /\ rejected'[l] = rejected[l]
<1>1. req[s] \in Request
  BY DEF TypeInv, TypeOK
<1>2. /\ pc[s] = "row" /\ ~ MoreRows(s) /\ req' = req
      /\ loads' = [loads EXCEPT ![req[s].load_id] = [source |-> req[s].target_table,
                                                    accepted |-> req[s].accepted,
                                                    rejected |-> req[s].rejected]]
      /\ rejected' = [rejected EXCEPT ![req[s].load_id] = req[s].rejects]
  BY DEF Commit
<1>3. req[s].load_id \in LoadIds
  BY <1>1, <1>2 DEF Accounts, AccountInv, Request
<1>4. NotRecorded(req[s].load_id) /\ Counted(s)
  BY <1>2 DEF Accounts, AccountInv, Resting, Counted
<1>5. req[s].accepted + req[s].rejected = Len(req[s].rows)
  <2>1. req[s].accepted \in Nat /\ req[s].rejected \in Nat /\ req[s].row_index \in Nat
    BY <1>1 DEF Request
  <2>2. Len(req[s].rows) \in Nat
    BY <1>1 DEF Request
  <2>3. ~ (req[s].row_index <= Len(req[s].rows))
    BY <1>2 DEF MoreRows
  <2> QED
    BY <1>4, <2>1, <2>2, <2>3 DEF Counted
<1>6. /\ loads'[req[s].load_id] = [source |-> req[s].target_table,
                                  accepted |-> req[s].accepted,
                                  rejected |-> req[s].rejected]
      /\ rejected'[req[s].load_id] = req[s].rejects
      /\ \A l \in LoadIds \ {req[s].load_id} :
           loads'[l] = loads[l] /\ rejected'[l] = rejected[l]
  BY <1>2, <1>3 DEF TypeInv, TypeOK
<1> QED
  BY <1>2, <1>3, <1>4, <1>5, <1>6 DEF Recorded

LEMMA CommitKeepsAccounts ==
    ASSUME TypeInv, Accounts, NEW s \in Sessions, Commit(s)
    PROVE  Accounts'
<1>1. /\ pc[s] = "row" /\ pc'[s] = "refresh" /\ UNCHANGED << req, answer, loadSeq >>
      /\ \A o \in Sessions \ {s} : Bystander(o)
  BY DEF Commit, Goto, sequences, TypeInv, TypeOK, Bystander
<1>2. /\ req[s].load_id \in LoadIds
      /\ NotRecorded(req[s].load_id)
      /\ Recorded(s)'
      /\ \A l \in LoadIds \ {req[s].load_id} :
           loads'[l] = loads[l] /\ rejected'[l] = rejected[l]
  BY CommitRecords
<1>3. AccountInv(s)'
  <2>1. AccountInv(s) /\ answer[s] = "none"
    BY <1>1 DEF Accounts, AccountInv
  <2> QED
    BY <1>1, <1>2, <2>1 DEF AccountInv, Resting
<1>4. \A o \in Sessions \ {s} : AccountInv(o)'
  <2> SUFFICES ASSUME NEW o \in Sessions \ {s} PROVE AccountInv(o)'
    OBVIOUS
  <2>1. AccountInv(o) /\ Bystander(o)
    BY <1>1 DEF Accounts
  <2>2. req[o].load_id # NoRow =>
          req[o].load_id \in LoadIds \ {req[s].load_id}
    BY DEF Accounts, LoadsApart, TypeInv, TypeOK, Request
  <2> QED
    BY <1>2, <2>1, <2>2, AccountFrame
<1>5. LoadsApart'
  <2>1. req[s].load_id <= loadSeq /\ req[s].load_id \in Nat /\ loadSeq \in Nat
    BY <1>1, <1>2, NoRowAssumption DEF Accounts, LoadsApart, AccountInv, LoadIds, TypeInv, TypeOK
  <2>2. \A l \in LoadIds : l > loadSeq' => NotRecorded(l)'
    BY <1>1, <1>2, <2>1 DEF Accounts, LoadsApart, NotRecorded, LoadIds
  <2> QED
    BY <1>1, <2>2 DEF Accounts, LoadsApart
<1> QED
  BY <1>3, <1>4, <1>5 DEF Accounts

LEMMA RefreshKeepsAccounts ==
    ASSUME TypeInv, Accounts, NEW s \in Sessions, Refresh(s)
    PROVE  Accounts'
<1>1. /\ pc[s] = "refresh" /\ pc'[s] = "idle" /\ answer'[s] = "200"
      /\ UNCHANGED << loads, rejected, loadSeq, req >>
      /\ \A o \in Sessions \ {s} : Bystander(o)
  BY DEF Refresh, StatusAfterRefresh, Goto, tables, sequences, TypeInv, TypeOK, Bystander
<1>2. AccountInv(s)'
  BY <1>1 DEF Accounts, AccountInv, Recorded, NotRecorded, Resting
<1>3. \A o \in Sessions \ {s} : AccountInv(o)'
  BY <1>1, AccountFrame DEF Accounts
<1>4. LoadsApart'
  BY <1>1 DEF Accounts, LoadsApart, NotRecorded
<1> QED
  BY <1>2, <1>3, <1>4 DEF Accounts

LEMMA AccountsStep == TypeInv /\ Accounts /\ [Next]_vars => Accounts'
<1> SUFFICES ASSUME TypeInv, Accounts, [Next]_vars PROVE Accounts'
  OBVIOUS
<1>1. CASE UNCHANGED vars
  <2>1. UNCHANGED << loads, rejected, loadSeq, req, pc, answer >>
    BY <1>1 DEF vars, tables, sequences
  <2> QED
    BY <2>1 DEF Accounts, LoadsApart, AccountInv, Recorded, NotRecorded
<1>2. CASE Quiet
  BY <1>1, <1>2 DEF Quiet
<1>3. ASSUME NEW s \in Sessions, Receive(s) PROVE Accounts'
  BY <1>3, ReceiveKeepsAccounts
<1>4. ASSUME NEW s \in Sessions, Statement(s) \/ Abort(s) \/ DeadlockVictim(s)
      PROVE  Accounts'
  BY <1>4, StepKinds, WorksKeepsAccounts, FailsKeepsAccounts, CommitKeepsAccounts,
     RefreshKeepsAccounts
<1> QED
  BY <1>1, <1>2, <1>3, <1>4 DEF Next

\* The account that every handler keeps of its batch is right, and nobody else
\* writes its load.
THEOREM AccountsKept == Spec => []Accounts
<1>1. Consistent => TypeInv
  BY DEF Consistent
<1> QED
  BY <1>1, AccountsInit, AccountsStep, ConsistentAlways, PTL DEF Spec

\* After a 200 the load is there and accounts for every row, each rejected one
\* with a reason; after a 500 nothing of the batch is there, whatever failed
\* and whoever else was at work (_run_batch, get_db).
THEOREM AnswersTellOutcome == Spec => []AnswerTellsOutcome
<1>1. Consistent /\ Accounts => AnswerTellsOutcome
  <2> SUFFICES ASSUME Consistent, Accounts, NEW s \in Sessions
               PROVE  /\ answer[s] = "200" =>
                           /\ loads[req[s].load_id] # NoRow
                           /\ loads[req[s].load_id].accepted + loads[req[s].load_id].rejected
                                = Len(req[s].rows)
                           /\ loads[req[s].load_id].rejected <= Len(rejected[req[s].load_id])
                           /\ loads[req[s].load_id].rejected = 0 =>
                                rejected[req[s].load_id] = << >>
                      /\ answer[s] = "500" =>
                           loads[req[s].load_id] = NoRow /\ rejected[req[s].load_id] = << >>
    BY DEF AnswerTellsOutcome
  <2>1. req[s] \in Request
    BY DEF Consistent, TypeInv, TypeOK
  <2>2. CASE answer[s] = "200"
    <3>1. AccountInv(s) /\ Recorded(s)
      BY <2>2 DEF Accounts, AccountInv
    <3>2. [source |-> req[s].target_table, accepted |-> req[s].accepted,
           rejected |-> req[s].rejected] \in Load
      BY <2>1 DEF Request, Load
    <3>3. loads[req[s].load_id] # NoRow
      BY <3>1, <3>2, NoRowAssumption DEF Recorded
    <3> QED
      BY <2>2, <3>1, <3>3 DEF Recorded, AccountInv
  <2>3. CASE answer[s] = "500"
    BY <2>3 DEF Accounts, AccountInv, NotRecorded
  <2> QED
    BY <2>2, <2>3
<1> QED
  BY <1>1, ConsistentAlways, AccountsKept, PTL
=============================================================================
