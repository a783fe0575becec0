------------------------ MODULE IngestBatchInvariant ------------------------
(***************************************************************************)
(* The inductive invariant behind the theorems of IngestBatchProofs: what  *)
(* the uncommitted writes of a session look like at every statement of     *)
(* _persist_hire, so that its commit keeps the tables in sync.             *)
(***************************************************************************)
EXTENDS IngestBatch

\* Every committed employee has one current version, an unknown one has none.
OneVersion(e) ==
    IF employees[e] = NoRow
      THEN \A v \in VersionIds : versions[v] # NoRow => versions[v].employee_id # e
      ELSE \E v \in VersionIds : CurrentIn(versions, e) = {v}
OneVersionEach == \A e \in EmployeeIds : OneVersion(e)

\* A row is written by one session at a time.
LocksExclusive ==
    \A s, o \in Sessions : s # o =>
        /\ \A e \in EmployeeIds : wEmployees[s][e] = NoRow \/ wEmployees[o][e] = NoRow
        /\ \A v \in VersionIds : wVersions[s][v] = NoRow \/ wVersions[o][v] = NoRow

\* The sequence of version_id is ahead of every row, committed or not.
SequenceAhead ==
    \A v \in VersionIds : v > versionSeq =>
        versions[v] = NoRow /\ \A s \in Sessions : wVersions[s][v] = NoRow

\* What an uncommitted write keeps of the committed row it replaces.
FactsKept(s) ==
    /\ \A e \in EmployeeIds : wEmployees[s][e] # NoRow /\ employees[e] # NoRow =>
         /\ wEmployees[s][e].hired_as = employees[e].hired_as
         /\ wEmployees[s][e].hire_datetime = employees[e].hire_datetime
    /\ \A v \in VersionIds : wVersions[s][v] # NoRow /\ versions[v] # NoRow =>
         /\ wVersions[s][v].employee_id = versions[v].employee_id
         /\ wVersions[s][v].attributes = versions[v].attributes
         /\ wVersions[s][v].valid_from = versions[v].valid_from

\* Session s has uncommitted rows of employee e.
Touches(s, e) ==
    \/ wEmployees[s][e] # NoRow
    \/ \E v \in VersionIds : wVersions[s][v] # NoRow /\ wVersions[s][v].employee_id = e

\* Session s sees employee e with exactly one current version.
OneCurrent(s, e, attributes) ==
    /\ EmployeesSeen(s)[e] # NoRow
    /\ \E v \in VersionIds : /\ CurrentIn(VersionsSeen(s), e) = {v}
                             /\ VersionsSeen(s)[v].attributes = attributes

\* Session s has locked the committed current version of e.
Owns(s, e) == \A v \in CurrentIn(versions, e) : wVersions[s][v] # NoRow

\* The committed versions of e that session s rewrites are the current ones.
ClosesOpen(s, e) ==
    \A v \in VersionIds :
        /\ wVersions[s][v] # NoRow
        /\ wVersions[s][v].employee_id = e
        /\ versions[v] # NoRow
        => versions[v].is_current

\* Between two rows, session s may commit what it has written for e.
Settled(s, e) ==
    Touches(s, e) =>
        /\ OneCurrent(s, e, EmployeesSeen(s)[e].current)
        /\ Owns(s, e)
        /\ ClosesOpen(s, e)

\* Another session has committed a current version of e behind the back of s.
Overtaken(s, e) == ~ Owns(s, e)

Midway == {"add_first_version", "add_version", "update_current"}

\* The statements of _persist_hire, each with what holds before it runs.
SessionInv(s) ==
    LET e == Row(s).id
    IN  /\ \A f \in EmployeeIds : (pc[s] \in Midway /\ f = e) \/ Settled(s, f)
        /\ pc[s] = "add_employee" => wEmployees[s][e] = NoRow
        /\ pc[s] = "add_first_version" =>
             /\ employees[e] = NoRow
             /\ wEmployees[s][e] # NoRow
             /\ wEmployees[s][e].current = RowAttributes(Row(s))
             /\ \A v \in VersionIds : wVersions[s][v] # NoRow => wVersions[s][v].employee_id # e
        /\ pc[s] \in {"get_current", "close_select", "close_update", "add_version"} =>
             EmployeesSeen(s)[e] # NoRow
        /\ pc[s] = "close_update" =>
             LET v == local[s].target
             IN  /\ VersionsSeen(s)[v].employee_id = e
                 /\ versions[v] # NoRow /\ ~ versions[v].is_current => Overtaken(s, e)
        /\ pc[s] = "add_version" => ClosesOpen(s, e) \/ Overtaken(s, e)
        /\ pc[s] = "update_current" =>
             /\ OneCurrent(s, e, RowAttributes(Row(s)))
             /\ Owns(s, e)
             /\ ClosesOpen(s, e)

\* The batch has the rows of its endpoint, and the row a statement works on
\* has passed validation.
RowInv(s) ==
    /\ req[s].rows \in Seq(IF req[s].target_table = Hires THEN HireRow ELSE DimensionRow)
    /\ pc[s] \in {"exists", "add_employee", "get_current", "close_select", "close_update"} \cup Midway =>
         /\ MoreRows(s)
         /\ Row(s).id \in EmployeeIds
         /\ RowAttributes(Row(s)) \in Attributes
         /\ Row(s).datetime \in Nat
    /\ pc[s] = "check_job" => MoreRows(s) /\ req[s].target_table = Hires
    /\ pc[s] = "upsert" =>
         /\ MoreRows(s)
         /\ req[s].target_table \in DimensionTables
         /\ Row(s).id \in DimensionIds
         /\ Row(s).name \in Names

\* The version that close_current has selected exists, as session s sees it.
TargetInv(s) ==
    pc[s] = "close_update" =>
        /\ local[s].target \in VersionIds
        /\ VersionsSeen(s)[local[s].target] # NoRow

TypeInv == TypeOK /\ \A s \in Sessions : RowInv(s)

\* Handlers stay consistent with themselves and with each other whatever
\* statement of ingest_batch.py comes next, and whatever the columns of the
\* current state were filled with before.
Consistent ==
    /\ TypeInv
    /\ OneVersionEach
    /\ LocksExclusive
    /\ SequenceAhead
    /\ \A s \in Sessions : TargetInv(s) /\ FactsKept(s) /\ SessionInv(s)

\* The inductive invariant of a database that the ingestion alone has filled.
IInv == Consistent /\ CurrentStateInSync
-----------------------------------------------------------------------------
(***************************************************************************)
(* What the answers rest on: the account that a handler keeps of its batch.*)
(***************************************************************************)
Resting == {"idle", "refresh"}

\* Nothing of load l is committed.
NotRecorded(l) == loads[l] = NoRow /\ rejected[l] = << >>

\* The batch of session s is committed with the account it has kept.
Recorded(s) ==
    /\ loads[req[s].load_id] = [source |-> req[s].target_table,
                                accepted |-> req[s].accepted,
                                rejected |-> req[s].rejected]
    /\ rejected[req[s].load_id] = req[s].rejects
    /\ req[s].accepted + req[s].rejected = Len(req[s].rows)

\* No two requests share a load, and the sequence of loads.id is ahead of all.
LoadsApart ==
    /\ \A l \in LoadIds : l > loadSeq => NotRecorded(l)
    /\ \A s \in Sessions : req[s].load_id # NoRow => req[s].load_id <= loadSeq
    /\ \A s, o \in Sessions :
         s # o /\ req[s].load_id # NoRow => req[s].load_id # req[o].load_id

\* The counters of _run_batch add up to the rows it has gone through, and its
\* load appears with its commit.
AccountInv(s) ==
    /\ pc[s] # "idle" \/ answer[s] # "none" => req[s].load_id # NoRow
    /\ pc[s] # "idle" => answer[s] = "none"
    /\ req[s].rejected <= Len(req[s].rejects)
    /\ req[s].rejected = 0 => req[s].rejects = << >>
    /\ pc[s] \notin Resting =>
         /\ req[s].accepted + req[s].rejected + 1 = req[s].row_index
         /\ req[s].row_index <= Len(req[s].rows) + 1
         /\ NotRecorded(req[s].load_id)
    /\ pc[s] = "refresh" \/ answer[s] = "200" => Recorded(s)
    /\ answer[s] = "500" => NotRecorded(req[s].load_id)

Accounts == LoadsApart /\ \A s \in Sessions : AccountInv(s)
-----------------------------------------------------------------------------
(***************************************************************************)
(* What the references of accepted hires rest on.                          *)
(***************************************************************************)
Persisting == {"exists", "add_employee", "get_current", "close_select", "close_update"} \cup Midway

BackedBy(table, a) ==
    /\ table["departments"][a.department_id] # NoRow
    /\ table["jobs"][a.job_id] # NoRow

EmployeeBacked(table, r) == BackedBy(table, r.hired_as) /\ BackedBy(table, r.current)

\* The uncommitted employees of session s refer to committed rows.
WritesBacked(s) ==
    \A e \in EmployeeIds :
        wEmployees[s][e] # NoRow => EmployeeBacked(dimensions, wEmployees[s][e])

\* A handler of hires sees no departments and jobs but the committed ones, so
\* the references of the row it persists, and the department it has found
\* before it looks for the job, are committed rows.
WorkBacked(s) ==
    /\ pc[s] \in Resting \/ req[s].target_table = Hires => wDimensions[s] = NoDimensions
    /\ pc[s] \in {"check_job"} \cup Persisting => req[s].target_table = Hires
    /\ pc[s] = "check_job" /\ local[s].department_known =>
         /\ Row(s).department_id \in DimensionIds
         /\ dimensions["departments"][Row(s).department_id] # NoRow
    /\ pc[s] \in Persisting => BackedBy(dimensions, RowAttributes(Row(s)))

Backings == ReferencesKnown /\ \A s \in Sessions : WritesBacked(s) /\ WorkBacked(s)
-----------------------------------------------------------------------------
(***************************************************************************)
(* What the chain of an employee's versions rests on.                      *)
(***************************************************************************)
VersionsOf(table, e) == {v \in VersionIds : table[v] # NoRow /\ table[v].employee_id = e}
LaterVersions(table, e, v) == {w \in VersionsOf(table, e) : w > v}

\* Version v of employee e ended where the next one began.
MeetsNext(table, e, v) ==
    /\ ~ table[v].is_current
    /\ \E w \in LaterVersions(table, e, v) :
         /\ \A u \in LaterVersions(table, e, v) : w <= u
         /\ table[v].valid_to = table[w].valid_from

\* The versions of e in a table chain, and the last one is open.
Chained(table, e) ==
    \A v \in VersionsOf(table, e) :
        IF LaterVersions(table, e, v) = {}
          THEN table[v].is_current /\ table[v].valid_to = NoRow
          ELSE MeetsNext(table, e, v)

\* close_current has closed the last one: a version from `now` on would chain.
ChainedUntil(table, e, now) ==
    \A v \in VersionsOf(table, e) :
        IF LaterVersions(table, e, v) = {}
          THEN ~ table[v].is_current /\ table[v].valid_to = now
          ELSE MeetsNext(table, e, v)

\* What session s sees of an employee chains, but for the one that it is
\* between close_current and add_version of.  A session that another one has
\* overtaken may break the chain: its INSERT is going to fail.
ChainInv(s) ==
    LET e == Row(s).id
    IN  /\ \A f \in EmployeeIds :
             \/ pc[s] \in {"add_first_version", "add_version"} /\ f = e
             \/ Chained(VersionsSeen(s), f)
        /\ pc[s] = "close_update" =>
             VersionsSeen(s)[local[s].target].is_current \/ Overtaken(s, e)
        /\ pc[s] = "add_version" =>
             ChainedUntil(VersionsSeen(s), e, local[s].valid_from) \/ Overtaken(s, e)

Chains == VersionsChain /\ \A s \in Sessions : ChainInv(s)
=============================================================================
