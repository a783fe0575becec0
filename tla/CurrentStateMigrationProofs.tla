-------------------- MODULE CurrentStateMigrationProofs --------------------
(***************************************************************************)
(* A downgrade and an upgrade of migration 0003 leave a database that the  *)
(* ingestion works on as before: what its statements rely on is one current*)
(* version per employee, not what the columns of the current state hold.   *)
(***************************************************************************)
EXTENDS CurrentStateMigration, IngestOutcomeProofs

\* Between two batches a session has no uncommitted row.
NoUncommitted(s) ==
    /\ \A e \in EmployeeIds : wEmployees[s][e] = NoRow
    /\ \A v \in VersionIds : wVersions[s][v] = NoRow
RestingClean == \A s \in Sessions : pc[s] \in Resting => NoUncommitted(s)

\* TypeOK at revision 0002: the columns of the current state are gone.
EmployeeWithoutColumns == [hire_datetime : Nat, hired_as : Attributes, current : {NoColumns}]
TypeWithoutColumns ==
    /\ dimensions \in [DimensionTables -> [DimensionIds -> Names \cup {NoRow}]]
    /\ employees \in [EmployeeIds -> EmployeeWithoutColumns \cup {NoRow}]
    /\ versions \in [VersionIds -> Version \cup {NoRow}]
    /\ loads \in [LoadIds -> Load \cup {NoRow}]
    /\ rejected \in [LoadIds -> Seq(RejectedRecord)]
    /\ loadSeq \in 0 .. MaxLoads /\ versionSeq \in 0 .. MaxVersions /\ clock \in Nat
    /\ wDimensions \in [Sessions -> [DimensionTables -> [DimensionIds -> Names \cup {NoRow}]]]
    /\ wEmployees \in [Sessions -> [EmployeeIds -> Employee \cup {NoRow}]]
    /\ wVersions \in [Sessions -> [VersionIds -> Version \cup {NoRow}]]
    /\ pc \in [Sessions -> Labels]
    /\ req \in [Sessions -> Request]
    /\ local \in [Sessions -> Reads]
    /\ answer \in [Sessions -> {"none", "200", "500"}]

\* Between the downgrade and the upgrade no server runs.
Downgraded0002 ==
    /\ Stopped
    /\ TypeWithoutColumns
    /\ \A s \in Sessions : RowInv(s)
    /\ OneVersionEach
    /\ SequenceAhead

\* The inductive invariant of the ingestion among migrations.
MigrationInv ==
    /\ revision \in {"0002", "0003"}
    /\ RestingClean
    /\ revision = "0003" => Consistent
    /\ revision = "0002" => Downgraded0002
    /\ OnlyBackfilledDisagree
-----------------------------------------------------------------------------
(***************************************************************************)
(* The server at the head revision.                                        *)
(***************************************************************************)
LEMMA OthersRest ==
    ASSUME TypeInv, NEW s \in Sessions, Receive(s) \/ Statement(s) \/ Abort(s) \/ DeadlockVictim(s)
    PROVE  \A o \in Sessions \ {s} :
             /\ pc'[o] = pc[o]
             /\ wEmployees'[o] = wEmployees[o]
             /\ wVersions'[o] = wVersions[o]
<1> USE DEF tables, writes, sequences
<1>1. CASE Receive(s) \/ CheckDepartment(s) \/ CheckJob(s) \/ Exists(s) \/ Refresh(s)
  <2>1. UNCHANGED << wEmployees, wVersions >>
    BY <1>1 DEF Receive, CheckDepartment, CheckJob, Exists, Refresh
  <2>2. \A o \in Sessions \ {s} : pc'[o] = pc[o]
    BY <1>1 DEF Receive, CheckDepartment, CheckJob, Exists, Refresh, Goto, Reject, TypeInv, TypeOK
  <2> QED
    BY <2>1, <2>2
<1>2. CASE \/ RejectDimension(s) \/ SelectDimension(s) \/ UpdateDimension(s)
           \/ CloseSelect(s) \/ (GetCurrent(s) /\ ~ Fail(s)) \/ (InsertDimension(s) /\ ~ Fail(s))
  <2>1. UNCHANGED << wEmployees, wVersions >>
    BY <1>2 DEF RejectDimension, SelectDimension, UpdateDimension, GetCurrent, CloseSelect,
                InsertDimension
  <2>2. \A o \in Sessions \ {s} : pc'[o] = pc[o]
    BY <1>2 DEF RejectDimension, SelectDimension, UpdateDimension, GetCurrent, CloseSelect,
                InsertDimension, Goto, Accept, Reject, TypeInv, TypeOK
  <2> QED
    BY <2>1, <2>2
<1>3. CASE Fail(s) \/ Commit(s)
  <2>1. DropWrites(s) /\ \E label : Goto(s, label)
    BY <1>3 DEF Fail, Rollback, Commit
  <2> QED
    BY <2>1, Dropped DEF Goto, TypeInv, TypeOK
<1>4. CASE \/ AddEmployee(s) \/ CloseUpdate(s) \/ AddFirstVersion(s) \/ AddVersion(s)
           \/ UpdateCurrent(s)
  <2>1. CASE Fail(s)
    BY <1>3, <2>1
  <2>2. CASE ~ Fail(s)
    <3>1. \A o \in Sessions \ {s} : wEmployees'[o] = wEmployees[o]
      BY <1>4, <2>2 DEF AddEmployee, CloseUpdate, AddFirstVersion, AddVersion, InsertVersion,
                        UpdateCurrent, TypeInv, TypeOK
    <3>2. \A o \in Sessions \ {s} : wVersions'[o] = wVersions[o]
      BY <1>4, <2>2 DEF AddEmployee, CloseUpdate, AddFirstVersion, AddVersion, InsertVersion,
                        UpdateCurrent, TypeInv, TypeOK
    <3>3. \A o \in Sessions \ {s} : pc'[o] = pc[o]
      BY <1>4, <2>2 DEF AddEmployee, CloseUpdate, AddFirstVersion, AddVersion, InsertVersion,
                        UpdateCurrent, Accept, Goto, TypeInv, TypeOK
    <3> QED
      BY <3>1, <3>2, <3>3
  <2> QED
    BY <2>1, <2>2
<1>5. CASE Abort(s) \/ DeadlockVictim(s)
  BY <1>3, <1>5 DEF Abort, DeadlockVictim
<1>6. CASE Statement(s)
  BY <1>1, <1>2, <1>3, <1>4, <1>5, <1>6, OutOfRangeIsAbort DEF Statement
<1> QED
  BY <1>1, <1>5, <1>6

\* A session rests after a commit, a rollback or a refresh.
LEMMA RestingStep ==
    ASSUME TypeInv, RestingClean, [Next]_vars
    PROVE  RestingClean'
<1>1. CASE UNCHANGED vars \/ Quiet
  BY <1>1 DEF Quiet, vars, writes, RestingClean, NoUncommitted
<1>2. ASSUME NEW s \in Sessions, Receive(s) \/ Statement(s) \/ Abort(s) \/ DeadlockVictim(s)
      PROVE  RestingClean'
  <2>1. ASSUME pc'[s] \in Resting PROVE NoUncommitted(s)'
    <3>1. CASE Receive(s)
      BY <2>1, <3>1 DEF Receive, Goto, TypeInv, TypeOK, Resting
    <3>2. CASE Works(s)
      BY <2>1, <3>2 DEF Works
    <3>3. CASE Fails(s) \/ Commit(s)
      <4>1. DropWrites(s)
        BY <3>3 DEF Fails, Fail, Rollback, Commit
      <4> QED
        BY <4>1, Dropped DEF NoUncommitted
    <3>4. CASE Refresh(s)
      BY <3>4 DEF Refresh, writes, RestingClean, NoUncommitted, Resting
    <3> QED
      BY <1>2, <3>1, <3>2, <3>3, <3>4, StepKinds
  <2>2. ASSUME NEW o \in Sessions \ {s}, pc'[o] \in Resting PROVE NoUncommitted(o)'
    BY <1>2, <2>2, OthersRest DEF RestingClean, NoUncommitted
  <2> QED
    BY <2>1, <2>2 DEF RestingClean
<1> QED
  BY <1>1, <1>2 DEF Next

\* Whoever disagreed with its versions and still does has no new version.
LEMMA ServeDisagreement ==
    ASSUME Consistent, OnlyBackfilledDisagree, Serve
    PROVE  OnlyBackfilledDisagree'
<1>1. TypeInv' /\ [Next]_vars /\ revision = "0003" /\ revision' = "0003"
  BY ConsistentStep DEF Serve, Consistent
<1>2. SUFFICES ASSUME NEW e \in EmployeeIds
               PROVE  \/ InSync(employees, versions, e)'
                      \/ e \in backfilled' /\ employees'[e].current = employees'[e].hired_as
  BY DEF OnlyBackfilledDisagree
<1>3. \/ InSync(employees, versions, e)
      \/ e \in backfilled /\ employees[e].current = employees[e].hired_as
  BY <1>1 DEF OnlyBackfilledDisagree
<1>4. ASSUME e \in backfilled, CurrentIn(versions', e) = CurrentIn(versions, e)
      PROVE  e \in backfilled'
  BY <1>4 DEF Serve, Replaced
<1>5. CASE UNCHANGED << employees, versions >>
  <2>1. CurrentIn(versions', e) = CurrentIn(versions, e)
    BY <1>5 DEF CurrentIn
  <2>2. InSync(employees, versions, e) => InSync(employees, versions, e)'
    BY <1>5, <2>1 DEF InSync
  <2> QED
    BY <1>3, <1>4, <1>5, <2>1, <2>2
<1>6. ASSUME NEW s \in Sessions, Commit(s)
      PROVE  \/ InSync(employees, versions, e)'
             \/ e \in backfilled' /\ employees'[e].current = employees'[e].hired_as
  <2>1. CASE Touches(s, e)
    BY <1>1, <1>6, <2>1, CommitSyncs
  <2>2. CASE ~ Touches(s, e)
    <3>1. /\ employees'[e] = employees[e]
          /\ CurrentIn(versions', e) = CurrentIn(versions, e)
      BY <1>1, <1>6, <2>2, UntouchedByCommit
    <3>2. InSync(employees, versions, e) => InSync(employees, versions, e)'
      BY <1>1, <1>6, <2>2, CommitKeepsSync
    <3> QED
      BY <1>3, <1>4, <3>1, <3>2
  <2> QED
    BY <2>1, <2>2
<1> QED
  BY <1>1, <1>5, <1>6, OnlyCommitPublishes

-----------------------------------------------------------------------------
(***************************************************************************)
(* The migrations.                                                         *)
(***************************************************************************)

\* Nobody works while a migration runs, so nothing is uncommitted.
LEMMA StoppedSettles ==
    Stopped /\ RestingClean =>
        /\ LocksExclusive
        /\ \A s \in Sessions : TargetInv(s) /\ FactsKept(s) /\ SessionInv(s)
<1> SUFFICES ASSUME Stopped, RestingClean
             PROVE  /\ LocksExclusive
                    /\ \A s \in Sessions : TargetInv(s) /\ FactsKept(s) /\ SessionInv(s)
  OBVIOUS
<1>1. \A s \in Sessions : pc[s] = "idle" /\ NoUncommitted(s)
  BY DEF Stopped, RestingClean, Resting
<1>2. LocksExclusive
  BY <1>1 DEF LocksExclusive, NoUncommitted
<1>3. ASSUME NEW s \in Sessions PROVE TargetInv(s) /\ FactsKept(s) /\ SessionInv(s)
  BY <1>1 DEF TargetInv, FactsKept, SessionInv, Settled, Touches, Midway, NoUncommitted
<1> QED
  BY <1>2, <1>3

\* A migration adds no employee, removes none and keeps what they were hired as.
KeepsHires(changed) ==
    \A e \in Hired : /\ changed[e] # NoRow
                     /\ changed[e].hired_as = employees[e].hired_as
                     /\ changed[e].hire_datetime = employees[e].hire_datetime

LEMMA MigrateKeeps ==
    ASSUME NEW changed, Migrate(changed), KeepsHires(changed)
    PROVE  /\ \A e \in EmployeeIds : employees'[e] = NoRow <=> employees[e] = NoRow
           /\ \A e \in Hired : employees'[e] = changed[e]
           /\ UNCHANGED versions
           /\ OneVersionEach => OneVersionEach'
           /\ HireFactsKept /\ HistoryKept
<1>1. /\ \A e \in Hired : employees'[e] = changed[e]
      /\ \A e \in EmployeeIds \ Hired : employees'[e] = NoRow
      /\ UNCHANGED versions
  BY DEF Migrate, Hired
<1>2. \A e \in EmployeeIds : employees'[e] = NoRow <=> employees[e] = NoRow
  BY <1>1 DEF Hired, KeepsHires
<1>3. OneVersionEach => OneVersionEach'
  BY <1>1, <1>2 DEF OneVersionEach, OneVersion, CurrentIn
<1>4. HireFactsKept
  BY <1>1, <1>2 DEF HireFactsKept, KeepsHires, Hired
<1>5. HistoryKept
  BY <1>1 DEF HistoryKept
<1> QED
  BY <1>1, <1>2, <1>3, <1>4, <1>5

LEMMA DowngradeStep ==
    ASSUME Consistent, RestingClean, Downgrade
    PROVE  /\ Downgraded0002' /\ RestingClean' /\ HireFactsKept /\ HistoryKept
<1> DEFINE changed == [e \in Hired |-> Downgraded(employees[e])]
<1>1. TypeInv /\ OneVersionEach /\ SequenceAhead /\ Migrate(changed)
  BY DEF Consistent, Downgrade
<1>2. ASSUME NEW e \in Hired
      PROVE  /\ changed[e] \in EmployeeWithoutColumns
             /\ changed[e].hired_as = employees[e].hired_as
             /\ changed[e].hire_datetime = employees[e].hire_datetime
  <2>1. employees[e] \in Employee
    BY <1>1 DEF TypeInv, TypeOK, Hired
  <2> QED
    BY <2>1 DEF Downgraded, Employee, EmployeeWithoutColumns
<1> HIDE DEF changed
<1>3. KeepsHires(changed)
  BY <1>2, ColumnsAssumption DEF KeepsHires, EmployeeWithoutColumns
<1>4. /\ HireFactsKept /\ HistoryKept /\ OneVersionEach'
      /\ \A e \in Hired : employees'[e] = changed[e]
  BY <1>1, <1>3, MigrateKeeps
<1>5. UNCHANGED << dimensions, versions, loads, rejected, loadSeq, versionSeq, clock,
                   wDimensions, wEmployees, wVersions, pc, req, local, answer >>
  BY <1>1 DEF Migrate, sequences, writes
<1>6. employees' \in [EmployeeIds -> EmployeeWithoutColumns \cup {NoRow}]
  <2>1. employees' = [e \in EmployeeIds |-> IF e \in Hired THEN changed[e] ELSE NoRow]
    BY <1>1 DEF Migrate
  <2> QED
    BY <1>2, <2>1
<1>7. TypeWithoutColumns'
  BY <1>1, <1>5, <1>6 DEF TypeInv, TypeOK, TypeWithoutColumns
<1>8. ASSUME NEW s \in Sessions PROVE RowInv(s)'
  BY <1>1, <1>5 DEF TypeInv, RowInv, MoreRows, Row
<1>9. Stopped' /\ RestingClean' /\ SequenceAhead'
  BY <1>1, <1>5 DEF Migrate, Stopped, RestingClean, NoUncommitted, SequenceAhead
<1> QED
  BY <1>4, <1>7, <1>8, <1>9 DEF Downgraded0002

LEMMA UpgradeStep ==
    ASSUME Downgraded0002, RestingClean, Upgrade
    PROVE  /\ Consistent' /\ RestingClean' /\ HireFactsKept /\ HistoryKept
           /\ OnlyBackfilledDisagree'
<1> DEFINE changed == [e \in Hired |-> Upgraded(employees[e])]
<1>1. TypeWithoutColumns /\ OneVersionEach /\ SequenceAhead /\ Migrate(changed)
  BY DEF Downgraded0002, Upgrade
<1>2. ASSUME NEW e \in Hired
      PROVE  /\ changed[e] \in Employee
             /\ changed[e].current = changed[e].hired_as
             /\ changed[e].hired_as = employees[e].hired_as
             /\ changed[e].hire_datetime = employees[e].hire_datetime
  <2>1. employees[e] \in EmployeeWithoutColumns
    BY <1>1 DEF TypeWithoutColumns, Hired
  <2> QED
    BY <2>1 DEF Upgraded, Employee, EmployeeWithoutColumns
<1> HIDE DEF changed
<1>3. KeepsHires(changed)
  BY <1>2, NoRowAssumption DEF KeepsHires
<1>4. /\ HireFactsKept /\ HistoryKept /\ OneVersionEach'
      /\ \A e \in Hired : employees'[e] = changed[e]
      /\ \A e \in EmployeeIds : employees'[e] = NoRow <=> employees[e] = NoRow
  BY <1>1, <1>3, MigrateKeeps
<1>5. UNCHANGED << dimensions, versions, loads, rejected, loadSeq, versionSeq, clock,
                   wDimensions, wEmployees, wVersions, pc, req, local, answer >>
  BY <1>1 DEF Migrate, sequences, writes
<1>6. employees' \in [EmployeeIds -> Employee \cup {NoRow}]
  <2>1. employees' = [e \in EmployeeIds |-> IF e \in Hired THEN changed[e] ELSE NoRow]
    BY <1>1 DEF Migrate
  <2> QED
    BY <1>2, <2>1
<1>7. TypeOK'
  BY <1>1, <1>5, <1>6 DEF TypeOK, TypeWithoutColumns
<1>8. ASSUME NEW s \in Sessions PROVE RowInv(s)'
  BY <1>5 DEF Downgraded0002, RowInv, MoreRows, Row
<1>9. Stopped' /\ RestingClean' /\ SequenceAhead'
  BY <1>1, <1>5 DEF Migrate, Stopped, RestingClean, NoUncommitted, SequenceAhead
<1>10. (/\ LocksExclusive
        /\ \A s \in Sessions : TargetInv(s) /\ FactsKept(s) /\ SessionInv(s))'
  BY <1>9, StoppedSettles, PTL
<1>11. Consistent'
  BY <1>4, <1>7, <1>8, <1>9, <1>10 DEF Consistent, TypeInv
<1>12. OnlyBackfilledDisagree'
  <2>1. ASSUME NEW e \in EmployeeIds, e \in Hired
        PROVE  e \in backfilled' /\ employees'[e].current = employees'[e].hired_as
    BY <1>2, <1>4, <2>1 DEF Upgrade
  <2>2. ASSUME NEW e \in EmployeeIds, e \notin Hired PROVE InSync(employees, versions, e)'
    BY <1>4, <2>2 DEF Hired, OneVersionEach, OneVersion, InSync
  <2> QED
    BY <2>1, <2>2 DEF OnlyBackfilledDisagree
<1> QED
  BY <1>4, <1>9, <1>11, <1>12

-----------------------------------------------------------------------------
(***************************************************************************)
(* The theorems.                                                           *)
(***************************************************************************)
LEMMA MigrationInvInit == MigrationInit => MigrationInv
<1> SUFFICES ASSUME MigrationInit PROVE MigrationInv
  OBVIOUS
<1>1. Consistent /\ CurrentStateInSync
  BY InvInit DEF MigrationInit, IInv
<1>2. RestingClean
  BY DEF MigrationInit, Init, RestingClean, NoUncommitted, NoEmployees, NoVersions
<1> QED
  BY <1>1, <1>2 DEF MigrationInit, MigrationInv, OnlyBackfilledDisagree, CurrentStateInSync

LEMMA MigrationStep ==
    ASSUME MigrationInv, [MigrationNext]_migrationVars
    PROVE  MigrationInv' /\ HireFactsKept /\ HistoryKept
<1>1. CASE UNCHANGED migrationVars
  <2>1. UNCHANGED vars /\ UNCHANGED << employees, versions, revision, backfilled >>
    BY <1>1 DEF migrationVars, vars, tables
  <2>2. HireFactsKept /\ HistoryKept
    BY <2>1 DEF HireFactsKept, HistoryKept
  <2>3. revision = "0003" => Consistent'
    BY <2>1, ConsistentStep DEF MigrationInv
  <2>4. RestingClean'
    BY <2>1 DEF vars, writes, MigrationInv, RestingClean, NoUncommitted
  <2>5. revision = "0002" => Downgraded0002'
    <3> SUFFICES ASSUME Downgraded0002 PROVE Downgraded0002'
      BY DEF MigrationInv
    <3>1. TypeWithoutColumns'
      BY <2>1 DEF vars, tables, writes, sequences, Downgraded0002, TypeWithoutColumns
    <3>2. ASSUME NEW s \in Sessions PROVE RowInv(s)'
      <4>1. UNCHANGED << pc, req >>
        BY <2>1 DEF vars
      <4> QED
        BY <4>1 DEF Downgraded0002, RowInv, MoreRows, Row
    <3>3. Stopped' /\ OneVersionEach' /\ SequenceAhead'
      BY <2>1 DEF vars, writes, sequences, Downgraded0002, Stopped, OneVersionEach, OneVersion,
                  CurrentIn, SequenceAhead
    <3> QED
      BY <3>1, <3>2, <3>3 DEF Downgraded0002
  <2>6. OnlyBackfilledDisagree'
    BY <2>1 DEF MigrationInv, OnlyBackfilledDisagree, InSync, CurrentIn
  <2> QED
    BY <2>1, <2>2, <2>3, <2>4, <2>5, <2>6 DEF MigrationInv
<1>2. CASE Downgrade
  <2>1. Consistent /\ RestingClean /\ revision' = "0002"
    BY <1>2 DEF MigrationInv, Downgrade
  <2> QED
    BY <1>2, <2>1, DowngradeStep DEF MigrationInv, OnlyBackfilledDisagree
<1>3. CASE Upgrade
  <2>1. Downgraded0002 /\ RestingClean /\ revision' = "0003"
    BY <1>3 DEF MigrationInv, Upgrade
  <2> QED
    BY <1>3, <2>1, UpgradeStep DEF MigrationInv
<1>4. CASE Serve
  <2>1. Consistent /\ RestingClean /\ TypeInv /\ [Next]_vars /\ revision' = "0003"
    BY <1>4 DEF MigrationInv, Serve, Consistent
  <2>2. Consistent' /\ RestingClean' /\ OnlyBackfilledDisagree'
    BY <1>4, <2>1, ConsistentStep, RestingStep, ServeDisagreement DEF MigrationInv
  <2>3. HireFactsKept /\ HistoryKept
    BY <2>1, HireFactsStep, HistoryStep
  <2> QED
    BY <2>1, <2>2, <2>3 DEF MigrationInv
<1> QED
  BY <1>1, <1>2, <1>3, <1>4 DEF MigrationNext

\* The inductive invariant holds in every state, whatever migrations and loads
\* follow each other.
THEOREM MigrationInvariance == MigrationSpec => []MigrationInv
<1>1. MigrationInv /\ [MigrationNext]_migrationVars => MigrationInv'
  BY MigrationStep
<1> QED
  BY <1>1, MigrationInvInit, PTL DEF MigrationSpec

\* At the head revision an employee whose columns disagree with its current
\* version is one that the upgrade has filled with the hire facts and that has
\* had no new version since, however many migrations and handlers there are
\* (0003_employees_current_state.py).
THEOREM OnlyBackfilledEverDisagree == MigrationSpec => []OnlyBackfilledDisagree
<1>1. MigrationInv => OnlyBackfilledDisagree
  BY DEF MigrationInv
<1> QED
  BY <1>1, MigrationInvariance, PTL

\* No migration, and no statement on what a migration leaves, changes a hire
\* fact or a closed version (0003_employees_current_state.py, _persist_hire).
THEOREM MigrationsAlwaysKeepFacts == MigrationSpec => MigrationsKeepFacts
<1>1. MigrationInv /\ [MigrationNext]_migrationVars => [HireFactsKept /\ HistoryKept]_migrationVars
  BY MigrationStep
<1> QED
  BY <1>1, MigrationInvariance, PTL DEF MigrationSpec, MigrationsKeepFacts
=============================================================================
