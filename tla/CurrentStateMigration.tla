------------------------ MODULE CurrentStateMigration ------------------------
(***************************************************************************)
(* Migration 0003_employees_current_state beside the ingestion: its        *)
(* downgrade drops the columns of the current state from employees, and its*)
(* upgrade adds them again and fills them with the hire facts.  env.py runs*)
(* a migration in one transaction, and docker-entrypoint.sh runs it before *)
(* the server starts: in one action, while no request is being handled.    *)
(***************************************************************************)
EXTENDS IngestBatch

CONSTANTS
    NoColumns,      \* employees has no columns for the current state
    MaxMigrations   \* bound: downgrades

ASSUME MigrationsAssumption == MaxMigrations \in Nat

\* A row of employees without those columns is a row.
ASSUME ColumnsAssumption ==
    NoRow \notin [hire_datetime : Nat, hired_as : Attributes, current : {NoColumns}]

VARIABLES
    revision,       \* alembic_version
    migrations,     \* how many downgrades there were
    backfilled      \* the employees that have had no new version since the upgrade

migrationVars == << vars, revision, migrations, backfilled >>

\* No request is being handled: the server is not running yet.
Stopped == \A s \in Sessions : pc[s] = "idle"

\* A mutant of Downgraded: the current state moves to the columns that stay.
DowngradedToCurrent(employee) ==
    [employee EXCEPT !.hired_as = employee.current, !.current = NoColumns]

\* op.drop_column of the three columns.
Downgraded(employee) == [employee EXCEPT !.current = NoColumns]

\* A mutant of Upgraded: the columns are added and not filled.
UpgradedUnfilled(employee) == employee

\* SET name = name_at_hire, department_id = hire_department_id, ...
Upgraded(employee) == [employee EXCEPT !.current = employee.hired_as]

Hired == {e \in EmployeeIds : employees[e] # NoRow}

\* The rows of employees are changed, and nothing else.
Migrate(changed) ==
    /\ Stopped
    /\ employees' = [e \in EmployeeIds |-> IF e \in Hired THEN changed[e] ELSE NoRow]
    /\ UNCHANGED << dimensions, versions, loads, rejected, sequences, writes, pc, req,
                    local, answer >>

Downgrade ==
    /\ revision = "0003" /\ migrations < MaxMigrations
    /\ revision' = "0002"
    /\ migrations' = migrations + 1
    /\ Migrate([e \in Hired |-> Downgraded(employees[e])])
    /\ UNCHANGED backfilled

Upgrade ==
    /\ revision = "0002"
    /\ revision' = "0003"
    /\ Migrate([e \in Hired |-> Upgraded(employees[e])])
    /\ backfilled' = Hired
    /\ UNCHANGED migrations

\* The employee whose committed current version another one replaces.
Replaced(e) == CurrentIn(versions', e) # CurrentIn(versions, e)

\* The server runs at the head revision (docker-entrypoint.sh).
Serve ==
    /\ revision = "0003"
    /\ Next
    /\ backfilled' = {e \in backfilled : ~ Replaced(e)}
    /\ UNCHANGED << revision, migrations >>

MigrationInit ==
    /\ Init
    /\ revision = "0003" /\ migrations = 0 /\ backfilled = {}

MigrationNext == Downgrade \/ Upgrade \/ Serve

MigrationSpec == MigrationInit /\ [][MigrationNext]_migrationVars

-----------------------------------------------------------------------------
(***************************************************************************)
(* Properties.                                                             *)
(***************************************************************************)
\* At the head revision an employee disagrees with its current version only
\* until its next transfer: the row then holds the hire facts that the upgrade
\* has copied, and no version was added since.  Identical uploads, stale reads
\* and failures in between never spread the disagreement.
OnlyBackfilledDisagree ==
    revision = "0003" =>
        \A e \in EmployeeIds :
            \/ InSync(employees, versions, e)
            \/ e \in backfilled /\ employees[e].current = employees[e].hired_as

\* A downgrade and an upgrade lose nothing that cannot be computed: hire facts
\* and history are those of before ("additive, not a replacement",
\* docs/DECISIONS.md), and no step of the server on the migrated rows changes
\* them either.
MigrationsKeepFacts == [][HireFactsKept /\ HistoryKept]_migrationVars
=============================================================================
