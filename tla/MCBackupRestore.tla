-------------------------- MODULE MCBackupRestore --------------------------
(***************************************************************************)
(* Two admin handlers and one ingestion on tables that hold one employee,  *)
(* or on a new database beside the files of an old one.                    *)
(***************************************************************************)
EXTENDS BackupRestore

At(name) == [name |-> name, department_id |-> 1, job_id |-> 1]

MCPopulated ==
    [t \in Tables |->
        CASE t = "departments" -> {[id |-> 1, name |-> "sales"]}
          [] t = "jobs" -> {[id |-> 1, name |-> "clerk"]}
          [] t = "employees" ->
               {[id |-> 1, hired_as |-> At("ann"), current |-> At("anna"), first_loaded_at |-> 0]}
          [] t = "employee_versions" ->
               {[id |-> 1, employee_id |-> 1, attributes |-> At("ann"), is_current |-> FALSE],
                [id |-> 2, employee_id |-> 1, attributes |-> At("anna"), is_current |-> TRUE]}
          [] t = "loads" -> {[id |-> i, accepted |-> 1, rejected |-> 0] : i \in 1 .. 2}
                            \cup {[id |-> 3, accepted |-> 2, rejected |-> 1]}
          [] t = "rejected_records" -> {[id |-> 1, load_id |-> 3]}]

\* A second department, and the employee transferred or hired again.
MCUploads ==
    { [target |-> "departments", id |-> 2, name |-> "lab"],
      [target |-> "hired_employees", id |-> 1, attributes |-> At("ann")] }
=============================================================================
