---------------------------- MODULE MCBackupSet ----------------------------
(***************************************************************************)
(* The first backup of the six tables, in the documented order, while a    *)
(* new employee is hired.                                                  *)
(***************************************************************************)
EXTENDS MCBackupRestore

NewHire == { [target |-> "hired_employees", id |-> 2, attributes |-> At("bob")] }

\* docs/DECISIONS.md: "An operator backs up or restores everything by invoking
\* the command six times in the documented order."
InDocumentedOrder ==
    \A s \in Admins :
        requests' # requests /\ job'[s] # job[s] =>
            job'[s].op = "backup" /\ job'[s].table = TableNames[requests']

OrderedSpec ==
    /\ Init /\ db = Populated /\ \A t \in Tables : files[t] = NoFile
    /\ [][Next /\ InDocumentedOrder]_vars
=============================================================================
