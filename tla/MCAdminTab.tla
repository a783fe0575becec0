---------------------------- MODULE MCAdminTab ----------------------------
(***************************************************************************)
(* The Admin tab with two handlers: all restores in the documented order,  *)
(* of which some may be given up, or a few requests on one table beside    *)
(* those of another operator.                                              *)
(***************************************************************************)
EXTENDS AdminTab, MCBackupRestore, TLC

CONSTANT FewRequests   \* the bound on requests when any button may be clicked

Restores == {[op |-> "restore", table |-> t] : t \in Tables}
OnOneTable ==
    {[op |-> "backup", table |-> "employees"], [op |-> "restore", table |-> "employees"],
     [op |-> "reset", table |-> "employees"]}
MCButtons == Restores \cup OnOneTable

VARIABLE operator   \* what the operator of the tab is doing

\* The operator restores the tables in their order, from the one that failed or
\* from the first again, and nobody else is at work.
InDocumentedOrder ==
    /\ clicked' # clicked /\ clicked' # NoClick =>
         /\ clicked' \in Restores
         /\ clicked'.table \in {TableNames[1]} \cup {t \in Tables : NextToRestore(t)}
    /\ requests' # requests => clicked' # clicked

\* One table beside another operator's requests for it and for a table whose
\* restore cascades to it.
OnOneTableOnly ==
    /\ clicked' # clicked /\ clicked' # NoClick => clicked' \in OnOneTable
    /\ requests' <= FewRequests
    /\ \A s \in Admins : pc[s] = "idle" /\ pc'[s] # "idle" =>
         job'[s].op = "reset" \/ job'[s].table \in {"departments", "employees"}

\* Nothing is left to be tried, clicked or answered.
TrialEnds ==
    /\ operator = "trying" /\ requests = FewRequests /\ clicked = NoClick
    /\ \A s \in Sessions : pc[s] = "idle"
    /\ UNCHANGED << tabVars, operator >>

MCInit == TabInit /\ operator \in {"restoring", "trying"}

MCNext ==
    \/ /\ TabNext
       /\ operator = "restoring" => InDocumentedOrder
       /\ operator = "trying" => OnOneTableOnly
       /\ UNCHANGED operator
    \/ TrialEnds

MCSpec == MCInit /\ [][MCNext]_<< tabVars, operator >>

OneHandlerLikeAnother == Permutations(Admins)
=============================================================================
