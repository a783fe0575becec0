------------------------------ MODULE AdminTab ------------------------------
(***************************************************************************)
(* The Admin tab (render_admin of src/app/interface/ui/streamlit_app.py and*)
(* ui/backup_restore.py) beside the server of BackupRestore: a click posts *)
(* a request and waits 30 seconds for its answer, a successful backup is   *)
(* followed by a GET of the file, and the outcomes stay on the page until  *)
(* the next click of the same button.  Requests of another operator or of  *)
(* the command line run at the same time.                                  *)
(*                                                                         *)
(* The operator is logged in, and ticks or types the confirmation before   *)
(* the click of a restore or a reset.                                      *)
(***************************************************************************)
EXTENDS BackupRestore

CONSTANTS
    Buttons,     \* the buttons that may be clicked: [op, table]
    Elsewhere,   \* handlers that another operator or the command line may use
    Nobody,      \* no handler
    NoClick,     \* the page is not waiting for a request
    NoOutcome,   \* nothing of the kind is on the page
    NoContent    \* the GET of a download has failed

ASSUME NobodyAssumption == Nobody \notin Sessions
ASSUME NoClickAssumption == NoClick \notin Buttons

VARIABLES
    clicked,           \* the button whose request the page is waiting for
    posting,           \* the handler whose answer it waits for
    backupOutcome, downloadOutcome, restoreOutcome, resetOutcome, \* session_state
    written,           \* what the backup of the last click has written
    disturbed,         \* another backup of the table was at work since the click
    restored           \* so many tables were restored in order, and nothing else since
                       \* the click of the first

page == << backupOutcome, downloadOutcome, restoreOutcome, resetOutcome >>
tabVars == << vars, clicked, posting, page, written, disturbed, restored >>

OtherBackup(t) ==
    \E o \in Admins \ {posting} :
        pc[o] \in {"backup_select", "backup_open", "backup_close"} /\ job[o].table = t

\* The table that follows in the documented order of the restores.
NextToRestore(t) == restored < Len(TableNames) /\ TableNames[restored + 1] = t

\* Something else was at work: the restores begin anew with the next click.
Interrupted == Len(TableNames) + 1

\* A request of the click reaches a handler.
Click(s) ==
    /\ clicked = NoClick
    /\ \E b \in Buttons :
         /\ clicked' = b
         /\ \/ b.op = "backup" /\ PostBackup(s) /\ job'[s].table = b.table
            \/ b.op = "restore" /\ PostRestore(s) /\ job'[s].table = b.table
            \/ b.op = "reset" /\ PostReset(s)
         /\ disturbed' = OtherBackup(b.table)
         /\ restored' = IF b.op = "restore" /\ NextToRestore(b.table) THEN restored ELSE 0
    /\ posting' = s
    /\ written' = {}
    /\ UNCHANGED page

\* A mutant of Succeeded: any answer of the server counts as a success.
Answered(status) == status # "none"

\* interpret_backup_result, interpret_restore_result, interpret_reset_result
Succeeded(status) == status = "200"

\* A mutant of DropDownload: the button of the backup before stays.
KeepDownload(t) == UNCHANGED downloadOutcome

\* session_state.pop
DropDownload(t) == downloadOutcome' = [downloadOutcome EXCEPT ![t] = NoOutcome]

\* The outcome of the click is on the page; a backup that succeeded is
\* downloaded next.
Show(success) ==
    LET t == clicked.table
    IN  /\ CASE clicked.op = "backup" ->
                  /\ backupOutcome' = [backupOutcome EXCEPT ![t] = success]
                  /\ IF success THEN UNCHANGED downloadOutcome ELSE DropDownload(t)
                  /\ UNCHANGED << restoreOutcome, resetOutcome >>
             [] clicked.op = "restore" ->
                  /\ restoreOutcome' = [restoreOutcome EXCEPT ![t] = success]
                  /\ UNCHANGED << backupOutcome, downloadOutcome, resetOutcome >>
             [] clicked.op = "reset" ->
                  /\ resetOutcome' = success
                  /\ UNCHANGED << backupOutcome, downloadOutcome, restoreOutcome >>
        /\ clicked' = IF clicked.op = "backup" /\ success THEN clicked ELSE NoClick
        /\ posting' = Nobody
        /\ restored' = IF success /\ clicked.op = "restore" /\ NextToRestore(t)
                         THEN restored + 1 ELSE restored
        /\ UNCHANGED << vars, written, disturbed >>

TakeAnswer ==
    /\ posting # Nobody /\ pc[posting] = "idle"
    /\ Show(Succeeded(answer[posting]))

\* The answer is lost or takes more than 30 seconds; the handler goes on.
GiveUp == posting # Nobody /\ Show(FALSE)

\* get_file_fn: download_backup serves whatever the file holds by now; the GET
\* may fail like any other request.
Download ==
    LET t == clicked.table
        outcome == [content |-> files[t], written |-> written, disturbed |-> disturbed]
    IN  /\ clicked # NoClick /\ posting = Nobody
        /\ \E o \in {NoContent} \cup (IF files[t] = NoFile THEN {} ELSE {outcome}) :
             downloadOutcome' = [downloadOutcome EXCEPT ![t] = o]
        /\ clicked' = NoClick
        /\ UNCHANGED << vars, posting, backupOutcome, restoreOutcome, resetOutcome,
                        written, disturbed, restored >>

\* A file is written, or anything but a restore of the page takes effect.
Interferes ==
    \/ files' # files
    \/ db' # db /\ ~ (posting # Nobody /\ RestoreCommit(posting))
    \/ /\ \E t \in IdentityTables : nextId'[t] < nextId[t]
       /\ ~ (posting # Nobody /\ RestoreInsert(posting))

\* The server at work, on the request of the page or another one.
ServerStep ==
    /\ \/ \E s \in Sessions : Statement(s) \/ RefreshFails(s) \/ Abort(s) \/ DeadlockVictim(s)
       \/ \E s \in Elsewhere \ {posting} : Post(s)
    /\ UNCHANGED << clicked, posting, page >>
    /\ written' = IF posting # Nobody /\ BackupClose(posting) THEN job[posting].rows ELSE written
    /\ disturbed' = (disturbed \/ (clicked # NoClick /\ OtherBackup(clicked.table)'))
    /\ restored' = IF Interferes THEN Interrupted ELSE restored

TabInit ==
    /\ Init
    /\ clicked = NoClick /\ posting = Nobody
    /\ backupOutcome = [t \in Tables |-> NoOutcome]
    /\ downloadOutcome = [t \in Tables |-> NoOutcome]
    /\ restoreOutcome = [t \in Tables |-> NoOutcome]
    /\ resetOutcome = NoOutcome
    /\ written = {} /\ disturbed = FALSE /\ restored = 0

\* Nothing is left to be clicked or answered.
TabQuiet ==
    /\ requests = MaxRequests /\ clicked = NoClick
    /\ \A s \in Sessions : pc[s] = "idle"
    /\ UNCHANGED tabVars

TabNext ==
    \/ \E s \in Admins : Click(s)
    \/ TakeAnswer \/ GiveUp \/ Download \/ ServerStep \/ TabQuiet

TabSpec == TabInit /\ [][TabNext]_tabVars

-----------------------------------------------------------------------------
(***************************************************************************)
(* Properties.                                                             *)
(***************************************************************************)
\* A file is offered for download next to a successful backup of its table
\* only, and it is the one that this backup has written, although the GET
\* serves whatever the file holds by then: unless another backup of the same
\* table, such as one that the page has given up, was at work since the click.
DownloadIsTheBackup ==
    \A t \in Tables : downloadOutcome[t] # NoOutcome =>
        /\ backupOutcome[t] = TRUE
        /\ \/ downloadOutcome[t] = NoContent
           \/ downloadOutcome[t].disturbed
           \/ downloadOutcome[t].content = downloadOutcome[t].written

\* Six restores in the documented order that the page has shown to succeed,
\* with nothing else committed in between, leave the database as the files
\* have it, and its sequences ahead: also when a restore of the same or of
\* another table that was clicked before, or given up, is still at work.
SixRestoresRecover ==
    restored = Len(TableNames) =>
        /\ \A t \in Tables : Restorable(t, db[t]) = Restorable(t, files[t])
        /\ \A t \in IdentityTables : ~ Behind(t)
=============================================================================
