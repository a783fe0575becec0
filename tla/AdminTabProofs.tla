--------------------------- MODULE AdminTabProofs ---------------------------
(***************************************************************************)
(* The Admin tab uses the server of BackupRestore as any client may, so    *)
(* what is proved there holds beside it; a download is the backup of the   *)
(* click; and six restores that the page has shown to succeed bring the    *)
(* database back.                                                          *)
(***************************************************************************)
EXTENDS AdminTab, BackupRestoreProofs

LEMMA ClickPosts ==
    ASSUME NEW s \in Admins, Click(s)
    PROVE  Post(s) /\ Next
<1>1. PostBackup(s) \/ PostRestore(s) \/ PostReset(s)
  BY DEF Click
<1> QED
  BY <1>1 DEF Post, Next, Sessions

\* The handler whose step a step of the server is.
LEMMA ServerActor ==
    ASSUME ServerStep
    PROVE  \E s \in Sessions :
             \/ Statement(s) \/ RefreshFails(s) \/ Abort(s) \/ DeadlockVictim(s)
             \/ Post(s) /\ s # posting
<1>1. CASE \E s \in Sessions : Statement(s) \/ RefreshFails(s) \/ Abort(s) \/ DeadlockVictim(s)
  BY <1>1
<1>2. ASSUME NEW s \in Elsewhere \ {posting}, Post(s)
      PROVE  s \in Sessions /\ s # posting
  BY <1>2 DEF Post, PostUpload, Sessions
<1> QED
  BY <1>1, <1>2 DEF ServerStep

LEMMA TabServerNext ==
    ASSUME [TabNext]_tabVars
    PROVE  [Next]_vars
<1>1. CASE UNCHANGED tabVars \/ TabQuiet
  BY <1>1 DEF TabQuiet, tabVars
<1>2. CASE TakeAnswer \/ GiveUp
  BY <1>2 DEF TakeAnswer, GiveUp, Show
<1>3. CASE Download
  BY <1>3 DEF Download
<1>4. CASE \E s \in Admins : Click(s)
  BY <1>4, ClickPosts
<1>5. CASE ServerStep
  BY <1>5, ServerActor DEF Next
<1> QED
  BY <1>1, <1>2, <1>3, <1>4, <1>5 DEF TabNext

\* A server that the Admin tab uses is one that any client of the API uses: no
\* click, no answer given up and no download takes it where other requests
\* would not.
THEOREM TabImplementsServer == TabSpec => Spec
<1>1. TabInit => Init
  BY DEF TabInit
<1> QED
  BY <1>1, TabServerNext, PTL DEF TabSpec, Spec

\* Beside the tab, too, an answer tells what was committed.
THEOREM TabAnswersAreTrue == TabSpec => []AnswerTellsOutcome
BY TabImplementsServer, AnswersAreTrue, PTL

-----------------------------------------------------------------------------
(***************************************************************************)
(* What is downloaded.                                                     *)
(***************************************************************************)
BackupStages == {"backup_select", "backup_open", "backup_close"}

PageOK ==
    /\ posting \in Admins \cup {Nobody}
    /\ posting # Nobody => clicked # NoClick
    /\ DOMAIN backupOutcome = Tables /\ DOMAIN downloadOutcome = Tables
    /\ clicked # NoClick =>
         /\ clicked.op \in {"backup", "restore", "reset"}
         /\ clicked.op # "reset" => clicked.table \in Tables
    /\ clicked # NoClick /\ posting = Nobody =>
         clicked.op = "backup" /\ backupOutcome[clicked.table] = TRUE

\* Another backup of the table is noticed, and without one the file is what
\* the handler of the click has made it.
BackupOK ==
    clicked # NoClick =>
        /\ OtherBackup(clicked.table) => disturbed
        /\ posting = Nobody => disturbed \/ files[clicked.table] = written
        /\ posting # Nobody /\ clicked.op = "backup" =>
             /\ pc[posting] \in {"idle"} \cup BackupStages
             /\ pc[posting] # "idle" => job[posting].table = clicked.table
             /\ pc[posting] = "backup_close" => disturbed \/ files[clicked.table] = Torn
             /\ pc[posting] = "idle" /\ answer[posting] = "200" =>
                  disturbed \/ files[clicked.table] = written

TabInv == PageOK /\ BackupOK /\ DownloadIsTheBackup

LEMMA VictimIsBusy ==
    ASSUME NEW s \in Sessions, DeadlockVictim(s)
    PROVE  pc[s] # "idle"
<1>1. SUFFICES ASSUME pc[s] = "idle" PROVE WaitsFor(s) = {}
  BY DEF DeadlockVictim, InWaitCycle
<1>2. NextLocks(s) = NoLocks
  BY <1>1 DEF NextLocks
<1> QED
  BY <1>2 DEF WaitsFor, NoLocks

\* A handler that has nothing to do takes no step.
LEMMA IdleStandsStill ==
    ASSUME NEW s \in Sessions, Statement(s) \/ RefreshFails(s) \/ Abort(s) \/ DeadlockVictim(s)
    PROVE  pc[s] # "idle"
<1>1. CASE Statement(s)
  BY <1>1 DEF Statement, BackupSelect, BackupOpen, BackupClose, RestoreRead, RestoreTruncate,
     RestoreInsert, RestoreCommit, ResetTruncate, ResetRefresh, ResetCommit, IngestCreate,
     IngestUpsert, IngestCheck, IngestReject, IngestPersist, IngestCommit, RefreshHires,
     RefreshAverage
<1>2. CASE RefreshFails(s) \/ Abort(s)
  BY <1>2 DEF RefreshFails, Abort, Refreshing
<1> QED
  BY <1>1, <1>2, VictimIsBusy

\* An operation that is cut short is answered with 500 and changes no file.
LEMMA CutShort ==
    ASSUME BInv, NEW s \in Sessions, RefreshFails(s) \/ Abort(s) \/ DeadlockVictim(s),
           pc[s] \notin RefreshSteps
    PROVE  /\ UNCHANGED << db, files, nextId >> /\ work'[s] = NoWrites
           /\ pc'[s] = "idle" /\ answer'[s] = "500"
<1>1. Fail(s) /\ UNCHANGED nextId
  BY DEF RefreshFails, Abort, DeadlockVictim, Refreshing, RefreshSteps
<1> QED
  BY <1>1 DEF Fail, Answer, EndTransaction, Goto, BInv, HandlersOK

\* A backup at its close or its open writes the file of its table.
LEMMA FilesWritten ==
    ASSUME BInv, NEW s \in Sessions, NEW t \in Tables, files'[t] # files[t],
           Post(s) \/ Statement(s) \/ RefreshFails(s) \/ Abort(s) \/ DeadlockVictim(s)
    PROVE  s \in Admins /\ pc[s] \in BackupStages /\ job[s].table = t
<1>1. DOMAIN files = Tables /\ PlaceOK(s)
  BY DEF BInv, DatabaseOK, SessionOK
<1>2. CASE BackupOpen(s) \/ BackupClose(s)
  <2>1. pc[s] \in BackupStages /\ job[s].table = t
    BY <1>1, <1>2 DEF BackupOpen, BackupClose, BackupStages
  <2> QED
    BY <1>1, <2>1 DEF BackupStages, PlaceOK, IngestSteps, LoadingSteps, RefreshSteps, Sessions
<1>3. CASE Post(s) \/ RefreshFails(s) \/ Abort(s) \/ DeadlockVictim(s)
  BY <1>3 DEF Post, PostBackup, PostRestore, PostReset, PostUpload, RefreshFails, Abort,
     DeadlockVictim, Fail
<1>4. CASE \/ BackupSelect(s) \/ RestoreRead(s) \/ RestoreTruncate(s) \/ RestoreInsert(s)
           \/ RestoreCommit(s) \/ ResetTruncate(s) \/ ResetRefresh(s) \/ ResetCommit(s)
           \/ IngestCreate(s) \/ IngestUpsert(s) \/ IngestCheck(s) \/ IngestReject(s)
           \/ IngestPersist(s) \/ IngestCommit(s) \/ RefreshHires(s) \/ RefreshAverage(s)
  BY <1>4 DEF BackupSelect, RestoreRead, RestoreTruncate, RestoreInsert, RestoreCommit,
     ResetTruncate, ResetRefresh, ResetCommit, IngestCreate, IngestUpsert, IngestCheck,
     IngestReject, IngestPersist, IngestCommit, RefreshHires, RefreshAverage, Fail
<1> QED
  BY <1>2, <1>3, <1>4 DEF Statement


LEMMA ActorStep ==
    ASSUME BInv, NEW s \in Sessions,
           Post(s) \/ Statement(s) \/ RefreshFails(s) \/ Abort(s) \/ DeadlockVictim(s)
    PROVE  StepOK(s)
BY PostSteps, StatementSteps, InterruptedSteps

\* What the handler of a click on a backup does next.
LEMMA BackupAdvances ==
    ASSUME BInv, NEW s \in Sessions, pc[s] \in BackupStages,
           Statement(s) \/ RefreshFails(s) \/ Abort(s) \/ DeadlockVictim(s)
    PROVE  \/ BackupSelect(s) \/ BackupOpen(s) \/ BackupClose(s)
           \/ RefreshFails(s) \/ Abort(s) \/ DeadlockVictim(s)
BY DEF Statement, BackupStages, BackupSelect, BackupOpen, BackupClose, RestoreRead,
   RestoreTruncate, RestoreInsert, RestoreCommit, ResetTruncate, ResetRefresh, ResetCommit,
   IngestCreate, IngestUpsert, IngestCheck, IngestReject, IngestPersist, IngestCommit,
   RefreshHires, RefreshAverage

LEMMA OwnBackupStep ==
    ASSUME BInv, PageOK, BackupOK, ServerStep, posting # Nobody, clicked.op = "backup",
           clicked.table \in Tables,
           \/ Statement(posting) \/ RefreshFails(posting)
           \/ Abort(posting) \/ DeadlockVictim(posting)
    PROVE  LET t == clicked.table
           IN  /\ pc'[posting] \in {"idle"} \cup BackupStages
               /\ pc'[posting] # "idle" => job'[posting].table = t
               /\ pc'[posting] = "backup_close" => disturbed \/ files'[t] = Torn
               /\ pc'[posting] = "idle" /\ answer'[posting] = "200" =>
                    disturbed \/ files'[t] = written'
<1> DEFINE s == posting
           t == clicked.table
<1>1. s \in Sessions /\ clicked # NoClick
  BY DEF PageOK, Sessions
<1>2. pc[s] # "idle"
  BY <1>1, IdleStandsStill
<1>3. pc[s] \in BackupStages /\ job[s].table = t
  BY <1>1, <1>2 DEF BackupOK
<1>4. HandlersOK /\ DOMAIN files = Tables /\ RequestOK(s)
  BY <1>1 DEF BInv, DatabaseOK, SessionOK
<1>5. CASE BackupSelect(s)
  <2>1. pc'[s] = "backup_open" /\ job'[s].table = t
    BY <1>1, <1>3, <1>4, <1>5 DEF BackupSelect, Goto, HandlersOK, RequestOK
  <2> QED
    BY <2>1 DEF BackupStages
<1>6. CASE BackupOpen(s)
  <2>1. pc'[s] = "backup_close" /\ job'[s].table = t /\ files'[t] = Torn
    BY <1>1, <1>3, <1>4, <1>6 DEF BackupOpen, Goto, HandlersOK
  <2> QED
    BY <2>1 DEF BackupStages
<1>7. CASE BackupClose(s)
  <2>1. pc'[s] = "idle" /\ pc[s] = "backup_close"
    BY <1>1, <1>4, <1>7 DEF BackupClose, Answer, Goto, HandlersOK
  <2>2. written' = job[s].rows
    BY <1>7 DEF ServerStep
  <2>3. disturbed \/ files[t] = Torn
    BY <1>1, <2>1 DEF BackupOK
  <2>4. files[t] = Torn => files' = [files EXCEPT ![t] = job[s].rows]
    BY <1>3, <1>7 DEF BackupClose
  <2>5. files[t] = Torn => files'[t] = written'
    BY <1>4, <2>2, <2>4
  <2> QED
    BY <2>1, <2>3, <2>5
<1>8. CASE RefreshFails(s) \/ Abort(s) \/ DeadlockVictim(s)
  <2>1. pc'[s] = "idle" /\ answer'[s] = "500"
    BY <1>1, <1>3, <1>8, CutShort DEF BackupStages, RefreshSteps
  <2> QED
    BY <2>1
<1> QED
  BY <1>1, <1>3, <1>5, <1>6, <1>7, <1>8, BackupAdvances

\* A step of another handler leaves the file alone, or is noticed.
LEMMA OthersNoticed ==
    ASSUME BInv, PageOK, BackupOK, ServerStep, clicked # NoClick, clicked.table \in Tables,
           NEW s \in Sessions, s # posting,
           Post(s) \/ Statement(s) \/ RefreshFails(s) \/ Abort(s) \/ DeadlockVictim(s)
    PROVE  /\ disturbed \/ files'[clicked.table] = files[clicked.table]
           /\ written' = written
           /\ posting # Nobody =>
                /\ pc'[posting] = pc[posting] /\ answer'[posting] = answer[posting]
                /\ job'[posting] = job[posting]
<1>1. posting # Nobody =>
        /\ posting \in Sessions /\ pc'[posting] = pc[posting]
        /\ answer'[posting] = answer[posting] /\ job'[posting] = job[posting]
  BY ActorStep DEF PageOK, Sessions, StepOK, KeepsOthers
<1>2. ASSUME files'[clicked.table] # files[clicked.table] PROVE disturbed
  <2>1. s \in Admins /\ pc[s] \in BackupStages /\ job[s].table = clicked.table
    BY <1>2, FilesWritten
  <2>2. OtherBackup(clicked.table)
    BY <2>1 DEF OtherBackup, BackupStages
  <2> QED
    BY <2>2 DEF BackupOK
<1>3. ~ (posting # Nobody /\ BackupClose(posting))
  <2>1. SUFFICES ASSUME posting # Nobody, BackupClose(posting) PROVE FALSE
    OBVIOUS
  <2>2. pc[posting] = "backup_close" /\ pc'[posting] = "idle"
    BY <1>1, <2>1 DEF BackupClose, Answer, Goto, BInv, HandlersOK
  <2> QED
    BY <1>1, <2>1, <2>2
<1>4. written' = written
  BY <1>3 DEF ServerStep
<1> QED
  BY <1>1, <1>2, <1>4

LEMMA ServerKeepsTab ==
    ASSUME BInv, TabInv, ServerStep
    PROVE  TabInv'
<1>1. UNCHANGED << clicked, posting, page >>
  BY DEF ServerStep
<1>2. PageOK' /\ DownloadIsTheBackup'
  BY <1>1 DEF TabInv, PageOK, DownloadIsTheBackup, page
<1>3. BackupOK'
  <2>1. SUFFICES ASSUME clicked # NoClick PROVE BackupOK'
    BY <1>1 DEF BackupOK
  <2>2. /\ (OtherBackup(clicked.table))' => disturbed'
        /\ disturbed => disturbed'
    BY <1>1, <2>1 DEF ServerStep, OtherBackup
  <2>3. PICK s \in Sessions :
          \/ Statement(s) \/ RefreshFails(s) \/ Abort(s) \/ DeadlockVictim(s)
          \/ Post(s) /\ s # posting
    BY ServerActor
  <2>4. CASE s # posting
    <3>1. CASE clicked.op = "reset"
      BY <1>1, <2>1, <2>2, <3>1 DEF BackupOK, TabInv, PageOK
    <3>2. CASE clicked.op # "reset"
      <4>1. clicked.table \in Tables
        BY <2>1, <3>2 DEF TabInv, PageOK
      <4>2. /\ disturbed \/ files'[clicked.table] = files[clicked.table]
            /\ written' = written
            /\ posting # Nobody =>
                 /\ pc'[posting] = pc[posting] /\ answer'[posting] = answer[posting]
                 /\ job'[posting] = job[posting]
        BY <2>1, <2>3, <2>4, <4>1, OthersNoticed DEF TabInv
      <4> QED
        BY <1>1, <2>1, <2>2, <4>2 DEF BackupOK, TabInv
    <3> QED
      BY <3>1, <3>2
  <2>5. CASE s = posting
    <3>1. posting # Nobody
      BY <2>5, NobodyAssumption
    <3>2. CASE clicked.op # "backup"
      BY <1>1, <2>1, <2>2, <3>1, <3>2 DEF BackupOK
    <3>3. CASE clicked.op = "backup"
      <4>1. clicked.table \in Tables
        BY <2>1, <3>3 DEF TabInv, PageOK
      <4>2. \/ Statement(posting) \/ RefreshFails(posting)
            \/ Abort(posting) \/ DeadlockVictim(posting)
        BY <2>3, <2>5
      <4>3. LET t == clicked.table
            IN  /\ pc'[posting] \in {"idle"} \cup BackupStages
                /\ pc'[posting] # "idle" => job'[posting].table = t
                /\ pc'[posting] = "backup_close" => disturbed \/ files'[t] = Torn
                /\ pc'[posting] = "idle" /\ answer'[posting] = "200" =>
                     disturbed \/ files'[t] = written'
        BY <3>1, <3>3, <4>1, <4>2, OwnBackupStep DEF TabInv
      <4> QED
        BY <1>1, <2>1, <2>2, <3>1, <4>3 DEF BackupOK
    <3> QED
      BY <3>2, <3>3
  <2> QED
    BY <2>4, <2>5
<1> QED
  BY <1>2, <1>3 DEF TabInv


LEMMA ClickKeepsTab ==
    ASSUME BInv, TabInv, NEW s \in Admins, Click(s)
    PROVE  TabInv'
<1>1. PICK b \in Buttons :
        /\ clicked' = b
        /\ \/ b.op = "backup" /\ PostBackup(s) /\ job'[s].table = b.table
           \/ b.op = "restore" /\ PostRestore(s) /\ job'[s].table = b.table
           \/ b.op = "reset" /\ PostReset(s)
        /\ disturbed' = OtherBackup(b.table)
  BY DEF Click
<1>2. clicked = NoClick /\ posting' = s /\ UNCHANGED page
  BY DEF Click
<1>3. s \in Sessions /\ s # Nobody /\ clicked' # NoClick /\ posting = Nobody
  BY <1>1, <1>2, NobodyAssumption, NoClickAssumption DEF Sessions, TabInv, PageOK
<1>4. KeepsOthers(s) /\ RequestOK(s)'
  BY <1>3, ClickPosts, ActorStep DEF StepOK, SessionOK
<1>5. PageOK'
  BY <1>1, <1>2, <1>3, <1>4 DEF TabInv, PageOK, page, RequestOK
<1>6. DownloadIsTheBackup'
  BY <1>2 DEF TabInv, DownloadIsTheBackup, page
<1>7. (OtherBackup(b.table))' => disturbed'
  <2>1. ASSUME NEW o \in Admins \ {s} PROVE pc'[o] = pc[o] /\ job'[o] = job[o]
    BY <1>4 DEF KeepsOthers, Sessions
  <2> QED
    BY <1>1, <1>2, <1>3, <2>1, NobodyAssumption DEF OtherBackup, Sessions
<1>8. clicked'.op = "backup" => pc'[s] = "backup_select" /\ job'[s].table = b.table
  BY <1>1, <1>3 DEF PostBackup, PostRestore, PostReset, Goto, BInv, HandlersOK
<1>9. BackupOK'
  BY <1>1, <1>2, <1>3, <1>7, <1>8 DEF BackupOK, BackupStages
<1> QED
  BY <1>5, <1>6, <1>9 DEF TabInv

\* The outcome is shown: a button for the download is dropped with the outcome
\* of the backup that it was offered for.
LEMMA ShowKeepsTab ==
    ASSUME BInv, TabInv, posting # Nobody, NEW success \in BOOLEAN, Show(success),
           success => pc[posting] = "idle" /\ answer[posting] = "200"
    PROVE  TabInv'
<1> DEFINE t == clicked.table
<1>1. /\ clicked # NoClick /\ clicked.op \in {"backup", "restore", "reset"}
      /\ clicked.op # "reset" => t \in Tables
      /\ DOMAIN backupOutcome = Tables /\ DOMAIN downloadOutcome = Tables
  BY DEF TabInv, PageOK
<1>2. /\ posting' = Nobody /\ UNCHANGED << vars, written, disturbed >>
      /\ clicked' = IF clicked.op = "backup" /\ success THEN clicked ELSE NoClick
  BY DEF Show
<1>3. CASE clicked.op = "backup" /\ success
  <2>1. backupOutcome' = [backupOutcome EXCEPT ![t] = TRUE] /\ downloadOutcome' = downloadOutcome
    BY <1>1, <1>3 DEF Show
  <2>2. PageOK' /\ DownloadIsTheBackup'
    BY <1>1, <1>2, <1>3, <2>1 DEF TabInv, PageOK, DownloadIsTheBackup
  <2>3. disturbed \/ files[t] = written
    BY <1>1, <1>3 DEF TabInv, BackupOK
  <2>4. (OtherBackup(t))' => disturbed
    <3>1. OtherBackup(t)' => OtherBackup(t)
      BY <1>2, <1>3 DEF OtherBackup, vars
    <3> QED
      BY <1>1, <3>1 DEF TabInv, BackupOK
  <2> QED
    BY <1>2, <1>3, <2>2, <2>3, <2>4 DEF TabInv, BackupOK, vars
<1>4. CASE ~ (clicked.op = "backup" /\ success)
  <2>1. clicked' = NoClick
    BY <1>2, <1>4
  <2>2. \/ /\ t \in Tables
           /\ backupOutcome' = [backupOutcome EXCEPT ![t] = FALSE]
           /\ downloadOutcome' = [downloadOutcome EXCEPT ![t] = NoOutcome]
        \/ UNCHANGED << backupOutcome, downloadOutcome >>
    BY <1>1, <1>4 DEF Show, DropDownload
  <2>3. DownloadIsTheBackup' /\ DOMAIN backupOutcome' = Tables /\ DOMAIN downloadOutcome' = Tables
    BY <1>1, <2>2 DEF TabInv, DownloadIsTheBackup
  <2> QED
    BY <1>2, <2>1, <2>3 DEF TabInv, PageOK, BackupOK
<1> QED
  BY <1>3, <1>4

LEMMA DownloadKeepsTab ==
    ASSUME TabInv, Download
    PROVE  TabInv'
<1> DEFINE t == clicked.table
           outcome == [content |-> files[t], written |-> written, disturbed |-> disturbed]
<1>1. /\ clicked # NoClick /\ posting = Nobody /\ clicked' = NoClick
      /\ UNCHANGED << posting, backupOutcome >>
  BY DEF Download
<1>2. PICK o \in {NoContent, outcome} : downloadOutcome' = [downloadOutcome EXCEPT ![t] = o]
  BY DEF Download
<1>3. backupOutcome[t] = TRUE /\ (disturbed \/ files[t] = written)
  BY <1>1 DEF TabInv, PageOK, BackupOK
<1>4. o # NoContent => o.disturbed \/ o.content = o.written
  BY <1>3
<1>5. DOMAIN downloadOutcome = Tables
  BY DEF TabInv, PageOK
<1>6. DownloadIsTheBackup'
  BY <1>1, <1>2, <1>3, <1>4, <1>5 DEF TabInv, DownloadIsTheBackup
<1>7. PageOK' /\ BackupOK'
  BY <1>1, <1>2, <1>5 DEF TabInv, PageOK, BackupOK
<1> QED
  BY <1>6, <1>7 DEF TabInv

LEMMA TabInvNext ==
    ASSUME BInv, TabInv, [TabNext]_tabVars
    PROVE  TabInv'
<1>1. CASE UNCHANGED tabVars \/ TabQuiet
  BY <1>1 DEF TabQuiet, tabVars, vars, page, TabInv, PageOK, BackupOK, OtherBackup,
     DownloadIsTheBackup
<1>2. CASE TakeAnswer
  BY <1>2, ShowKeepsTab DEF TakeAnswer, Succeeded
<1>3. CASE GiveUp
  BY <1>3, ShowKeepsTab DEF GiveUp
<1> QED
  BY <1>1, <1>2, <1>3, ClickKeepsTab, DownloadKeepsTab, ServerKeepsTab DEF TabNext

LEMMA TabInvAlways == TabSpec => []TabInv
<1>1. TabInit => TabInv
  BY DEF TabInit, TabInv, PageOK, BackupOK, DownloadIsTheBackup
<1>2. TabSpec => []BInv
  BY TabImplementsServer, BInvAlways, PTL
<1> QED
  BY <1>1, <1>2, TabInvNext, PTL DEF TabSpec

\* A file that the page offers for download is the one that the backup beside
\* it has written, unless another backup of the table was at work since the
\* click: for any number of operators, and whatever requests were given up.
THEOREM DownloadsAreBackups == TabSpec => []DownloadIsTheBackup
BY TabInvAlways, PTL DEF TabInv


-----------------------------------------------------------------------------
(***************************************************************************)
(* What the restores of the page leave.                                    *)
(***************************************************************************)
RestoreStages == {"restore_read", "restore_truncate", "restore_insert", "restore_commit"}

\* A restore that waits or has only read the file has written nothing.
IdleClean ==
    \A s \in Sessions :
        pc[s] \in {"idle", "restore_read", "restore_truncate"} => DOMAIN work[s] = {}

Recovered(t) ==
    /\ Restorable(t, db[t]) = Restorable(t, files[t])
    /\ t \in IdentityTables => ~ Behind(t)

\* The page waits for the restore that is next in the documented order.
Counting == posting # Nobody /\ clicked.op = "restore" /\ NextToRestore(clicked.table)

\* How far the handler of that restore is.
NextRestoreOK ==
    Counting =>
        LET t == clicked.table
        IN  /\ pc[posting] \in {"idle"} \cup RestoreStages
            /\ pc[posting] # "idle" =>
                 job[posting].table = t /\ DOMAIN work[posting] \subseteq Cascade(t)
            /\ pc[posting] \in {"restore_truncate", "restore_insert"} =>
                 job[posting].rows = files[t]
            /\ pc[posting] = "restore_commit" =>
                 Restorable(t, Seen(posting)[t]) = Restorable(t, files[t])
            /\ pc[posting] = "idle" /\ answer[posting] = "200" => Recovered(t)

RestoresOK ==
    /\ restored \in 0 .. Interrupted
    /\ posting # Nobody => Counting \/ restored \in {0, Interrupted}
    /\ restored # Interrupted => \A k \in 1 .. restored : Recovered(TableNames[k])

RestoreInv == IdleClean /\ NextRestoreOK /\ RestoresOK

LEMMA InterruptedIs == Interrupted = 7
BY TableSet DEF Interrupted

LEMMA CleanStep ==
    ASSUME BInv, IdleClean, NEW s \in Sessions,
           Post(s) \/ Statement(s) \/ RefreshFails(s) \/ Abort(s) \/ DeadlockVictim(s)
    PROVE  IdleClean'
<1>1. \A o \in Sessions \ {s} : pc'[o] = pc[o] /\ work'[o] = work[o]
  BY ActorStep DEF StepOK, KeepsOthers
<1>2. s \in DOMAIN pc /\ s \in DOMAIN work
  BY DEF BInv, HandlersOK
<1> DEFINE Clean == pc'[s] \in {"idle", "restore_read", "restore_truncate"} => DOMAIN work'[s] = {}
<1> SUFFICES Clean
  BY <1>1 DEF IdleClean
<1>3. ASSUME NEW status, NEW committed, Answer(s, status, committed) PROVE Clean
  BY <1>2, <1>3 DEF Answer, EndTransaction, NoWrites
<1>4. CASE Post(s)
  BY <1>4 DEF Post, PostBackup, PostRestore, PostReset, PostUpload, IdleClean
<1>5. CASE RefreshFails(s) \/ Abort(s) \/ DeadlockVictim(s)
  BY <1>3, <1>5 DEF RefreshFails, Abort, DeadlockVictim, Fail
<1>6. CASE RestoreRead(s)
  <2>1. CASE UNCHANGED work
    BY <1>6, <2>1 DEF RestoreRead, IdleClean
  <2>2. CASE \E status \in {"404", "500"}, committed \in {FALSE, job[s].committed} :
               Answer(s, status, committed)
    BY <1>3, <2>2
  <2> QED
    BY <1>6, <2>1, <2>2 DEF RestoreRead, Fail
<1>7. CASE \/ BackupClose(s) \/ RestoreCommit(s) \/ ResetCommit(s) \/ RefreshAverage(s)
  BY <1>3, <1>7 DEF BackupClose, RestoreCommit, ResetCommit, RefreshAverage
<1>8. CASE \/ BackupSelect(s) \/ BackupOpen(s) \/ RestoreTruncate(s) \/ ResetTruncate(s)
           \/ ResetRefresh(s) \/ IngestUpsert(s) \/ IngestCheck(s) \/ IngestCommit(s)
           \/ RefreshHires(s)
  BY <1>2, <1>8 DEF BackupSelect, BackupOpen, RestoreTruncate, ResetTruncate, AfterTruncate,
     ResetRefresh, IngestUpsert, IngestCheck, IngestCommit, RefreshHires, Goto
<1>9. CASE RestoreInsert(s) \/ IngestCreate(s) \/ IngestReject(s) \/ IngestPersist(s)
  <2>1. CASE Fail(s)
    BY <1>3, <2>1 DEF Fail
  <2>2. CASE ~ Fail(s)
    BY <1>2, <1>9, <2>2 DEF RestoreInsert, IngestCreate, IngestReject, IngestPersist, Goto
  <2> QED
    BY <2>1, <2>2
<1> QED
  BY <1>4, <1>5, <1>6, <1>7, <1>8, <1>9 DEF Statement


LEMMA RestoreAdvances ==
    ASSUME BInv, NEW s \in Sessions, pc[s] \in RestoreStages,
           Statement(s) \/ RefreshFails(s) \/ Abort(s) \/ DeadlockVictim(s)
    PROVE  \/ RestoreRead(s) \/ RestoreTruncate(s) \/ RestoreInsert(s) \/ RestoreCommit(s)
           \/ RefreshFails(s) \/ Abort(s) \/ DeadlockVictim(s)
BY DEF Statement, RestoreStages, BackupSelect, BackupOpen, BackupClose, RestoreRead,
   RestoreTruncate, RestoreInsert, RestoreCommit, ResetTruncate, ResetRefresh, ResetCommit,
   IngestCreate, IngestUpsert, IngestCheck, IngestReject, IngestPersist, IngestCommit,
   RefreshHires, RefreshAverage

\* A restore that commits has brought its table back.
LEMMA CommitRecovers ==
    ASSUME BInv, NEW s \in Sessions, RestoreCommit(s), NEW t \in Tables, job[s].table = t,
           Restorable(t, Seen(s)[t]) = Restorable(t, files[t])
    PROVE  Recovered(t)'
<1>1. db' = Seen(s) /\ nextId' = nextId /\ files' = files /\ pc[s] = "restore_commit"
  BY DEF RestoreCommit
<1>2. ASSUME t \in IdentityTables PROVE ~ Behind(t)'
  <2>1. \A row \in db'[t] : row.id < nextId[t]
    BY <1>1, <1>2 DEF BInv, SessionOK, RestoreOK
  <2>2. nextId[t] \in Nat /\ \A row \in Seen(s)[t] : row.id \in Nat
    BY <1>2, SeenTable, TableSet DEF BInv, DatabaseOK, Content, Numbered
  <2>3. \A row \in db'[t] : ~ (row.id >= nextId'[t])
    BY <1>1, <2>1, <2>2
  <2> QED
    BY <2>3 DEF Behind
<1> QED
  BY <1>1, <1>2 DEF Recovered

LEMMA OwnRestoreStep ==
    ASSUME BInv, PageOK, IdleClean, NextRestoreOK, Counting,
           UNCHANGED << files, clicked, posting, restored >>,
           \/ Statement(posting) \/ RefreshFails(posting)
           \/ Abort(posting) \/ DeadlockVictim(posting)
    PROVE  NextRestoreOK'
<1> DEFINE s == posting
           t == clicked.table
<1>1. s \in Sessions /\ t \in Tables /\ Counting
  BY DEF Counting, PageOK, Sessions
<1>2. pc[s] \in RestoreStages /\ job[s].table = t /\ DOMAIN work[s] \subseteq Cascade(t)
  BY <1>1, IdleStandsStill DEF NextRestoreOK
<1>3. HandlersOK /\ RequestOK(s) /\ t \in Cascade(t)
  BY <1>1 DEF BInv, SessionOK, Cascade
<1>4. SUFFICES /\ pc'[s] \in {"idle"} \cup RestoreStages
               /\ pc'[s] # "idle" => job'[s].table = t /\ DOMAIN work'[s] \subseteq Cascade(t)
               /\ pc'[s] \in {"restore_truncate", "restore_insert"} => job'[s].rows = files[t]
               /\ pc'[s] = "restore_commit" =>
                    Restorable(t, Seen(s)'[t]) = Restorable(t, files[t])
               /\ pc'[s] = "idle" /\ answer'[s] = "200" => Recovered(t)'
  BY DEF NextRestoreOK
<1>5. CASE pc'[s] = "idle" /\ answer'[s] # "200"
  BY <1>5
<1>6. CASE RestoreRead(s)
  <2>1. CASE Answer(s, "404", FALSE) \/ Fail(s)
    <3>1. pc'[s] = "idle" /\ answer'[s] # "200"
      BY <1>1, <1>3, <2>1 DEF Answer, Fail, Goto, HandlersOK
    <3> QED
      BY <3>1, <1>5
  <2>2. CASE ~ (Answer(s, "404", FALSE) \/ Fail(s))
    <3>1. /\ job' = [job EXCEPT ![s].rows = files[t]] /\ pc' = [pc EXCEPT ![s] = "restore_truncate"]
          /\ work' = work
      BY <1>2, <1>6, <2>2 DEF RestoreRead, Goto
    <3>2. pc'[s] = "restore_truncate" /\ job'[s].rows = files[t] /\ job'[s].table = t
      BY <1>1, <1>2, <1>3, <3>1 DEF HandlersOK, RequestOK
    <3> QED
      BY <1>2, <3>1, <3>2 DEF RestoreStages
  <2> QED
    BY <2>1, <2>2
<1>7. CASE RestoreTruncate(s)
  <2>1. /\ pc[s] = "restore_truncate" /\ Write(s, Emptied(Seen(s), t)) /\ job' = job
        /\ pc'[s] = "restore_insert"
    BY <1>1, <1>2, <1>3, <1>7 DEF RestoreTruncate, Goto, HandlersOK
  <2>2. DOMAIN work[s] = {}
    BY <1>1, <2>1 DEF IdleClean
  <2>3. \A u \in Tables : u \notin Cascade(t) => Emptied(Seen(s), t)[u] = db[u]
    BY <2>2 DEF Emptied, Seen
  <2>4. DOMAIN work'[s] \subseteq Cascade(t)
    BY <1>1, <1>3, <2>1, <2>3 DEF Write, HandlersOK
  <2>5. job[s].rows = files[t]
    BY <1>1, <2>1 DEF NextRestoreOK
  <2> QED
    BY <1>2, <2>1, <2>4, <2>5 DEF RestoreStages
<1>8. CASE RestoreInsert(s)
  <2> DEFINE loaded == Loaded(Seen(s), t, job[s].rows, clock)
  <2>1. CASE ReferencesFound(loaded, t)
    <3>1. /\ pc[s] = "restore_insert" /\ Write(s, loaded) /\ job' = job /\ db' = db
          /\ pc'[s] = "restore_commit"
      BY <1>1, <1>2, <1>3, <1>8, <2>1 DEF RestoreInsert, Goto, HandlersOK
    <3>2. job[s].rows = files[t] /\ Seen(s)[t] = {}
      BY <1>1, <1>2, <3>1 DEF NextRestoreOK, BInv, SessionOK, RestoreOK
    <3>3. /\ loaded[t] = FromAvro(t, files[t], clock)
          /\ \A u \in Tables : u \notin Cascade(t) => loaded[u] = db[u]
      BY <1>1, <1>2, <1>3, <3>2 DEF Loaded, Seen
    <3> HIDE DEF loaded
    <3>4. DOMAIN work'[s] \subseteq Cascade(t) /\ Seen(s)'[t] = loaded[t]
      BY <1>1, <1>3, <3>1, <3>3 DEF Write, HandlersOK, Seen
    <3>5. Restorable(t, Seen(s)'[t]) = Restorable(t, files[t])
      BY <3>3, <3>4, RestorableRows
    <3> QED
      BY <1>2, <3>1, <3>4, <3>5 DEF RestoreStages
  <2>2. CASE ~ ReferencesFound(loaded, t)
    <3>1. Fail(s)
      BY <1>2, <1>8, <2>2 DEF RestoreInsert
    <3>2. pc'[s] = "idle" /\ answer'[s] # "200"
      BY <1>1, <1>3, <3>1 DEF Answer, Fail, Goto, HandlersOK
    <3> QED
      BY <3>2, <1>5
  <2> QED
    BY <2>1, <2>2
<1>9. CASE RestoreCommit(s)
  <2>1. pc[s] = "restore_commit" /\ pc'[s] = "idle"
    BY <1>1, <1>3, <1>9 DEF RestoreCommit, Answer, Goto, HandlersOK
  <2>2. Recovered(t)'
    BY <1>1, <1>2, <1>9, <2>1, CommitRecovers DEF NextRestoreOK
  <2> QED
    BY <2>1, <2>2
<1>10. CASE RefreshFails(s) \/ Abort(s) \/ DeadlockVictim(s)
  <2>1. pc'[s] = "idle" /\ answer'[s] = "500"
    BY <1>1, <1>2, <1>10, CutShort DEF RestoreStages, RefreshSteps
  <2> QED
    BY <2>1, <1>5
<1> QED
  BY <1>1, <1>2, <1>6, <1>7, <1>8, <1>9, <1>10, RestoreAdvances


LEMMA SameRecovered ==
    ASSUME BInv, BInv', NEW t \in Tables, Recovered(t), UNCHANGED files, db'[t] = db[t],
           t \in IdentityTables => nextId'[t] >= nextId[t]
    PROVE  Recovered(t)'
<1>1. ASSUME t \in IdentityTables PROVE ~ Behind(t)'
  <2>1. nextId[t] \in Nat /\ nextId'[t] \in Nat /\ \A row \in db[t] : row.id \in Nat
    BY <1>1 DEF BInv, DatabaseOK, Content, Numbered
  <2>2. \A row \in db[t] : ~ (row.id >= nextId[t])
    BY <1>1 DEF Recovered, Behind
  <2>3. \A row \in db'[t] : ~ (row.id >= nextId'[t])
    BY <1>1, <2>1, <2>2
  <2> QED
    BY <2>3 DEF Behind
<1> QED
  BY <1>1 DEF Recovered

\* What is restored stays: a restore of a later table empties no earlier one.
LEMMA EarlierStayRecovered ==
    ASSUME BInv, BInv', RestoreInv, PageOK, Counting, restored # Interrupted, ServerStep,
           ~ Interferes, NEW k \in 1 .. restored
    PROVE  Recovered(TableNames[k])'
<1> DEFINE u == TableNames[k]
           t == clicked.table
           s == posting
<1> USE TableSet, InterruptedIs
<1>1. restored \in 0 .. 5 /\ t = TableNames[restored + 1] /\ s \in Sessions /\ t \in Tables
  BY DEF RestoreInv, RestoresOK, Counting, NextToRestore, PageOK, Sessions
<1>2. k \in 1 .. 6 /\ restored + 1 \in 1 .. 6 /\ k < restored + 1
  BY <1>1
<1>3. u \in Tables /\ u \notin Cascade(t) /\ Recovered(u)
  BY <1>1, <1>2, EarlierTablesStay DEF RestoreInv, RestoresOK
<1>4. u # t
  BY <1>1, <1>3 DEF Cascade
<1>5. files' = files
  BY DEF Interferes
<1>6. db'[u] = db[u]
  <2>1. CASE db' = db
    BY <2>1
  <2>2. CASE RestoreCommit(s)
    <3>1. db' = Seen(s) /\ pc[s] = "restore_commit"
      BY <2>2 DEF RestoreCommit
    <3>2. u \notin DOMAIN work[s]
      BY <1>3, <3>1 DEF RestoreInv, NextRestoreOK
    <3> QED
      BY <1>3, <3>1, <3>2 DEF Seen
  <2> QED
    BY <2>1, <2>2 DEF Interferes
<1>7. ASSUME u \in IdentityTables PROVE nextId'[u] >= nextId[u]
  <2>1. nextId[u] \in Nat /\ nextId'[u] \in Nat
    BY <1>7 DEF BInv, DatabaseOK
  <2>2. CASE RestoreInsert(s)
    <3>1. pc[s] = "restore_insert" /\ job[s].table = t
      BY <2>2 DEF RestoreInsert, RestoreInv, NextRestoreOK
    <3>2. nextId' = nextId \/ nextId' = Resynced(t, job[s].rows)
      BY <2>2, <3>1 DEF RestoreInsert
    <3>3. Content(t, job[s].rows)
      BY <1>1, <3>1 DEF BInv, SessionOK, RequestOK
    <3>4. nextId'[u] = nextId[u]
      BY <1>1, <1>4, <1>7, <3>2, <3>3, ResyncedSequence
    <3> QED
      BY <2>1, <3>4
  <2>3. CASE ~ RestoreInsert(s)
    <3>1. ~ (nextId'[u] < nextId[u])
      BY <1>7, <2>3 DEF Interferes
    <3> QED
      BY <2>1, <3>1
  <2> QED
    BY <2>2, <2>3
<1> QED
  BY <1>3, <1>5, <1>6, <1>7, SameRecovered

\* A step of somebody else that is in nobody's way leaves the restore of the
\* page where it is.
LEMMA OthersLeaveRestore ==
    ASSUME BInv, BInv', NextRestoreOK, PageOK, Counting, ~ Interferes,
           UNCHANGED << clicked, posting, restored >>, NEW s \in Sessions, s # posting,
           Post(s) \/ Statement(s) \/ RefreshFails(s) \/ Abort(s) \/ DeadlockVictim(s)
    PROVE  NextRestoreOK'
<1> DEFINE t == clicked.table
           p == posting
<1>1. p \in Sessions /\ t \in Tables
  BY DEF Counting, PageOK, Sessions
<1>2. /\ pc'[p] = pc[p] /\ answer'[p] = answer[p] /\ job'[p] = job[p] /\ work'[p] = work[p]
  BY <1>1, ActorStep DEF StepOK, KeepsOthers
<1>3. ~ RestoreCommit(p) /\ ~ RestoreInsert(p)
  <2>1. pc[p] = "restore_commit" => pc'[p] # "idle"
    BY <1>2
  <2>2. pc[p] = "restore_insert" => pc'[p] \notin {"idle", "restore_commit"}
    BY <1>2
  <2>3. p \in DOMAIN pc
    BY <1>1 DEF BInv, HandlersOK
  <2> QED
    BY <2>1, <2>2, <2>3 DEF RestoreCommit, RestoreInsert, Answer, Fail, Goto
<1>4. files' = files /\ db' = db
  BY <1>3 DEF Interferes
<1>5. Seen(p)'[t] = Seen(p)[t]
  BY <1>2, <1>4 DEF Seen
<1>6. ASSUME t \in IdentityTables PROVE nextId'[t] >= nextId[t]
  <2>1. ~ (nextId'[t] < nextId[t]) /\ nextId[t] \in Nat /\ nextId'[t] \in Nat
    BY <1>3, <1>6 DEF Interferes, BInv, DatabaseOK
  <2> QED
    BY <2>1
<1>7. Recovered(t) => Recovered(t)'
  BY <1>1, <1>4, <1>6, SameRecovered
<1>8. Counting'
  BY DEF Counting, NextToRestore
<1> QED
  BY <1>2, <1>4, <1>5, <1>7, <1>8 DEF NextRestoreOK

LEMMA ServerKeepsRestores ==
    ASSUME BInv, BInv', PageOK, RestoreInv, ServerStep
    PROVE  RestoreInv'
<1> USE InterruptedIs, TableSet
<1>1. UNCHANGED << clicked, posting >> /\ restored' = IF Interferes THEN Interrupted ELSE restored
  BY DEF ServerStep
<1>2. PICK s \in Sessions :
          \/ Statement(s) \/ RefreshFails(s) \/ Abort(s) \/ DeadlockVictim(s)
          \/ Post(s) /\ s # posting
  BY ServerActor
<1>3. IdleClean'
  BY <1>2, CleanStep DEF RestoreInv
<1>4. CASE Interferes
  <2>1. restored' = 7
    BY <1>1, <1>4
  <2>2. ~ Counting'
    BY <2>1 DEF Counting, NextToRestore
  <2>3. NextRestoreOK' /\ RestoresOK'
    BY <2>1, <2>2 DEF NextRestoreOK, RestoresOK
  <2> QED
    BY <1>3, <2>3 DEF RestoreInv
<1>5. CASE ~ Interferes
  <2>1. restored' = restored /\ files' = files
    BY <1>1, <1>5 DEF Interferes
  <2>2. Counting' <=> Counting
    BY <1>1, <2>1 DEF Counting, NextToRestore
  <2>3. NextRestoreOK'
    <3>1. CASE ~ Counting
      BY <2>2, <3>1 DEF NextRestoreOK
    <3>2. CASE Counting /\ s = posting
      BY <1>1, <1>2, <2>1, <3>2, OwnRestoreStep DEF RestoreInv
    <3>3. CASE Counting /\ s # posting
      BY <1>1, <1>2, <1>5, <2>1, <3>3, OthersLeaveRestore DEF RestoreInv
    <3> QED
      BY <3>1, <3>2, <3>3
  <2>4. ASSUME restored # Interrupted, NEW k \in 1 .. restored
        PROVE  Recovered(TableNames[k])'
    <3>1. CASE Counting
      BY <1>5, <2>4, <3>1, EarlierStayRecovered
    <3>2. CASE ~ Counting
      <4>1. posting = Nobody
        BY <2>4, <3>2 DEF RestoreInv, RestoresOK
      <4>2. TableNames[k] \in Tables /\ Recovered(TableNames[k])
        BY <2>4 DEF RestoreInv, RestoresOK
      <4>3. db' = db
        BY <1>5, <4>1 DEF Interferes
      <4>4. TableNames[k] \in IdentityTables => nextId'[TableNames[k]] >= nextId[TableNames[k]]
        <5>1. ASSUME NEW u \in IdentityTables PROVE nextId'[u] >= nextId[u]
          <6>1. nextId[u] \in Nat /\ nextId'[u] \in Nat /\ ~ (nextId'[u] < nextId[u])
            BY <1>5, <4>1, <5>1 DEF BInv, DatabaseOK, Interferes
          <6> QED
            BY <6>1
        <5> QED
          BY <5>1
      <4> QED
        BY <2>1, <4>2, <4>3, <4>4, SameRecovered
    <3> QED
      BY <3>1, <3>2
  <2>5. RestoresOK'
    BY <1>1, <2>1, <2>2, <2>4 DEF RestoreInv, RestoresOK
  <2> QED
    BY <1>3, <2>3, <2>5 DEF RestoreInv
<1> QED
  BY <1>4, <1>5

LEMMA ClickKeepsRestores ==
    ASSUME BInv, PageOK, RestoreInv, NEW s \in Admins, Click(s)
    PROVE  RestoreInv'
<1> USE InterruptedIs, TableSet
<1>1. PICK b \in Buttons :
        /\ clicked' = b
        /\ \/ b.op = "backup" /\ PostBackup(s) /\ job'[s].table = b.table
           \/ b.op = "restore" /\ PostRestore(s) /\ job'[s].table = b.table
           \/ b.op = "reset" /\ PostReset(s)
        /\ restored' = IF b.op = "restore" /\ NextToRestore(b.table) THEN restored ELSE 0
  BY DEF Click
<1>2. posting' = s /\ s \in Sessions /\ posting = Nobody
  BY DEF Click, PageOK, Sessions
<1>3. IdleClean'
  BY <1>2, ClickPosts, CleanStep DEF RestoreInv
<1>4. UNCHANGED << db, files, nextId, work >>
  BY <1>1 DEF PostBackup, PostRestore, PostReset
<1>5. \A t \in Tables : Recovered(t) => Recovered(t)'
  BY <1>4 DEF Recovered, Behind
<1>6. \A k \in 1 .. restored : restored # Interrupted => Recovered(TableNames[k])'
  BY <1>5 DEF RestoreInv, RestoresOK
<1>7. ASSUME b.op = "restore"
      PROVE  pc'[s] = "restore_read" /\ job'[s].table = b.table /\ DOMAIN work'[s] = {}
  BY <1>1, <1>2, <1>3, <1>7 DEF PostBackup, PostRestore, PostReset, Goto, BInv, HandlersOK,
     IdleClean
<1>8. NextRestoreOK'
  BY <1>1, <1>2, <1>7 DEF NextRestoreOK, Counting, RestoreStages
<1>9. RestoresOK'
  <2>1. CASE b.op = "restore" /\ NextToRestore(b.table)
    <3>1. restored' = restored
      BY <1>1, <2>1
    <3>2. Counting'
      BY <1>1, <1>2, <2>1, <3>1, NobodyAssumption DEF Counting, NextToRestore
    <3> QED
      BY <1>6, <3>1, <3>2 DEF RestoreInv, RestoresOK
  <2>2. CASE ~ (b.op = "restore" /\ NextToRestore(b.table))
    <3>1. restored' = 0
      BY <1>1, <2>2
    <3> QED
      BY <3>1 DEF RestoresOK
  <2> QED
    BY <2>1, <2>2
<1> QED
  BY <1>3, <1>8, <1>9 DEF RestoreInv

LEMMA ShowKeepsRestores ==
    ASSUME BInv, PageOK, RestoreInv, posting # Nobody, NEW success \in BOOLEAN, Show(success),
           success => pc[posting] = "idle" /\ answer[posting] = "200"
    PROVE  RestoreInv'
<1> USE InterruptedIs, TableSet
<1> DEFINE t == clicked.table
<1>1. /\ posting' = Nobody /\ UNCHANGED vars
      /\ restored' = IF success /\ clicked.op = "restore" /\ NextToRestore(t)
                       THEN restored + 1 ELSE restored
  BY DEF Show
<1>2. UNCHANGED << db, files, nextId, work, pc >>
  BY <1>1 DEF vars
<1>3. IdleClean' /\ NextRestoreOK' /\ ~ Counting'
  BY <1>1, <1>2 DEF RestoreInv, IdleClean, NextRestoreOK, Counting
<1>4. \A u \in Tables : Recovered(u) => Recovered(u)'
  BY <1>2 DEF Recovered, Behind
<1>5. \A k \in 1 .. restored : restored # Interrupted => Recovered(TableNames[k])'
  BY <1>4 DEF RestoreInv, RestoresOK
<1>6. CASE success /\ clicked.op = "restore" /\ NextToRestore(t)
  <2>1. Recovered(t) /\ restored \in 0 .. 5 /\ t = TableNames[restored + 1]
    BY <1>6 DEF Counting, NextRestoreOK, RestoreInv, RestoresOK, NextToRestore
  <2>2. t \in Tables /\ restored' = restored + 1
    BY <1>1, <1>6, <2>1
  <2>3. ASSUME NEW k \in 1 .. restored' PROVE Recovered(TableNames[k])'
    <3>1. CASE k = restored + 1
      BY <1>4, <2>1, <2>2, <3>1
    <3>2. CASE k # restored + 1
      <4>1. k \in 1 .. restored
        BY <2>1, <2>2, <3>2
      <4> QED
        BY <1>5, <2>1, <4>1
    <3> QED
      BY <3>1, <3>2
  <2>4. RestoresOK'
    BY <1>1, <2>1, <2>2, <2>3 DEF RestoresOK
  <2> QED
    BY <1>3, <2>4 DEF RestoreInv
<1>7. CASE ~ (success /\ clicked.op = "restore" /\ NextToRestore(t))
  <2>1. restored' = restored
    BY <1>1, <1>7
  <2> QED
    BY <1>1, <1>3, <1>5, <2>1 DEF RestoreInv, RestoresOK
<1> QED
  BY <1>6, <1>7

LEMMA RestoreInvNext ==
    ASSUME BInv, BInv', PageOK, RestoreInv, [TabNext]_tabVars
    PROVE  RestoreInv'
<1>1. CASE UNCHANGED tabVars \/ TabQuiet \/ Download
  <2>1. UNCHANGED << db, files, nextId, work, pc, job, answer, posting, restored >>
    BY <1>1 DEF TabQuiet, Download, tabVars, vars
  <2>2. UNCHANGED clicked \/ posting = Nobody
    BY <1>1 DEF TabQuiet, Download, tabVars
  <2>3. \A t \in Tables : Recovered(t)' <=> Recovered(t)
    BY <2>1 DEF Recovered, Behind
  <2>4. Counting' <=> Counting
    BY <2>1, <2>2 DEF Counting, NextToRestore
  <2>5. IdleClean'
    BY <2>1 DEF RestoreInv, IdleClean
  <2>6. NextRestoreOK'
    BY <2>1, <2>2, <2>4 DEF RestoreInv, NextRestoreOK, Counting, Seen, Recovered, Behind
  <2>7. RestoresOK'
    BY <2>1, <2>4 DEF RestoreInv, RestoresOK, Recovered, Behind
  <2> QED
    BY <2>5, <2>6, <2>7 DEF RestoreInv
<1>2. CASE TakeAnswer
  BY <1>2, ShowKeepsRestores DEF TakeAnswer, Succeeded
<1>3. CASE GiveUp
  BY <1>3, ShowKeepsRestores DEF GiveUp
<1> QED
  BY <1>1, <1>2, <1>3, ClickKeepsRestores, ServerKeepsRestores DEF TabNext

\* Six restores in the documented order that the page has shown to succeed,
\* with no file written and nothing committed or set by others since the first
\* click, leave the database as the files have it and every sequence ahead:
\* whatever the files hold, and whichever requests are at work besides.
THEOREM SixRestoresBringBack == TabSpec => []SixRestoresRecover
<1>1. TabInit => RestoreInv
  <2> SUFFICES ASSUME TabInit PROVE RestoreInv
    OBVIOUS
  <2>1. restored = 0 /\ posting = Nobody /\ work = [s \in Sessions |-> NoWrites]
    BY DEF TabInit, Init
  <2> QED
    BY <2>1, InterruptedIs DEF RestoreInv, IdleClean, NextRestoreOK, Counting, RestoresOK, NoWrites
<1>2. TabSpec => []BInv
  BY TabImplementsServer, BInvAlways, PTL
<1>3. TabSpec => []RestoreInv
  BY <1>1, <1>2, TabInvAlways, RestoreInvNext, PTL DEF TabSpec, TabInv
<1>4. RestoreInv => SixRestoresRecover
  <2> SUFFICES ASSUME RestoreInv, restored = 6
               PROVE  /\ \A t \in Tables : Restorable(t, db[t]) = Restorable(t, files[t])
                      /\ \A t \in IdentityTables : ~ Behind(t)
    BY TableSet DEF SixRestoresRecover
  <2>1. \A k \in 1 .. 6 : Recovered(TableNames[k])
    BY InterruptedIs DEF RestoreInv, RestoresOK
  <2>2. \A t \in Tables : Recovered(t)
    BY <2>1, TableSet DEF Tables
  <2> QED
    BY <2>2, TableSet DEF Recovered
<1> QED
  BY <1>3, <1>4, PTL

=============================================================================
