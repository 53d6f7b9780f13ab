----------------------------- MODULE HistoryLog -----------------------------
(***************************************************************************)
(* The history database.  The filter's thread queues what is to be logged  *)
(* (LogFilterAction::operator(), peerblock/logproc.cpp); every 15 seconds, *)
(* and when the log window is destroyed, the UI thread moves the queue to  *)
(* history.db in one transaction, and halves the database when it is too   *)
(* big; Main_ProcessDb (peerblock/mainproc.cpp), a thread of its own,      *)
(* archives and deletes what is older than CleanupInterval.  One           *)
(* connection, g_con, serves them all: it has one transaction at a time    *)
(* and is guarded by a recursive lock, which the first two only try.       *)
(*                                                                         *)
(* A row is its number in the order of logging.  Time is counted in half   *)
(* days: an archive file holds a day, and CleanupInterval counts days.     *)
(***************************************************************************)
EXTENDS Integers, SequencesExt

CONSTANTS MaxRows,  \* bound on how much is logged
          MaxTime,  \* bound on the time
          Interval, \* CleanupInterval, in half days
          FaultSets \* which of the faults below may happen in one behaviour

Faults == {"crash",   \* the process ends at any point
           "insert",  \* a row cannot be inserted, or rows not deleted
           "full",    \* the disk is full: sqlite may roll back by itself
           "archive"} \* an archive file, or the log file, cannot be opened, copied or removed

ASSUME HistoryAssumption ==
    /\ MaxRows \in Nat \ {0} /\ MaxTime \in Nat /\ Interval \in Nat \ {0}
    /\ FaultSets \subseteq SUBSET Faults

VARIABLES faults,  \* the faults of this behaviour
          cleanup, \* CleanupType: "none", "delete" or "archive"
          up,      \* the program runs
          now,     \* the time
          logged,  \* when each row was logged
          queue,   \* LogFilterAction::dbqueue
          db,      \* t_history, as committed
          work,    \* t_history, as the open transaction sees it
          cut,     \* rows the open transaction has deleted
          trans,   \* whose transaction is open: "none", "ui" or "cleaner"
          con,     \* who holds g_con: "none", "ui", "cleaner" or "export"
          stuck,   \* the UI thread has not left g_con, and never will
          ui,      \* the UI thread: in a commit, at a box, waiting for g_con or leaving
          leaving, \* g_log is being destroyed: "no", "yes", or "failed": its commit has
          cleaner, \* Main_ProcessDb: where it is, or at which box
          last,    \* LastArchived
          archive, \* rows in the archive files
          gone,    \* history: rows deleted for their age or the database's size
          lost,    \* history: rows that never got into the database (or that the user had
                   \* cleared), by a crash or after the user was told
          mishaps  \* history: "archive", a file was not written; "late", time passed
                   \* between archiving and deleting

state   == <<faults, cleanup, up>>
store   == <<db, work, cut, trans, con, stuck>>
clean   == <<cleaner, last>>
history == <<archive, gone, lost, mishaps>>
vars == <<state, now, logged, queue, store, ui, leaving, clean, history>>

Rows    == 1 .. Len(logged)
Date(r) == logged[r] \div 2
Old(r)  == logged[r] <= now - Interval

Init ==
    /\ faults \in FaultSets
    /\ cleanup \in {"none", "delete", "archive"}
    /\ up = TRUE
    /\ now = 0
    /\ logged = <<>> /\ queue = <<>>
    /\ db = <<>> /\ work = <<>> /\ cut = {} /\ trans = "none" /\ con = "none"
    /\ stuck = FALSE
    /\ ui = "idle" /\ leaving = "no"
    /\ cleaner = "idle" /\ last = 0
    /\ archive = {} /\ gone = {} /\ lost = {} /\ mishaps = {}

\* An ExceptionBox is shown: it ends when the user closes it, and serves messages meanwhile.
UiBoxes      == {"box", "archivebox", "deletebox", "told"}
CleanerBoxes == {"archivebox", "deletebox", "donebox"}

\* Time passes.
Tick ==
    /\ now < MaxTime
    /\ now' = now + 1
    /\ mishaps' = IF cleaner \in {"archivebox", "delete"} THEN mishaps \cup {"late"} ELSE mishaps
    /\ UNCHANGED <<state, logged, queue, store, ui, leaving, clean, archive, gone, lost>>

\* operator(): the filter's thread queues an action, under the lock that _Commit holds.
Log ==
    /\ up /\ ui = "idle"
    /\ Len(logged) < MaxRows
    /\ logged' = Append(logged, now)
    /\ queue' = Append(queue, Len(logged'))
    /\ UNCHANGED <<state, now, store, ui, leaving, clean, history>>

-----------------------------------------------------------------------------
(* _Commit, on the UI thread *)

\* The UI thread gets g_con, which is free or its own already (see Leave).
Begin(at) ==
    /\ con \in {"none", "ui"}
    /\ con' = "ui" /\ trans' = "ui" /\ work' = db /\ cut' = {}
    /\ ui' = at
    /\ UNCHANGED <<state, now, logged, queue, db, stuck, leaving, clean, history>>

\* Mutant of Commit: g_con's lock is not recursive.
CommitFree == up /\ ui = "idle" /\ queue # <<>> /\ con = "none" /\ Begin("insert")

\* TIMER_COMMITLOG: nothing is done when another thread has g_con.
Commit == up /\ ui = "idle" /\ queue # <<>> /\ Begin("insert")

\* ~LogFilterAction: Commit(true) waits for it.
ForceCommit == ui = "wait" /\ Begin("insert")

\* Mutant of Insert: a row stays in the queue.
InsertKeeps ==
    /\ ui = "insert" /\ queue # <<>>
    /\ work' = Append(work, Head(queue))
    /\ queue' = IF Len(queue) = 1 THEN queue ELSE Tail(queue)
    /\ ui' = IF Len(queue) = 1 THEN "commit" ELSE ui
    /\ UNCHANGED <<state, now, logged, db, cut, trans, con, stuck, leaving, clean, history>>

\* A row is inserted, then popped.
Insert ==
    /\ ui = "insert" /\ queue # <<>>
    /\ work' = Append(work, Head(queue))
    /\ queue' = Tail(queue)
    /\ UNCHANGED <<state, now, logged, db, cut, trans, con, stuck, ui, leaving, clean, history>>

\* Rows of the transaction that will not be committed: they have left the queue.
Uncommitted == (ToSet(work) \cup cut) \ ToSet(db)

Failed == IF leaving = "no" THEN "no" ELSE "failed"

\* Mutant of InsertFails: the row is popped all the same.
InsertFailsPops ==
    /\ ui = "insert" /\ queue # <<>>
    /\ \/ "insert" \in faults /\ trans' = trans
       \/ "full" \in faults /\ trans' = "none"
    /\ lost' = lost \cup Uncommitted
    /\ queue' = Tail(queue)
    /\ ui' = "box"
    /\ leaving' = Failed
    /\ UNCHANGED <<state, now, logged, db, work, cut, con, stuck, clean, archive, gone, mishaps>>

\* A row cannot be inserted: an ExceptionBox is shown, which serves messages (a commit
\* within it fails on "begin", or does what it would do after it), and _Commit returns.
InsertFails ==
    /\ ui = "insert" /\ queue # <<>>
    /\ \/ "insert" \in faults /\ trans' = trans
       \/ "full" \in faults /\ trans' = "none"
    /\ lost' = lost \cup Uncommitted
    /\ ui' = "box"
    /\ leaving' = Failed
    /\ UNCHANGED <<state, now, logged, queue, db, work, cut, con, stuck, clean, archive, gone, mishaps>>

\* Where the UI thread goes on after _Commit, and where after Commit has shown what _Commit
\* threw: that box serves messages as the main window does.
Return == ui' = IF leaving = "no" THEN "idle" ELSE "exit"
Told   == ui' = IF leaving = "no" THEN "idle" ELSE "told"

\* The lock's destructor: rollback, then leave.  When sqlite has rolled back by itself
\* rollback throws, and g_con is not left.
Leave(threw) ==
    /\ stuck' = (stuck \/ threw)
    /\ con' = IF stuck' THEN "ui" ELSE "none"
    /\ trans' = "none" /\ work' = <<>> /\ cut' = {}

\* Mutant of BoxClosed: the lock is left without a rollback.
BoxClosedOpen ==
    /\ ui = "box"
    /\ con' = "none" /\ trans' = trans /\ stuck' = stuck /\ work' = <<>> /\ cut' = {}
    /\ Return
    /\ UNCHANGED <<state, now, logged, queue, db, leaving, clean, history>>

\* The user closes it, and _Commit returns.
BoxClosed ==
    /\ ui = "box"
    /\ Leave(trans = "none")
    /\ Return
    /\ UNCHANGED <<state, now, logged, queue, db, leaving, clean, history>>

\* The queue is empty.  Every HistoryCheckInterval rows the file's size is looked at, if
\* anything is to be cleaned up at all.
Inserted ==
    /\ ui = "insert" /\ queue = <<>>
    /\ \/ ui' = "commit"
       \/ cleanup = "archive" /\ ui' = "archive"
       \/ cleanup = "delete" /\ ui' = "delete"
    /\ UNCHANGED <<state, now, logged, queue, store, leaving, clean, history>>

\* max - (max - min) / 2, counted from min: a new row's ROWID is the largest plus one, and
\* the first rows are deleted, so that ROWIDs are consecutive.
MidRowid == Len(work) - (Len(work) - 1) \div 2

\* Mutant of OlderHalf: ROWID <= midrowid.
OlderHalfIncluding == SubSeq(work, 1, MidRowid)

\* The rows with ROWID < midrowid.
OlderHalf == SubSeq(work, 1, MidRowid - 1)

\* Rows are appended to the archive files of their dates.  A file that cannot be opened is
\* passed over, what is thrown ends the archiving; the rows are deleted all the same.
Archive(rows) ==
    \E dates \in SUBSET {Date(r) : r \in rows} :
        LET written == {r \in rows : Date(r) \in dates} IN
        /\ archive' = archive \cup written
        /\ IF written = rows THEN UNCHANGED mishaps
           ELSE "archive" \in faults /\ mishaps' = mishaps \cup {"archive"}

\* The older half is archived; what is thrown is shown, with g_con held.
ArchiveHalf ==
    /\ ui = "archive"
    /\ Archive(ToSet(OlderHalf))
    /\ \/ ui' = "delete"
       \/ "archive" \in faults /\ ui' = "archivebox"
    /\ UNCHANGED <<state, now, logged, queue, store, leaving, clean, gone, lost>>

\* They are deleted.
DeleteHalf ==
    /\ ui = "delete"
    /\ work' = SubSeq(work, Len(OlderHalf) + 1, Len(work))
    /\ cut' = ToSet(OlderHalf)
    /\ ui' = "commit"
    /\ UNCHANGED <<state, now, logged, queue, db, trans, con, stuck, leaving, clean, history>>

\* They cannot be, which is shown, with g_con held.
DeleteHalfFails ==
    /\ ui = "delete"
    /\ \/ "insert" \in faults /\ UNCHANGED <<trans, lost>>
       \/ "full" \in faults /\ trans' = "none" /\ lost' = lost \cup Uncommitted
    /\ ui' = "deletebox"
    /\ UNCHANGED <<state, now, logged, queue, db, work, cut, con, stuck, leaving, clean, archive,
                   gone, mishaps>>

\* The user closes one of these boxes, and _Commit goes on; where sqlite has rolled back,
\* lock.commit() throws, and so does the rollback.
HalfBoxClosed ==
    /\ \/ /\ ui = "archivebox" /\ ui' = "delete"
          /\ UNCHANGED <<work, cut, trans, con, stuck, leaving>>
       \/ /\ ui = "deletebox" /\ trans = "ui" /\ ui' = "commit"
          /\ UNCHANGED <<work, cut, trans, con, stuck, leaving>>
       \/ /\ ui = "deletebox" /\ trans = "none"
          /\ Leave(TRUE) /\ Told
          /\ leaving' = Failed
    /\ UNCHANGED <<state, now, logged, queue, db, clean, history>>

\* What the transaction deletes is gone with the commit.
Committed ==
    /\ db' = work
    /\ gone' = gone \cup cut

\* lock.commit(), and the lock is left.  (Vacuum changes no row; that it fails is shown.)
CommitTrans ==
    /\ ui = "commit"
    /\ Committed
    /\ Leave(FALSE)
    /\ \/ Return
       \/ "full" \in faults /\ Told
    /\ UNCHANGED <<state, now, logged, queue, leaving, clean, archive, lost, mishaps>>

\* commit throws: the lock is left first, then the user told.
CommitFails ==
    /\ ui = "commit" /\ "full" \in faults
    /\ lost' = lost \cup Uncommitted
    /\ \E threw \in BOOLEAN : Leave(threw)
    /\ leaving' = Failed
    /\ Told
    /\ UNCHANGED <<state, now, logged, queue, db, clean, archive, gone, mishaps>>

\* The user closes the box.
ToldClosed ==
    /\ ui = "told" /\ ui' = "exit"
    /\ UNCHANGED <<state, now, logged, queue, store, leaving, clean, history>>

-----------------------------------------------------------------------------
(* The history window *)

\* The user clears the database: tables are dropped and made anew in a transaction of the
\* UI thread, which waits for g_con.
ClearDatabase ==
    /\ up /\ ui = "idle"
    /\ con \in {"none", "ui"}
    /\ db' = <<>>
    /\ lost' = lost \cup ToSet(db)
    /\ UNCHANGED <<state, now, logged, queue, work, cut, trans, con, stuck, ui, leaving, clean,
                   archive, gone, mishaps>>

\* ExportFuncs: the loading thread takes g_con, and keeps it until every row is written.
Export ==
    /\ up /\ ui = "idle"
    /\ con = "none" /\ con' = "export"
    /\ UNCHANGED <<state, now, logged, queue, db, work, cut, trans, stuck, ui, leaving, clean, history>>

\* ~ExportFuncs, on the UI thread.
ExportEnds ==
    /\ con = "export" /\ ui = "idle" /\ con' = "none"
    /\ UNCHANGED <<state, now, logged, queue, db, work, cut, trans, stuck, ui, leaving, clean, history>>

-----------------------------------------------------------------------------
(* Main_ProcessDb *)

\* TIMER_PROCESSDB: the thread is started, one at a time, and LastArchived set.
Main_OnTimer ==
    /\ up /\ ui \in {"idle"} \cup UiBoxes
    /\ cleaner = "idle" /\ cleanup # "none"
    /\ now - last > Interval
    /\ last' = now /\ cleaner' = "start"
    /\ UNCHANGED <<state, now, logged, queue, store, ui, leaving, history>>

\* The thread gets g_con, or does nothing.
TryClean ==
    /\ cleaner = "start"
    /\ IF con = "none"
       THEN /\ con' = "cleaner" /\ trans' = "cleaner" /\ work' = db
            /\ cleaner' = IF cleanup = "archive" THEN "archive" ELSE "delete"
       ELSE cleaner' = "idle" /\ UNCHANGED <<con, trans, work>>
    /\ UNCHANGED <<state, now, logged, queue, db, cut, stuck, ui, leaving, last, history>>

\* Mutant of ArchiveOld: the dates are those that are old altogether.
ArchiveOldDates ==
    /\ cleaner = "archive"
    /\ Archive({r \in ToSet(work) : \A q \in ToSet(work) : Date(q) = Date(r) => Old(q)})
    /\ cleaner' = "delete"
    /\ UNCHANGED <<state, now, logged, queue, store, ui, leaving, last, gone, lost>>

\* Every date that has an old row is archived, as a whole, and then peerblock.log; what is
\* thrown is shown, with g_con held.
ArchiveOld ==
    /\ cleaner = "archive"
    /\ Archive({r \in ToSet(work) : \E q \in ToSet(work) : Old(q) /\ Date(q) = Date(r)})
    /\ \/ cleaner' = "delete"
       \/ "archive" \in faults /\ cleaner' = "archivebox"
    /\ UNCHANGED <<state, now, logged, queue, store, ui, leaving, last, gone, lost>>

\* The old rows, by now, are deleted, and the transaction committed.  They are the first
\* ones: the clock is not put back.  Then the file is vacuumed and peerblock.log removed, and
\* if that throws it is shown, with g_con held.
DeleteOld ==
    /\ cleaner = "delete"
    /\ \E n \in 0 .. Len(work) :
          /\ \A i \in 1 .. Len(work) : Old(work[i]) <=> i <= n
          /\ db' = SubSeq(work, n + 1, Len(work))
          /\ gone' = gone \cup ToSet(SubSeq(work, 1, n))
    /\ work' = <<>> /\ cut' = {} /\ trans' = "none"
    /\ \/ con' = "none" /\ cleaner' = "idle"
       \/ {"full", "archive"} \cap faults # {} /\ con' = con /\ cleaner' = "donebox"
    /\ UNCHANGED <<state, now, logged, queue, stuck, ui, leaving, last, archive, lost, mishaps>>

\* Deleting or committing fails, which is shown, with g_con held; sqlite may have rolled back.
DeleteFails ==
    /\ cleaner = "delete" /\ "full" \in faults
    /\ trans' \in {"cleaner", "none"}
    /\ cleaner' = "deletebox"
    /\ UNCHANGED <<state, now, logged, queue, db, work, cut, con, stuck, ui, leaving, last, history>>

\* The user closes the box: rows are deleted after a failure to archive; otherwise the thread
\* ends, and what it has not committed is rolled back.  Where sqlite had done so, rollback
\* throws, and g_con is not left.
CleanerBoxClosed ==
    /\ \/ /\ cleaner = "archivebox" /\ cleaner' = "delete"
          /\ UNCHANGED <<work, trans, con>>
       \/ /\ cleaner \in {"deletebox", "donebox"} /\ cleaner' = "idle"
          /\ work' = <<>> /\ trans' = "none"
          /\ con' = IF cleaner = "deletebox" /\ trans = "none" THEN con ELSE "none"
    /\ UNCHANGED <<state, now, logged, queue, db, cut, stuck, ui, leaving, last, history>>

-----------------------------------------------------------------------------
(* The program ends and starts *)

\* Log_OnDestroy: no more actions, and what is queued is committed.  In the dialog of an
\* export the commit waits for a g_con that only the frames below would leave.
Log_OnDestroy ==
    /\ up /\ ui = "idle"
    /\ ui' = IF queue = <<>> THEN "exit" ELSE "wait"
    /\ leaving' = "yes"
    /\ UNCHANGED <<state, now, logged, queue, store, clean, history>>

\* Log_OnDestroy from within a box: Commit(true) runs inside _Commit.  After a failed insert
\* it fails on "begin", unless sqlite has rolled back: then it commits, and the outer lock,
\* whose rollback throws, is not left.  At the other boxes nothing is queued.
Log_OnDestroyInBox ==
    /\ up /\ ui \in {"box", "archivebox", "deletebox"} /\ leaving = "no"
    /\ \/ /\ ui = "box" /\ trans = "none"
          /\ ui' = "wait" /\ leaving' = "yes" /\ stuck' = TRUE
       \/ /\ ui = "box" /\ trans = "ui"
          /\ leaving' = "failed" /\ UNCHANGED <<ui, stuck>>
       \/ /\ ui \in {"archivebox", "deletebox"}
          /\ leaving' = "yes" /\ UNCHANGED <<ui, stuck>>
    /\ UNCHANGED <<state, now, logged, queue, db, work, cut, trans, con, clean, history>>

\* The process is gone, with Main_ProcessDb wherever it is and any open transaction.
Ended ==
    /\ up' = FALSE
    /\ queue' = <<>> /\ work' = <<>> /\ cut' = {} /\ trans' = "none" /\ con' = "none"
    /\ stuck' = FALSE
    /\ ui' = "idle" /\ leaving' = "no" /\ cleaner' = "idle"
    /\ UNCHANGED <<faults, cleanup, now, logged, db, last, archive, gone, mishaps>>

\* main returns; rows a failed commit has left in the queue are lost.
Exit ==
    /\ ui = "exit"
    /\ Ended
    /\ lost' = IF leaving = "failed" THEN lost \cup ToSet(queue) ELSE lost

\* The process ends: the queue and what was not committed are lost.
Crash ==
    /\ up /\ "crash" \in faults
    /\ Ended
    /\ lost' = lost \cup ToSet(queue) \cup (IF trans = "ui" THEN Uncommitted ELSE {})

\* The program starts, with a LastArchived that was saved at some time.
Start ==
    /\ ~up
    /\ up' = TRUE
    /\ last' \in 0 .. last
    /\ UNCHANGED <<faults, cleanup, now, logged, queue, store, ui, leaving, cleaner, history>>

-----------------------------------------------------------------------------
(* The specification *)

CommitSteps ==
    \/ Insert \/ InsertFails \/ Inserted \/ ArchiveHalf \/ DeleteHalf \/ DeleteHalfFails
    \/ CommitTrans \/ CommitFails

Clean == TryClean \/ ArchiveOld \/ DeleteOld \/ DeleteFails

\* What the user does at a box.
CloseBox == BoxClosed \/ HalfBoxClosed \/ ToldClosed \/ CleanerBoxClosed

Next ==
    \/ Tick \/ Log
    \/ Commit \/ ForceCommit \/ CommitSteps \/ CloseBox
    \/ ClearDatabase \/ Export \/ ExportEnds
    \/ Main_OnTimer \/ Clean
    \/ Log_OnDestroy \/ Log_OnDestroyInBox \/ Exit \/ Crash \/ Start

\* TIMER_COMMITLOG comes again and again, and threads run on.  The user need not close a
\* box, be it the UI thread's or Main_ProcessDb's (CloseBox), nor an export end.
Fairness == WF_vars(Commit) /\ WF_vars(ForceCommit) /\ WF_vars(CommitSteps) /\ WF_vars(Clean)
            /\ WF_vars(Exit)

Spec == Init /\ [][Next]_vars /\ Fairness

-----------------------------------------------------------------------------
(* Properties *)

Times == 0 .. MaxTime

\* Every variable has its type; a transaction is open only while its thread has g_con and is
\* in its own steps.
TypeOK ==
    /\ faults \in FaultSets /\ cleanup \in {"none", "delete", "archive"} /\ up \in BOOLEAN
    /\ now \in Times /\ last \in Times
    /\ logged \in Seq(Times) /\ Len(logged) <= MaxRows
    /\ queue \in Seq(Rows) /\ db \in Seq(Rows) /\ work \in Seq(Rows)
    /\ trans \in {"none", "ui", "cleaner"} /\ con \in {"none", "ui", "cleaner", "export"}
    /\ trans # "none" => con = trans
    /\ stuck \in BOOLEAN /\ stuck => con = "ui"
    /\ ui \in {"idle", "wait", "insert", "archive", "delete", "commit", "exit"} \cup UiBoxes
    /\ ui \in {"insert", "archive", "archivebox", "delete", "commit"} => trans = "ui"
    /\ leaving \in {"no", "yes", "failed"}
    /\ cleaner \in {"idle", "start", "archive", "delete"} \cup CleanerBoxes
    /\ cleaner \in {"archive", "archivebox", "delete"} => trans = "cleaner"
    /\ cut \subseteq Rows /\ archive \subseteq Rows /\ gone \subseteq Rows /\ lost \subseteq Rows
    /\ mishaps \subseteq {"archive", "late"}

\* The database as the UI thread's transaction sees it, or as it is.
Table == IF trans = "ui" /\ ui # "box" THEN work ELSE db

Removed == IF trans = "ui" /\ ui # "box" THEN gone \cup cut ELSE gone

Increasing(s) == \A i, j \in DOMAIN s : i < j => s[i] < s[j]

\* Rows are written in the order in which they were logged, each of them once, across failed
\* inserts, rollbacks and restarts.
InOrderOnce == Increasing(Table \o queue)

\* A logged row is in the queue or the database, or left it for its age or the database's
\* size, unless the user has been told, has cleared the database, or the program crashed.
Accounted == Rows = ToSet(queue) \cup ToSet(Table) \cup Removed \cup lost

\* With "Archive & Remove", what is removed has been archived, unless a file could not be
\* written or time passed between archiving and deleting.
ArchivedFirst == cleanup = "archive" /\ mishaps = {} => gone \subseteq archive

\* Only the oldest rows are removed: by Main_ProcessDb none that is younger than
\* CleanupInterval, and by the halving never all.
OldestRemoved ==
    [][\A r \in gone' \ gone :
          /\ \A q \in ToSet(db') : r < q
          /\ cleaner = "delete" => Old(r)
          /\ ui = "commit" => db' # <<>>]_vars

\* What is queued is written, all of it, unless the program ends, a box of either thread waits
\* for the user with g_con held, or g_con is held by an export, or by a thread that ended
\* without leaving it.
QueueDrains ==
    queue # <<>> ~> (queue = <<>> \/ ~up \/ ui = "box" \/ con = "export"
                       \/ (con = "cleaner" /\ cleaner \notin {"archive", "delete"}))
=============================================================================
