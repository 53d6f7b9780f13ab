---------------------------- MODULE FilterClient ----------------------------
(***************************************************************************)
(* The program's side of the filter (pbfilter_base, peerblock) against the *)
(* driver's ranges (SetRanges, the classify callouts).                     *)
(*                                                                         *)
(* Range labels are strings of the program: the driver stores pointers to  *)
(* them and hands the pointers back in its notifications, so a notification*)
(* can outlive the labels it names.  Every SetRanges carries an id that    *)
(* the notification brings back and thread_func compares; it then copies   *)
(* the label into its action, and everybody after it reads the copy.       *)
(*                                                                         *)
(* Actors: processors that classify connections; the UI thread, which      *)
(* loads the block list, opens and destroys the log window and shuts down; *)
(* update threads, which set the allow list; and the thread that reads     *)
(* notifications.  The driver's queue is the channel NotifyQueue           *)
(* implements (ChannelSpec), with the one request thread_func ever has     *)
(* outstanding.                                                            *)
(***************************************************************************)
EXTENDS Naturals, Sequences, FiniteSets

CONSTANTS Cpus,     \* processors that run classify callouts
          Updaters, \* update threads that are alive at once
          Addrs,    \* remote addresses
          MaxSets,  \* bound on the calls of setranges
          Capacity, \* notifications the driver queues
          None      \* no notification, no holder

ASSUME UpdatersAssumption == "ui" \notin Updaters /\ IsFiniteSet(Updaters)
ASSUME NoneAssumption == None # "reader"
ASSUME MaxSetsAssumption == MaxSets \in Nat
ASSUME CapacityAssumption == Capacity \in Nat

Lists   == {"block", "allow"}
Setters == {"ui"} \cup Updaters

\* LoadLists sets the block list from the UI thread; UpdateThread::preconnect_func sets
\* the allow list from the thread that runs curl.
ListOf(s) == IF s = "ui" THEN "block" ELSE "allow"

VARIABLES drv,      \* g_internal->{blocked,allowed}{ranges,labelsid}
          drvblock, \* g_internal->block
          callout,  \* the notification each processor is about to send
          buffer,   \* notifications the driver has queued
          request,  \* the outstanding IOCTL_PEERBLOCK_GETNOTIFICATION
          pbn,      \* thread_func's pbn, which the request fills
          sid,      \* m_blocklabelsid, m_allowlabelsid
          labels,   \* the buffer m_blocklabels, m_allowlabels own
          set,      \* where each call of setranges is
          used,     \* how many label buffers have been allocated
          mlock,    \* the holder of m_lock
          onaction, \* whether m_onaction is set
          log,      \* the LogFilterAction g_log owns
          run,      \* m_runthread, and m_exitevt not signalled
          mblock,   \* m_block
          ui,       \* where the UI thread is
          reader    \* where thread_func is, its notification, the label it is about to copy

drvVars  == <<drv, drvblock, callout>>
chanVars == <<buffer, request, pbn>>
setVars  == <<sid, labels, set, used>>
appVars  == <<onaction, log, run, mblock, ui>>
vars == <<drvVars, chanVars, setVars, mlock, appVars, reader>>

SetPc    == {"idle", "write", "load", "store", "swap", "return"}
UiPc     == {"pump", "setfunc", "clearfunc", "quit", "join", "gone"}
ReaderPc == {"loop", "wait", "lock", "copy", "show", "insert", "store", "unlock",
             "exit", "done"}

\* Each call of setranges allocates its labels anew, and numbers them here; 0 is NULL.
Buffers == 0 .. MaxSets
Null    == 0

\* Ids start at 0 and grow by at most one in a call.
Ids == 0 .. MaxSets

Note == [action : Lists \cup {"none"}, label : Buffers, sid : Ids]

NoRanges == [hits |-> {}, buf |-> Null, sid |-> 0]
IdleSet  == [pc |-> "idle", hits |-> {}, buf |-> Null, tmp |-> 0]
\* PBNOTIFICATION pbn = {0}
NoMatch  == [action |-> "none", label |-> Null, sid |-> 0]

\* pbfilter::pbfilter: the driver runs, and start_thread has created the thread.
Init ==
    /\ drv = [l \in Lists |-> NoRanges]
    /\ drvblock = FALSE
    /\ callout = [c \in Cpus |-> None]
    /\ buffer = <<>>
    /\ request = "idle"
    /\ pbn = None
    /\ sid = [l \in Lists |-> 0]
    /\ labels = [l \in Lists |-> Null]
    /\ set = [s \in Setters |-> IdleSet]
    /\ used = 0
    /\ mlock = None
    /\ onaction = FALSE
    /\ log = "none"
    /\ run = TRUE
    /\ mblock = FALSE
    /\ ui = "pump"
    /\ reader = [pc |-> "loop", note |-> None, label |-> Null]

-----------------------------------------------------------------------------
(* The driver *)

\* CheckRanges, under rangeslock: the allow list is looked up first.
CheckRanges(a) ==
    IF \E l \in Lists : a \in drv[l].hits
    THEN LET l == IF a \in drv["allow"].hits THEN "allow" ELSE "block"
         IN [action |-> l, label |-> drv[l].buf, sid |-> drv[l].sid]
    ELSE NoMatch

\* A classify callout: no filtering unless block is set; ports that are always allowed
\* skip the ranges but still notify.
Classify(c, a) ==
    /\ drvblock /\ callout[c] = None
    /\ \E n \in {CheckRanges(a), NoMatch} : callout' = [callout EXCEPT ![c] = n]
    /\ UNCHANGED <<drv, drvblock, chanVars, setVars, mlock, appVars, reader>>

\* Mutant of NotificationSend: no limit on the queue.
NotificationSendUnbounded(c) ==
    /\ callout[c] # None
    /\ IF request = "waiting"
       THEN request' = "answered" /\ pbn' = callout[c] /\ UNCHANGED buffer
       ELSE buffer' = Append(buffer, callout[c]) /\ UNCHANGED <<request, pbn>>
    /\ callout' = [callout EXCEPT ![c] = None]
    /\ UNCHANGED <<drv, drvblock, setVars, mlock, appVars, reader>>

NotificationSend(c) ==
    /\ callout[c] # None
    /\ IF request = "waiting"
       THEN request' = "answered" /\ pbn' = callout[c] /\ UNCHANGED buffer
       ELSE /\ buffer' = IF Len(buffer) < Capacity THEN Append(buffer, callout[c]) ELSE buffer
            /\ UNCHANGED <<request, pbn>>
    /\ callout' = [callout EXCEPT ![c] = None]
    /\ UNCHANGED <<drv, drvblock, setVars, mlock, appVars, reader>>

\* Mutant of DriverSetRanges: takes the new id before it knows whether there is memory.
DriverSetRangesIdFirst(l, hits, b, id) ==
    \/ drv' = [drv EXCEPT ![l] = IF hits = {} THEN NoRanges
                                 ELSE [hits |-> hits, buf |-> b, sid |-> id]]
    \/ hits # {} /\ drv' = [drv EXCEPT ![l].sid = id]

\* SetRanges: an empty list needs no memory; for another the driver may find none, and it
\* then keeps the ranges it has.
DriverSetRanges(l, hits, b, id) ==
    \/ drv' = [drv EXCEPT ![l] = IF hits = {} THEN NoRanges
                                 ELSE [hits |-> hits, buf |-> b, sid |-> id]]
    \/ hits # {} /\ UNCHANGED drv

\* IOCTL_PEERBLOCK_HOOK
DriverHook(b) == drvblock' = b

\* Driver_OnCleanup, when the last handle is closed
DriverCleanup ==
    /\ DriverHook(FALSE)
    /\ drv' = [l \in Lists |-> NoRanges]
    /\ buffer' = <<>>

-----------------------------------------------------------------------------
(* pbfilter_base::setranges, with SetRanges in the driver.  m_lock is not taken. *)

\* The labels are laid out in a local vector.
SetBuild(s, hits) ==
    /\ set[s].pc = "idle" /\ used < MaxSets
    /\ ui = "pump" \/ (s # "ui" /\ ui \in {"setfunc", "clearfunc"})
    /\ used' = used + 1
    /\ set' = [set EXCEPT ![s] = [pc |-> "write", hits |-> hits, buf |-> used + 1, tmp |-> 0]]
    /\ UNCHANGED <<drvVars, chanVars, sid, labels, mlock, appVars, reader>>

\* IOCTL_PEERBLOCK_SETRANGES, which succeeds whatever SetRanges did.
SetWrite(s) ==
    /\ set[s].pc = "write"
    /\ DriverSetRanges(ListOf(s), set[s].hits, set[s].buf, sid[ListOf(s)] + 1)
    /\ set' = [set EXCEPT ![s].pc = "load", ![s].hits = {}]
    /\ UNCHANGED <<drvblock, callout, chanVars, sid, labels, used, mlock, appVars, reader>>

\* DeviceIoControl itself fails: setranges throws after releasing what it allocated.
SetWriteFails(s) ==
    /\ set[s].pc = "write"
    /\ set' = [set EXCEPT ![s].pc = "return"]
    /\ UNCHANGED <<drvVars, chanVars, sid, labels, used, mlock, appVars, reader>>

\* ++m_blocklabelsid is a load and a store.
SetLoad(s) ==
    /\ set[s].pc = "load"
    /\ set' = [set EXCEPT ![s].pc = "store", ![s].tmp = sid[ListOf(s)]]
    /\ UNCHANGED <<drvVars, chanVars, sid, labels, used, mlock, appVars, reader>>

SetStore(s) ==
    /\ set[s].pc = "store"
    /\ sid' = [sid EXCEPT ![ListOf(s)] = set[s].tmp + 1]
    /\ set' = [set EXCEPT ![s].pc = "swap", ![s].tmp = 0]
    /\ UNCHANGED <<drvVars, chanVars, labels, used, mlock, appVars, reader>>

\* m_blocklabels.swap(labelsbuf)
SetSwap(s) ==
    /\ set[s].pc = "swap"
    /\ labels' = [labels EXCEPT ![ListOf(s)] = set[s].buf]
    /\ set' = [set EXCEPT ![s].pc = "return", ![s].buf = labels[ListOf(s)]]
    /\ UNCHANGED <<drvVars, chanVars, sid, used, mlock, appVars, reader>>

\* The local vector is destroyed.
SetReturn(s) ==
    /\ set[s].pc = "return"
    /\ set' = [set EXCEPT ![s] = IdleSet]
    /\ UNCHANGED <<drvVars, chanVars, sid, labels, used, mlock, appVars, reader>>

-----------------------------------------------------------------------------
(* The UI thread *)

\* It serves messages that other threads send to its windows.
Pumping == ui \in {"pump", "quit"} /\ set["ui"].pc = "idle"

\* SetBlock, pbfilter_base::setblock: m_block is assigned before the request, which may fail.
SetBlock(b) ==
    /\ ui = "pump" /\ Pumping
    /\ b # mblock
    /\ mblock' = b
    /\ \/ DriverHook(b)
       \/ UNCHANGED drvblock
    /\ UNCHANGED <<drv, callout, chanVars, setVars, mlock, onaction, log, run, ui, reader>>

\* Log_OnInitDialog
OpenLog ==
    /\ ui = "pump" /\ Pumping /\ log = "none"
    /\ log' = "alive"
    /\ ui' = "setfunc"
    /\ UNCHANGED <<drvVars, chanVars, setVars, mlock, onaction, run, mblock, reader>>

SetActionFunc ==
    /\ ui = "setfunc" /\ mlock = None
    /\ onaction' = TRUE
    /\ ui' = "pump"
    /\ UNCHANGED <<drvVars, chanVars, setVars, mlock, log, run, mblock, reader>>

\* Main_OnDestroy, Log_OnDestroy: setactionfunc(), which takes m_lock ...
DestroyLog ==
    /\ ui = "pump" /\ Pumping /\ log = "alive"
    /\ ui' = "clearfunc"
    /\ UNCHANGED <<drvVars, chanVars, setVars, mlock, onaction, log, run, mblock, reader>>

\* Mutant of ClearActionFunc: setactionfunc does not take m_lock.
ClearActionFuncUnlocked ==
    /\ ui = "clearfunc"
    /\ onaction' = FALSE
    /\ log' = "dead"
    /\ ui' = "quit"
    /\ UNCHANGED <<drvVars, chanVars, setVars, mlock, run, mblock, reader>>

\* ... and then g_log is destroyed.
ClearActionFunc ==
    /\ ui = "clearfunc" /\ mlock = None
    /\ onaction' = FALSE
    /\ log' = "dead"
    /\ ui' = "quit"
    /\ UNCHANGED <<drvVars, chanVars, setVars, mlock, run, mblock, reader>>

\* Shutdown, pbfilter::~pbfilter, stop_thread.  No update thread is inside the filter.
StopThread ==
    /\ ui = "quit" /\ Pumping
    /\ \A s \in Updaters : set[s].pc = "idle"
    /\ run' = FALSE
    /\ ui' = "join"
    /\ UNCHANGED <<drvVars, chanVars, setVars, mlock, onaction, log, mblock, reader>>

\* The thread has ended: remove_callout, and the device is closed, which makes the driver
\* run Driver_OnCleanup.  The label vectors go with the object.
CloseFilter ==
    /\ ui = "join" /\ reader.pc = "done"
    /\ DriverCleanup
    /\ labels' = [l \in Lists |-> Null]
    /\ ui' = "gone"
    /\ UNCHANGED <<callout, request, pbn, sid, set, used, mlock, onaction, log, run, mblock,
                   reader>>

-----------------------------------------------------------------------------
(* pbfilter_base::thread_func *)

ReaderAt(pc) == reader.pc = pc
ReaderGoto(pc) == reader' = [reader EXCEPT !.pc = pc]

ReadNotification ==
    /\ ReaderAt("loop") /\ run
    /\ IF buffer = <<>>
       THEN request' = "waiting" /\ UNCHANGED <<buffer, pbn>>
       ELSE request' = "answered" /\ pbn' = Head(buffer) /\ buffer' = Tail(buffer)
    /\ ReaderGoto("wait")
    /\ UNCHANGED <<drvVars, setVars, mlock, appVars>>

\* ERROR_OPERATION_ABORTED ends the thread; after any other failure, "error: read failed",
\* it waits all the same.
ReadFails ==
    /\ ReaderAt("loop") /\ run
    /\ ReaderGoto("wait") \/ ReaderGoto("done")
    /\ UNCHANGED <<drvVars, chanVars, setVars, mlock, appVars>>

\* Mutant of WaitExit: only the overlapped event wakes the thread.
WaitExitIgnoresEvent ==
    /\ ReaderAt("wait") /\ ~run /\ request = "answered"
    /\ ReaderGoto("exit")
    /\ UNCHANGED <<drvVars, chanVars, setVars, mlock, appVars>>

\* Either event, and m_runthread is false: cancelio withdraws a request that still waits ...
WaitExit ==
    /\ ReaderAt("wait") /\ ~run
    /\ request' = IF request = "waiting" THEN "withdrawn" ELSE request
    /\ ReaderGoto("exit")
    /\ UNCHANGED <<drvVars, buffer, pbn, setVars, mlock, appVars>>

\* ... and getresult waits for the request to be completed; the thread leaves its loop.
Cancelled ==
    /\ ReaderAt("exit")
    /\ request' = "idle"
    /\ pbn' = None
    /\ ReaderGoto("done")
    /\ UNCHANGED <<drvVars, buffer, setVars, mlock, appVars>>

LoopExit ==
    /\ ReaderAt("loop") /\ ~run
    /\ ReaderGoto("done")
    /\ UNCHANGED <<drvVars, chanVars, setVars, mlock, appVars>>

GetResult ==
    /\ ReaderAt("wait") /\ run /\ request = "answered"
    /\ request' = "idle"
    /\ pbn' = None
    /\ reader' = [pc |-> "lock", note |-> pbn, label |-> Null]
    /\ UNCHANGED <<drvVars, buffer, setVars, mlock, appVars>>

\* getresult fails: the thread ends (ERROR_OPERATION_ABORTED), or makes a new request.
GetResultFails ==
    /\ ReaderAt("wait") /\ run /\ request = "answered"
    /\ request' = "idle"
    /\ pbn' = None
    /\ ReaderGoto("loop") \/ ReaderGoto("done")
    /\ UNCHANGED <<drvVars, buffer, setVars, mlock, appVars>>

\* Whether thread_func trusts the label pointer of a notification.
Matches(n) == n.action \in Lists /\ n.label # Null /\ n.sid = sid[n.action]

\* Under m_lock: compare the id ...
CheckLabel ==
    /\ ReaderAt("lock") /\ mlock = None
    /\ mlock' = "reader"
    /\ reader' = [reader EXCEPT !.pc = "copy",
                                !.label = IF Matches(reader.note) THEN reader.note.label
                                          ELSE Null]
    /\ UNCHANGED <<drvVars, chanVars, setVars, appVars>>

\* ... copy the label's characters into the action (a.label is a std::wstring), and call
\* m_onaction with the action.
CopyLabel ==
    /\ ReaderAt("copy")
    /\ reader' = [reader EXCEPT !.pc = IF onaction THEN "show" ELSE "unlock", !.label = Null]
    /\ UNCHANGED <<drvVars, chanVars, setVars, mlock, appVars>>

\* LogFilterAction: the first ListView messages, which the UI thread has to serve.
ShowMessage ==
    /\ ReaderAt("show") /\ Pumping
    /\ ReaderGoto("insert")
    /\ UNCHANGED <<drvVars, chanVars, setVars, mlock, appVars>>

\* The settings and the addresses decide whether an action is shown, and whether stored.
DoNotShow ==
    /\ ReaderAt("show")
    /\ ReaderGoto("store") \/ ReaderGoto("unlock")
    /\ UNCHANGED <<drvVars, chanVars, setVars, mlock, appVars>>

\* ListView_InsertItem, ListView_SetItem
InsertMessage ==
    /\ ReaderAt("insert") /\ Pumping
    /\ ReaderGoto("store") \/ ReaderGoto("unlock")
    /\ UNCHANGED <<drvVars, chanVars, setVars, mlock, appVars>>

\* dbqueue.push(a): the queue is a member of the LogFilterAction.
StoreAction ==
    /\ ReaderAt("store")
    /\ ReaderGoto("unlock")
    /\ UNCHANGED <<drvVars, chanVars, setVars, mlock, appVars>>

ReleaseLock ==
    /\ ReaderAt("unlock")
    /\ mlock' = None
    /\ reader' = [pc |-> "loop", note |-> None, label |-> Null]
    /\ UNCHANGED <<drvVars, chanVars, setVars, appVars>>

-----------------------------------------------------------------------------
Driver == \E c \in Cpus : (\E a \in Addrs : Classify(c, a)) \/ NotificationSend(c)

SetStep(s) == \/ SetWrite(s) \/ SetWriteFails(s)
              \/ SetLoad(s) \/ SetStore(s) \/ SetSwap(s) \/ SetReturn(s)

SetRanges == \E s \in Setters : \/ \E hits \in SUBSET Addrs : SetBuild(s, hits)
                                \/ SetStep(s)

Window == OpenLog \/ SetActionFunc \/ DestroyLog \/ ClearActionFunc \/ StopThread \/ CloseFilter

Ui == (\E b \in BOOLEAN : SetBlock(b)) \/ Window

Reader == \/ ReadNotification \/ ReadFails \/ WaitExit \/ Cancelled \/ LoopExit \/ GetResult
          \/ GetResultFails \/ CheckLabel \/ CopyLabel \/ ShowMessage \/ DoNotShow
          \/ InsertMessage \/ StoreAction \/ ReleaseLock

Next == Driver \/ SetRanges \/ Ui \/ Reader

\* thread_func goes on wherever it can.
ReaderRuns == WF_vars(Reader)

Spec == Init /\ [][Next]_vars /\ ReaderRuns

\* So do the other threads; a message sent to a window is served once its thread serves
\* messages; who waits for a critical section gets it if it is free again and again.
\* Nothing makes a connection, a load, an update, a click or the end of the program happen.
Fairness ==
    /\ \A c \in Cpus : WF_vars(NotificationSend(c))
    /\ \A s \in Setters : WF_vars(SetStep(s))
    /\ WF_vars(StopThread) /\ WF_vars(CloseFilter)
    /\ SF_vars(SetActionFunc) /\ SF_vars(ClearActionFunc)
    /\ SF_vars(CheckLabel) /\ SF_vars(ShowMessage) /\ SF_vars(InsertMessage)

FairSpec == Spec /\ Fairness

-----------------------------------------------------------------------------
(* Properties *)

\* Every variable has its type; the driver queues at most Capacity notifications, and an id
\* never gets ahead of the calls of setranges.
TypeOK ==
    /\ drv \in [Lists -> [hits : SUBSET Addrs, buf : Buffers, sid : Ids]]
    /\ drvblock \in BOOLEAN
    /\ callout \in [Cpus -> Note \cup {None}]
    /\ buffer \in Seq(Note) /\ Len(buffer) <= Capacity
    /\ request \in {"idle", "waiting", "answered", "withdrawn"}
    /\ pbn \in Note \cup {None}
    /\ sid \in [Lists -> Ids]
    /\ labels \in [Lists -> Buffers]
    /\ set \in [Setters -> [pc : SetPc, hits : SUBSET Addrs, buf : Buffers,
                            tmp : Ids]]
    /\ used \in Buffers
    /\ mlock \in {"reader", None}
    /\ onaction \in BOOLEAN
    /\ log \in {"none", "alive", "dead"}
    /\ run \in BOOLEAN
    /\ mblock \in BOOLEAN
    /\ ui \in UiPc
    /\ reader \in [pc : ReaderPc, note : Note \cup {None}, label : Buffers]

\* The label buffers that exist: owned by m_blocklabels or m_allowlabels, or local to a
\* call of setranges.
Live == {labels[l] : l \in Lists} \cup {set[s].buf : s \in Setters}

\* Notifications on their way to thread_func's comparison.
InFlight ==
    {callout[c] : c \in Cpus} \cup {buffer[k] : k \in 1 .. Len(buffer)}
        \cup {pbn} \cup (IF ReaderAt("lock") THEN {reader.note} ELSE {})

\* The labels of the block list, which one thread sets: whatever is in flight while lists
\* are exchanged, without m_lock and even when the driver found no memory for the new
\* ranges, a notification whose id equals m_blocklabelsid names labels that exist.
BlockLabelsLive ==
    ui # "gone" =>
        \A n \in InFlight \ {None} : n.action = "block" /\ Matches(n) => n.label \in Live

\* m_onaction never runs on a LogFilterAction that is not there (boost::ref does not own
\* it): setactionfunc waits for the callback under m_lock before g_log is destroyed.
CallbackAlive ==
    reader.pc \in {"show", "insert", "store"} => log = "alive"

\* The driver's queue, with the only request the program makes.
Channel == INSTANCE NotificationChannel WITH
    Irps    <- {"irp"},
    Notes   <- Note,
    waiting <- IF request = "waiting" THEN <<"irp">> ELSE <<>>,
    request <- [i \in {"irp"} |-> request],
    got     <- [i \in {"irp"} |-> pbn]

\* Between the callouts and thread_func there is the channel that the queue implements: a
\* request answered in order, withdrawn by CancelIo or not yet decided, and whatever the two
\* sides do, stopping the thread and closing the device included, nothing else.
ChannelSpec == Channel!Spec

\* stop_thread ends: whatever the thread is doing, and even after a failed read, it sees the
\* exit event.
ReaderStops == ~run ~> ReaderAt("done")

\* thread_func copies a label only while its buffer exists: no setranges frees the labels
\* between the comparison of the id and the copy.  It would be so if "this mutex doesn't
\* appear necessary" held of the lock setranges no longer takes.
LabelAlive ==
    ReaderAt("copy") /\ reader.label # Null => reader.label \in Live

\* Destroying the main window lets the program terminate: setactionfunc returns.
CloseTerminates == ui = "clearfunc" ~> ui = "gone"
=============================================================================
