---------------------------- MODULE NotifyQueue ----------------------------
(***************************************************************************)
(* The driver's notification queue (pbfilter/notifyqueue.c).               *)
(*                                                                         *)
(* Senders are the processors on which a classify callout runs             *)
(* Notification_Send.  Threads are the threads of the reading program:     *)
(* each is in user code, inside Notification_Recieve, or inside            *)
(* IoCancelIrp and through it in Notification_OnCancel.  IRP_MJ_CLEANUP    *)
(* runs DestroyNotificationQueue, which takes no lock.                     *)
(*                                                                         *)
(* Granularity: queue->lock is held across steps only where its holder     *)
(* spins for the cancel lock; every other critical section is one action   *)
(* that needs the lock free.  What the code does after a release (setting  *)
(* IoStatus and IoCompleteRequest) is an action of its own.  Each turn of  *)
(* a loop of DestroyNotificationQueue is a step, and needs no lock.        *)
(***************************************************************************)
EXTENDS Naturals, Sequences

CONSTANTS Senders,  \* processors that run classify callouts
          Threads,  \* threads of the reading program
          Irps,     \* IRP_MJ_DEVICE_CONTROL requests, reused once collected
          Notes,    \* contents of a PBNOTIFICATION
          Capacity, \* 64 in the code
          None      \* no thread, no request, no notification

ASSUME NoneAssumption == None \notin Threads \cup Irps \cup Notes
ASSUME CapacityAssumption == Capacity \in Nat

VARIABLES irp_list,          \* queue->irp_list: requests waiting, oldest first
          notification_list, \* queue->notification_list
          queued,            \* queue->queued
          lock,              \* the thread that holds queue->lock across steps
          cancelLock,        \* the thread that holds the system cancel lock
          status,            \* IoStatus of each request, "pending" until completed
          routine,           \* whether the request's cancel routine is set
          sysbuf,            \* the request's SystemBuffer
          thread,            \* where each thread is and the request it works on
          hand,              \* the request a sender dequeued and has to complete
          destroy,           \* how far DestroyNotificationQueue is
          open               \* whether the reading program has the device open

listVars  == <<irp_list, notification_list, queued>>
irpVars   == <<status, routine, sysbuf>>
lockVars  == <<lock, cancelLock>>
vars == <<irp_list, notification_list, queued, lock, cancelLock, status, routine,
          sysbuf, thread, hand, destroy, open>>

Completed == {"success", "cancelled", "toosmall"}

ThreadPc == {"user", "marking", "copied", "oncancel", "found", "missed"}

At(t, pc) == thread[t].pc = pc
Goto(t, pc, i) == thread' = [thread EXCEPT ![t] = [pc |-> pc, irp |-> i]]

\* RemoveEntryList of the j-th node
Without(s, j) == [k \in 1 .. Len(s) - 1 |-> IF k < j THEN s[k] ELSE s[k + 1]]

\* InitNotificationQueue, from DriverEntry
Init ==
    /\ irp_list = <<>>
    /\ notification_list = <<>>
    /\ queued = 0
    /\ lock = None
    /\ cancelLock = None
    /\ status = [i \in Irps |-> "none"]
    /\ routine = [i \in Irps |-> FALSE]
    /\ sysbuf = [i \in Irps |-> None]
    /\ thread = [t \in Threads |-> [pc |-> "user", irp |-> None]]
    /\ hand = [s \in Senders |-> None]
    /\ destroy = [pc |-> "idle", irp |-> None]
    /\ open = FALSE

-----------------------------------------------------------------------------
(* Notification_Send *)

\* Mutant of SendBuffer: the bound is tested after the increment it guards.
SendBufferPastLimit(s, n) ==
    /\ hand[s] = None /\ lock = None
    /\ irp_list = <<>>
    /\ IF queued <= Capacity
       THEN /\ notification_list' = Append(notification_list, n)
            /\ queued' = queued + 1
       ELSE UNCHANGED <<notification_list, queued>>
    /\ UNCHANGED <<irp_list, irpVars, lockVars, thread, hand, destroy, open>>

\* Nobody waits: buffer the notification, or drop it when 64 are queued.
SendBuffer(s, n) ==
    /\ hand[s] = None /\ lock = None
    /\ irp_list = <<>>
    /\ IF queued < Capacity
       THEN /\ notification_list' = Append(notification_list, n)
            /\ queued' = queued + 1
       ELSE UNCHANGED <<notification_list, queued>>
    /\ UNCHANGED <<irp_list, irpVars, lockVars, thread, hand, destroy, open>>

\* Mutant of SendHand: takes the request from the wrong end of the list.
SendHandNewest(s, n) ==
    LET last == irp_list[Len(irp_list)] IN
    /\ hand[s] = None /\ lock = None
    /\ irp_list # <<>>
    /\ irp_list' = SubSeq(irp_list, 1, Len(irp_list) - 1)
    /\ sysbuf' = [sysbuf EXCEPT ![last] = n]
    /\ hand' = [hand EXCEPT ![s] = last]
    /\ UNCHANGED <<notification_list, queued, status, routine, lockVars, thread,
                   destroy, open>>

\* Somebody waits: copy into the oldest request; it is completed after the release.
SendHand(s, n) ==
    /\ hand[s] = None /\ lock = None
    /\ irp_list # <<>>
    /\ irp_list' = Tail(irp_list)
    /\ sysbuf' = [sysbuf EXCEPT ![Head(irp_list)] = n]
    /\ hand' = [hand EXCEPT ![s] = Head(irp_list)]
    /\ UNCHANGED <<notification_list, queued, status, routine, lockVars, thread,
                   destroy, open>>

SendComplete(s) ==
    /\ hand[s] # None
    /\ status' = [status EXCEPT ![hand[s]] = "success"]
    /\ hand' = [hand EXCEPT ![s] = None]
    /\ UNCHANGED <<listVars, routine, sysbuf, lockVars, thread, destroy, open>>

-----------------------------------------------------------------------------
(* Notification_Recieve *)

CanIssue(t, i) == open /\ destroy.pc = "idle" /\ At(t, "user") /\ status[i] = "none"

RecieveTooSmall(t, i) ==
    /\ CanIssue(t, i)
    /\ status' = [status EXCEPT ![i] = "toosmall"]
    /\ UNCHANGED <<listVars, routine, sysbuf, lockVars, thread, hand, destroy, open>>

\* Mutant of RecieveWait: does not look at notification_list under the lock.
RecieveWaitUnchecked(t, i) ==
    /\ CanIssue(t, i) /\ lock = None
    /\ irp_list' = Append(irp_list, i)
    /\ status' = [status EXCEPT ![i] = "pending"]
    /\ lock' = t
    /\ Goto(t, "marking", i)
    /\ UNCHANGED <<notification_list, queued, routine, sysbuf, cancelLock, hand,
                   destroy, open>>

\* No notification: queue the request and, still holding queue->lock, go for the
\* cancel lock.
RecieveWait(t, i) ==
    /\ CanIssue(t, i) /\ lock = None
    /\ notification_list = <<>>
    /\ irp_list' = Append(irp_list, i)
    /\ status' = [status EXCEPT ![i] = "pending"]
    /\ lock' = t
    /\ Goto(t, "marking", i)
    /\ UNCHANGED <<notification_list, queued, routine, sysbuf, cancelLock, hand,
                   destroy, open>>

\* IoAcquireCancelSpinLock .. STATUS_PENDING
SetCancelRoutine(t) ==
    /\ At(t, "marking") /\ cancelLock = None
    /\ routine' = [routine EXCEPT ![thread[t].irp] = TRUE]
    /\ lock' = None
    /\ Goto(t, "user", None)
    /\ UNCHANGED <<listVars, status, sysbuf, cancelLock, hand, destroy, open>>

\* Mutant of RecieveTake: forgets --queue->queued.
RecieveTakeUncounted(t, i) ==
    /\ CanIssue(t, i) /\ lock = None
    /\ notification_list # <<>>
    /\ notification_list' = Tail(notification_list)
    /\ sysbuf' = [sysbuf EXCEPT ![i] = Head(notification_list)]
    /\ status' = [status EXCEPT ![i] = "pending"]
    /\ Goto(t, "copied", i)
    /\ UNCHANGED <<irp_list, queued, routine, lockVars, hand, destroy, open>>

RecieveTake(t, i) ==
    /\ CanIssue(t, i) /\ lock = None
    /\ notification_list # <<>>
    /\ notification_list' = Tail(notification_list)
    /\ queued' = queued - 1
    /\ sysbuf' = [sysbuf EXCEPT ![i] = Head(notification_list)]
    /\ status' = [status EXCEPT ![i] = "pending"]
    /\ Goto(t, "copied", i)
    /\ UNCHANGED <<irp_list, routine, lockVars, hand, destroy, open>>

RecieveComplete(t) ==
    /\ At(t, "copied")
    /\ status' = [status EXCEPT ![thread[t].irp] = "success"]
    /\ Goto(t, "user", None)
    /\ UNCHANGED <<listVars, routine, sysbuf, lockVars, hand, destroy, open>>

-----------------------------------------------------------------------------
(* IoCancelIrp (CancelIo, thread termination) and Notification_OnCancel *)

\* The system takes the cancel lock and calls the routine, clearing it.  A request
\* completed but not yet collected still has its routine: nothing in the driver
\* resets it.
CancelIrp(t, i) ==
    /\ At(t, "user") /\ cancelLock = None
    /\ routine[i]
    /\ routine' = [routine EXCEPT ![i] = FALSE]
    /\ cancelLock' = t
    /\ Goto(t, "oncancel", i)
    /\ UNCHANGED <<listVars, status, sysbuf, lock, hand, destroy, open>>

OnCancelFind(t) ==
    /\ At(t, "oncancel") /\ lock = None
    /\ \E j \in 1 .. Len(irp_list) :
          /\ irp_list[j] = thread[t].irp
          /\ irp_list' = Without(irp_list, j)
    /\ Goto(t, "found", thread[t].irp)
    /\ UNCHANGED <<notification_list, queued, irpVars, lockVars, hand, destroy, open>>

OnCancelMiss(t) ==
    /\ At(t, "oncancel") /\ lock = None
    /\ \A j \in 1 .. Len(irp_list) : irp_list[j] # thread[t].irp
    /\ Goto(t, "missed", thread[t].irp)
    /\ UNCHANGED <<listVars, irpVars, lockVars, hand, destroy, open>>

\* Mutant of OnCancelReturn: completes the request whether or not it was found.
OnCancelCompleteAlways(t) ==
    /\ thread[t].pc \in {"found", "missed"}
    /\ status' = [status EXCEPT ![thread[t].irp] = "cancelled"]
    /\ cancelLock' = None
    /\ Goto(t, "user", None)
    /\ UNCHANGED <<listVars, routine, sysbuf, lock, hand, destroy, open>>

\* Mutant of OnCancelReturn: leaves the cancel lock held when there is nothing to complete.
OnCancelKeepLock(t) ==
    /\ thread[t].pc \in {"found", "missed"}
    /\ status' = IF At(t, "found")
                 THEN [status EXCEPT ![thread[t].irp] = "cancelled"]
                 ELSE status
    /\ cancelLock' = IF At(t, "found") THEN None ELSE cancelLock
    /\ Goto(t, "user", None)
    /\ UNCHANGED <<listVars, routine, sysbuf, lock, hand, destroy, open>>

\* IoCompleteRequest if the request was found, then IoReleaseCancelSpinLock.
OnCancelReturn(t) ==
    /\ thread[t].pc \in {"found", "missed"}
    /\ status' = IF At(t, "found")
                 THEN [status EXCEPT ![thread[t].irp] = "cancelled"]
                 ELSE status
    /\ cancelLock' = None
    /\ Goto(t, "user", None)
    /\ UNCHANGED <<listVars, routine, sysbuf, lock, hand, destroy, open>>

-----------------------------------------------------------------------------
(* The reading program *)

\* Driver_OnCreate does nothing to the queue.
OpenDevice ==
    /\ ~open /\ destroy.pc = "idle"
    /\ open' = TRUE
    /\ UNCHANGED <<listVars, irpVars, lockVars, thread, hand, destroy>>

\* GetOverlappedResult: the request is over and its memory can be reused.
Collect(i) ==
    /\ status[i] \in Completed
    /\ \A t \in Threads : thread[t].irp # i
    /\ status' = [status EXCEPT ![i] = "none"]
    /\ routine' = [routine EXCEPT ![i] = FALSE]
    /\ sysbuf' = [sysbuf EXCEPT ![i] = None]
    /\ UNCHANGED <<listVars, lockVars, thread, hand, destroy, open>>

\* The last handle is closed while no thread is inside DeviceIoControl.
CloseDevice ==
    /\ open
    /\ \A t \in Threads : thread[t].pc \notin {"marking", "copied"}
    /\ open' = FALSE
    /\ destroy' = [pc |-> "notes", irp |-> None]
    /\ UNCHANGED <<listVars, irpVars, lockVars, thread, hand>>

-----------------------------------------------------------------------------
(* DestroyNotificationQueue: takes no lock and leaves queue->queued alone *)

DestroyNote ==
    /\ destroy.pc = "notes"
    /\ notification_list # <<>>
    /\ notification_list' = Tail(notification_list)
    /\ UNCHANGED <<irp_list, queued, irpVars, lockVars, thread, hand, destroy, open>>

\* Mutant of DestroyNotesDone: returns before the loop over irp_list.
DestroySkipIrps ==
    /\ destroy.pc = "notes"
    /\ notification_list = <<>>
    /\ destroy' = [destroy EXCEPT !.pc = "idle"]
    /\ UNCHANGED <<listVars, irpVars, lockVars, thread, hand, open>>

DestroyNotesDone ==
    /\ destroy.pc = "notes"
    /\ notification_list = <<>>
    /\ destroy' = [destroy EXCEPT !.pc = "irps"]
    /\ UNCHANGED <<listVars, irpVars, lockVars, thread, hand, open>>

DestroyIrp ==
    /\ destroy.pc = "irps" /\ destroy.irp = None
    /\ irp_list # <<>>
    /\ irp_list' = Tail(irp_list)
    /\ destroy' = [destroy EXCEPT !.irp = Head(irp_list)]
    /\ UNCHANGED <<notification_list, queued, irpVars, lockVars, thread, hand, open>>

DestroyComplete ==
    /\ destroy.irp # None
    /\ status' = [status EXCEPT ![destroy.irp] = "cancelled"]
    /\ destroy' = [destroy EXCEPT !.irp = None]
    /\ UNCHANGED <<listVars, routine, sysbuf, lockVars, thread, hand, open>>

DestroyDone ==
    /\ destroy.pc = "irps" /\ destroy.irp = None
    /\ irp_list = <<>>
    /\ destroy' = [pc |-> "idle", irp |-> None]
    /\ UNCHANGED <<listVars, irpVars, lockVars, thread, hand, open>>

-----------------------------------------------------------------------------
Send(s) == \/ \E n \in Notes : SendBuffer(s, n) \/ SendHand(s, n)
           \/ SendComplete(s)

Recieve(t) == \/ \E i \in Irps : \/ RecieveTooSmall(t, i)
                                 \/ RecieveWait(t, i)
                                 \/ RecieveTake(t, i)
              \/ SetCancelRoutine(t)
              \/ RecieveComplete(t)

Cancel(t) == \/ \E i \in Irps : CancelIrp(t, i)
             \/ OnCancelFind(t)
             \/ OnCancelMiss(t)
             \/ OnCancelReturn(t)

Client == OpenDevice \/ CloseDevice \/ \E i \in Irps : Collect(i)

Destroy == DestroyNote \/ DestroyNotesDone \/ DestroyIrp \/ DestroyComplete \/ DestroyDone

Next == \/ \E s \in Senders : Send(s)
        \/ \E t \in Threads : Recieve(t) \/ Cancel(t)
        \/ Client
        \/ Destroy

\* A processor that runs driver code keeps running it.  Nothing makes a callout fire,
\* a program ask, cancel, open or close.
Fairness ==
    /\ \A s \in Senders : WF_vars(SendComplete(s))
    /\ \A t \in Threads : /\ WF_vars(SetCancelRoutine(t))
                          /\ WF_vars(RecieveComplete(t))
                          /\ WF_vars(OnCancelFind(t) \/ OnCancelMiss(t))
                          /\ WF_vars(OnCancelReturn(t))
    /\ WF_vars(Destroy)

Spec == Init /\ [][Next]_vars /\ Fairness

-----------------------------------------------------------------------------
(* Properties *)

Elems(s) == {s[k] : k \in 1 .. Len(s)}

\* Every variable has its type.  The queue never holds more than 64 notifications:
\* queue->queued stays within Capacity and bounds the list.
TypeOK ==
    /\ irp_list \in Seq(Irps)
    /\ notification_list \in Seq(Notes)
    /\ queued \in Len(notification_list) .. Capacity
    /\ lock \in Threads \cup {None}
    /\ cancelLock \in Threads \cup {None}
    /\ status \in [Irps -> Completed \cup {"none", "pending"}]
    /\ routine \in [Irps -> BOOLEAN]
    /\ sysbuf \in [Irps -> Notes \cup {None}]
    /\ thread \in [Threads -> [pc : ThreadPc, irp : Irps \cup {None}]]
    /\ hand \in [Senders -> Irps \cup {None}]
    /\ destroy \in [pc : {"idle", "notes", "irps"}, irp : Irps \cup {None}]
    /\ open \in BOOLEAN

\* The places a request can be in, each of which will complete it: a node of irp_list,
\* a sender that dequeued it, a thread that received for it or found it in OnCancel,
\* DestroyNotificationQueue.
Completers(i) ==
    {<<"list", k>> : k \in {k \in 1 .. Len(irp_list) : irp_list[k] = i}}
        \cup {<<"sender", s>> : s \in {s \in Senders : hand[s] = i}}
        \cup {<<"thread", t>> : t \in {t \in Threads : /\ thread[t].irp = i
                                                       /\ thread[t].pc \in {"copied", "found"}}}
        \cup (IF destroy.irp = i THEN {<<"destroy", 0>>} ELSE {})

\* A request the driver has not completed has exactly one completer and a completed one
\* has none, whatever sends, cancels and the cleanup race for it: no IRP is completed
\* twice and none is forgotten.  It is what the comment "if it wasn't found, it has
\* already been dequeued and handled" of Notification_OnCancel relies on.
IrpOwnership ==
    \A i \in Irps :
        /\ (status[i] = "pending") <=> (Completers(i) # {})
        /\ \A c, d \in Completers(i) : c = d

\* No lost wakeup: while a request waits in irp_list no notification waits in
\* notification_list, so a reader never sleeps beside data (Send and Recieve each look
\* at the other list under the lock).
NoLostWakeup == irp_list = <<>> \/ notification_list = <<>>

\* queue->queued follows the length of the list: only the list that
\* DestroyNotificationQueue frees makes them differ, and every later step keeps the
\* difference (those slots of the 64 are never usable again).
CounterDrift ==
    [][ destroy.pc # "notes" =>
          queued' - Len(notification_list') = queued - Len(notification_list) ]_vars

\* The queue implements the lossy FIFO channel: a request counts as decided from the
\* moment it is dequeued, before IoCompleteRequest runs.
request ==
    [i \in Irps |->
        CASE status[i] = "none"                        -> "idle"
          [] status[i] = "toosmall"                    -> "refused"
          [] status[i] = "cancelled"                   -> "withdrawn"
          [] status[i] = "success"                     -> "answered"
          [] OTHER -> IF i \in Elems(irp_list) THEN "waiting"
                      ELSE IF \/ destroy.irp = i
                              \/ \E t \in Threads : thread[t] = [pc |-> "found", irp |-> i]
                           THEN "withdrawn"
                           ELSE "answered"]

Channel == INSTANCE NotificationChannel
               WITH buffer <- notification_list, waiting <- irp_list, got <- sysbuf

\* Readers get the notifications in the order they were queued, each at most once, and
\* the longest waiting request is answered first, across sends, cancels and cleanup.
ChannelSpec == Channel!Spec

\* Every call into the driver returns: neither spin lock is held for ever.
CallsReturn == \A t \in Threads : thread[t].pc # "user" ~> thread[t].pc = "user"

\* When the handle is closed every request is completed, so that the close can end.
CleanupAnswers ==
    \A i \in Irps : destroy.pc # "idle" /\ status[i] = "pending" ~> status[i] # "pending"
=============================================================================
