------------------------- MODULE NotifyQueueProofs -------------------------
(***************************************************************************)
(* Proofs about NotifyQueue for any number of processors, reader threads,  *)
(* requests and notifications, and any capacity; at the end, that it       *)
(* implements NotificationChannel.                                         *)
(***************************************************************************)
EXTENDS NotifyQueue, Integers, SequenceTheorems, TLAPS

\* The tail of a non-empty sequence (RemoveHeadList).
LEMMA TailFacts ==
    ASSUME NEW S, NEW s \in Seq(S), s # <<>>
    PROVE  /\ Head(s) \in S
           /\ Head(s) = s[1]
           /\ Tail(s) \in Seq(S)
           /\ Len(s) \in Nat \ {0}
           /\ Len(Tail(s)) = Len(s) - 1
           /\ \A k \in 1 .. Len(s) - 1 : Tail(s)[k] = s[k + 1]
  OBVIOUS

\* Appending one element (InsertTailList).
LEMMA AppendFacts ==
    ASSUME NEW S, NEW s \in Seq(S), NEW x \in S
    PROVE  /\ Append(s, x) \in Seq(S)
           /\ Len(Append(s, x)) = Len(s) + 1
           /\ Len(s) \in Nat
           /\ \A k \in 1 .. Len(s) : Append(s, x)[k] = s[k]
           /\ Append(s, x)[Len(s) + 1] = x
  OBVIOUS

\* Removing the j-th element of a sequence leaves a sequence one shorter, whose elements
\* are those of the original at the other positions, in their order.
LEMMA WithoutFacts ==
    ASSUME NEW S, NEW s \in Seq(S), NEW j \in 1 .. Len(s)
    PROVE  /\ Without(s, j) \in Seq(S)
           /\ Len(Without(s, j)) = Len(s) - 1
           /\ \A k \in 1 .. Len(s) - 1 :
                 Without(s, j)[k] = IF k < j THEN s[k] ELSE s[k + 1]
  <1>1. Len(s) - 1 \in Nat
    OBVIOUS
  <1>2. \A k \in 1 .. Len(s) - 1 : (IF k < j THEN s[k] ELSE s[k + 1]) \in S
    OBVIOUS
  <1>3. Without(s, j) \in [1 .. Len(s) - 1 -> S]
    BY <1>2 DEF Without
  <1>4. Without(s, j) \in Seq(S) /\ Len(Without(s, j)) = Len(s) - 1
    BY <1>1, <1>3
  <1> QED
    BY <1>4 DEF Without

-----------------------------------------------------------------------------
\* Type correctness: in particular the queue holds at most Capacity notifications.
THEOREM TypeCorrect == Spec => []TypeOK
  <1>1. Init => TypeOK
    <2> SUFFICES ASSUME Init PROVE TypeOK
      OBVIOUS
    <2>1. irp_list \in Seq(Irps) /\ notification_list \in Seq(Notes)
      BY DEF Init
    <2>2. queued \in Len(notification_list) .. Capacity
      BY CapacityAssumption DEF Init
    <2>3. thread \in [Threads -> [pc : ThreadPc, irp : Irps \cup {None}]]
      BY DEF Init, ThreadPc
    <2> QED
      BY <2>1, <2>2, <2>3 DEF Init, TypeOK, Completed
  <1>2. TypeOK /\ [Next]_vars => TypeOK'
    <2> SUFFICES ASSUME TypeOK, [Next]_vars PROVE TypeOK'
      OBVIOUS
    <2> USE NoneAssumption, CapacityAssumption DEF TypeOK
    <2>1. ASSUME NEW s \in Senders, Send(s) PROVE TypeOK'
      <3>1. ASSUME NEW n \in Notes, SendBuffer(s, n) PROVE TypeOK'
        <4>1. CASE queued < Capacity
          <5>1. notification_list' = Append(notification_list, n) /\ queued' = queued + 1
            BY <3>1, <4>1 DEF SendBuffer
          <5>2. /\ notification_list' \in Seq(Notes)
                /\ queued' \in Len(notification_list') .. Capacity
            BY <4>1, <5>1, AppendFacts
          <5> QED
            BY <3>1, <5>2 DEF SendBuffer, irpVars, lockVars
        <4>2. CASE ~(queued < Capacity)
          BY <3>1, <4>2 DEF SendBuffer, irpVars, lockVars
        <4> QED
          BY <4>1, <4>2
      <3>2. ASSUME NEW n \in Notes, SendHand(s, n) PROVE TypeOK'
        BY <3>2, TailFacts DEF SendHand, lockVars
      <3>3. CASE SendComplete(s)
        BY <3>3 DEF SendComplete, listVars, lockVars, Completed
      <3> QED
        BY <2>1, <3>1, <3>2, <3>3 DEF Send
    <2>2. ASSUME NEW t \in Threads, Recieve(t) PROVE TypeOK'
      <3> USE DEF ThreadPc, Goto
      <3>1. ASSUME NEW i \in Irps, RecieveTooSmall(t, i) PROVE TypeOK'
        BY <3>1 DEF RecieveTooSmall, listVars, lockVars, Completed
      <3>2. ASSUME NEW i \in Irps, RecieveWait(t, i) PROVE TypeOK'
        BY <3>2, AppendFacts DEF RecieveWait
      <3>3. ASSUME NEW i \in Irps, RecieveTake(t, i) PROVE TypeOK'
        BY <3>3, TailFacts DEF RecieveTake, lockVars
      <3>4. CASE SetCancelRoutine(t)
        BY <3>4 DEF SetCancelRoutine, listVars
      <3>5. CASE RecieveComplete(t)
        BY <3>5 DEF RecieveComplete, listVars, lockVars, Completed
      <3> QED
        BY <2>2, <3>1, <3>2, <3>3, <3>4, <3>5 DEF Recieve
    <2>3. ASSUME NEW t \in Threads, Cancel(t) PROVE TypeOK'
      <3> USE DEF ThreadPc, Goto
      <3>1. ASSUME NEW i \in Irps, CancelIrp(t, i) PROVE TypeOK'
        BY <3>1 DEF CancelIrp, listVars
      <3>2. CASE OnCancelFind(t)
        BY <3>2, WithoutFacts DEF OnCancelFind, irpVars, lockVars
      <3>3. CASE OnCancelMiss(t)
        BY <3>3 DEF OnCancelMiss, listVars, irpVars, lockVars
      <3>4. CASE OnCancelReturn(t)
        BY <3>4 DEF OnCancelReturn, listVars, Completed
      <3> QED
        BY <2>3, <3>1, <3>2, <3>3, <3>4 DEF Cancel
    <2>4. CASE Client
      <3> USE <2>4 DEF Client, listVars, irpVars, lockVars
      <3>1. CASE OpenDevice
        BY <3>1 DEF OpenDevice
      <3>2. CASE CloseDevice
        BY <3>2 DEF CloseDevice
      <3>3. ASSUME NEW i \in Irps, Collect(i) PROVE TypeOK'
        BY <3>3 DEF Collect
      <3> QED
        BY <3>1, <3>2, <3>3
    <2>5. CASE Destroy
      <3> USE DEF listVars, irpVars, lockVars
      <3>1. CASE DestroyNote
        BY <3>1, TailFacts DEF DestroyNote
      <3>2. CASE DestroyNotesDone
        BY <3>2 DEF DestroyNotesDone
      <3>3. CASE DestroyIrp
        BY <3>3, TailFacts DEF DestroyIrp
      <3>4. CASE DestroyComplete
        BY <3>4 DEF DestroyComplete, Completed
      <3>5. CASE DestroyDone
        BY <3>5 DEF DestroyDone
      <3> QED
        BY <2>5, <3>1, <3>2, <3>3, <3>4, <3>5 DEF Destroy
    <2>6. CASE UNCHANGED vars
      BY <2>6 DEF vars
    <2> QED
      BY <2>1, <2>2, <2>3, <2>4, <2>5, <2>6 DEF Next
  <1> QED
    BY <1>1, <1>2, PTL DEF Spec

\* At any time one of the two lists is empty: a waiting reader never sleeps beside a
\* queued notification.
THEOREM NoLostWakeupInvariant == Spec => []NoLostWakeup
  <1>1. Init => NoLostWakeup
    BY DEF Init, NoLostWakeup
  <1>2. TypeOK /\ NoLostWakeup /\ [Next]_vars => NoLostWakeup'
    <2> SUFFICES ASSUME TypeOK, NoLostWakeup, [Next]_vars PROVE NoLostWakeup'
      OBVIOUS
    <2> USE DEF NoLostWakeup, listVars, irpVars, lockVars
    <2>1. ASSUME NEW s \in Senders, Send(s) PROVE NoLostWakeup'
      BY <2>1 DEF TypeOK, Send, SendBuffer, SendHand, SendComplete
    <2>2. ASSUME NEW t \in Threads, Recieve(t) PROVE NoLostWakeup'
      BY <2>2 DEF TypeOK, Recieve, RecieveTooSmall, RecieveWait, RecieveTake,
                  SetCancelRoutine, RecieveComplete
    <2>3. ASSUME NEW t \in Threads, Cancel(t) PROVE NoLostWakeup'
      <3>1. CASE OnCancelFind(t)
        <4>1. irp_list # <<>>
          BY <3>1 DEF OnCancelFind
        <4> QED
          BY <3>1, <4>1 DEF OnCancelFind
      <3> QED
        BY <2>3, <3>1 DEF Cancel, CancelIrp, OnCancelMiss, OnCancelReturn
    <2>4. CASE Client
      BY <2>4 DEF Client, OpenDevice, CloseDevice, Collect
    <2>5. CASE Destroy
      BY <2>5 DEF TypeOK, Destroy, DestroyNote, DestroyNotesDone, DestroyIrp,
                  DestroyComplete, DestroyDone
    <2>6. CASE UNCHANGED vars
      BY <2>6 DEF vars
    <2> QED
      BY <2>1, <2>2, <2>3, <2>4, <2>5, <2>6 DEF Next
  <1> QED
    BY <1>1, <1>2, TypeCorrect, PTL DEF Spec

\* Only DestroyNotificationQueue lets queue->queued and the list drift apart.
THEOREM CounterDriftProperty == Spec => CounterDrift
  <1>1. TypeOK /\ [Next]_vars =>
          [ destroy.pc # "notes" =>
              queued' - Len(notification_list') = queued - Len(notification_list) ]_vars
    <2> SUFFICES ASSUME TypeOK, Next, destroy.pc # "notes"
                 PROVE queued' - Len(notification_list') = queued - Len(notification_list)
      OBVIOUS
    <2> USE DEF TypeOK, listVars, irpVars, lockVars
    <2>0. queued \in Int /\ Len(notification_list) \in Nat
      BY CapacityAssumption
    <2>1. ASSUME NEW s \in Senders, Send(s)
          PROVE  queued' - Len(notification_list') = queued - Len(notification_list)
      BY <2>0, <2>1, AppendFacts DEF Send, SendBuffer, SendHand, SendComplete
    <2>2. ASSUME NEW t \in Threads, Recieve(t)
          PROVE  queued' - Len(notification_list') = queued - Len(notification_list)
      <3>1. ASSUME NEW i \in Irps, RecieveTake(t, i)
            PROVE  queued' - Len(notification_list') = queued - Len(notification_list)
        <4>1. Len(notification_list') = Len(notification_list) - 1
          BY <3>1, TailFacts DEF RecieveTake
        <4> QED
          BY <2>0, <3>1, <4>1 DEF RecieveTake
      <3> QED
        BY <2>2, <3>1 DEF Recieve, RecieveTooSmall, RecieveWait, SetCancelRoutine,
                          RecieveComplete
    <2>3. ASSUME NEW t \in Threads, Cancel(t)
          PROVE  queued' - Len(notification_list') = queued - Len(notification_list)
      BY <2>3 DEF Cancel, CancelIrp, OnCancelFind, OnCancelMiss, OnCancelReturn
    <2>4. CASE Client
      BY <2>4 DEF Client, OpenDevice, CloseDevice, Collect
    <2>5. CASE Destroy
      BY <2>5 DEF Destroy, DestroyNote, DestroyNotesDone, DestroyIrp, DestroyComplete,
                  DestroyDone
    <2> QED
      BY <2>1, <2>2, <2>3, <2>4, <2>5 DEF Next
  <1> QED
    BY <1>1, TypeCorrect, PTL DEF Spec, CounterDrift

-----------------------------------------------------------------------------
(* Request ownership.  IrpOwnership speaks of the set of completers; the inductive     *)
(* invariant says the same of each kind of completer: the request it holds is pending, *)
(* no two completers hold one request, every pending request is held.                  *)

Working(t) == thread[t].pc \in {"copied", "found"}

HeldArePending ==
    /\ \A k \in 1 .. Len(irp_list) : status[irp_list[k]] = "pending"
    /\ \A s \in Senders : hand[s] # None => status[hand[s]] = "pending"
    /\ \A t \in Threads : Working(t) => /\ thread[t].irp \in Irps
                                      /\ status[thread[t].irp] = "pending"
    /\ destroy.irp # None => status[destroy.irp] = "pending"

HeldOnce ==
    /\ \A k, l \in 1 .. Len(irp_list) : irp_list[k] = irp_list[l] => k = l
    /\ \A r, s \in Senders : hand[s] # None /\ hand[r] = hand[s] => r = s
    /\ \A t, u \in Threads :
          Working(t) /\ Working(u) /\ thread[t].irp = thread[u].irp => t = u
    /\ \A k \in 1 .. Len(irp_list) :
          /\ \A s \in Senders : hand[s] # irp_list[k]
          /\ \A t \in Threads : Working(t) => thread[t].irp # irp_list[k]
          /\ destroy.irp # irp_list[k]
    /\ \A s \in Senders, t \in Threads : Working(t) => thread[t].irp # hand[s]
    /\ destroy.irp # None =>
          /\ \A s \in Senders : hand[s] # destroy.irp
          /\ \A t \in Threads : Working(t) => thread[t].irp # destroy.irp

PendingAreHeld ==
    \A i \in Irps : status[i] = "pending" =>
        \/ \E k \in 1 .. Len(irp_list) : irp_list[k] = i
        \/ \E s \in Senders : hand[s] = i
        \/ \E t \in Threads : Working(t) /\ thread[t].irp = i
        \/ destroy.irp = i

Ownership == HeldArePending /\ HeldOnce /\ PendingAreHeld

\* The types these facts rest on.
OwnTypes ==
    /\ irp_list \in Seq(Irps)
    /\ status \in [Irps -> Completed \cup {"none", "pending"}]
    /\ thread \in [Threads -> [pc : ThreadPc, irp : Irps \cup {None}]]
    /\ hand \in [Senders -> Irps \cup {None}]
    /\ destroy \in [pc : {"idle", "notes", "irps"}, irp : Irps \cup {None}]

\* The invariant implies the property, completer by completer.
LEMMA OwnershipSuffices == TypeOK /\ Ownership => IrpOwnership
  <1> SUFFICES ASSUME TypeOK, Ownership, NEW i \in Irps
               PROVE  /\ (status[i] = "pending") <=> (Completers(i) # {})
                      /\ \A c, d \in Completers(i) : c = d
    BY DEF IrpOwnership
  <1> USE NoneAssumption DEF TypeOK
  <1>1. ASSUME status[i] = "pending" PROVE Completers(i) # {}
    <2>1. CASE \E k \in 1 .. Len(irp_list) : irp_list[k] = i
      <3>1. PICK k \in 1 .. Len(irp_list) : irp_list[k] = i
        BY <2>1
      <3>2. <<"list", k>> \in Completers(i)
        BY <3>1 DEF Completers
      <3> QED
        BY <3>2
    <2>2. CASE \E s \in Senders : hand[s] = i
      <3>1. PICK s \in Senders : hand[s] = i
        BY <2>2
      <3>2. <<"sender", s>> \in Completers(i)
        BY <3>1 DEF Completers
      <3> QED
        BY <3>2
    <2>3. CASE \E t \in Threads : Working(t) /\ thread[t].irp = i
      <3>1. PICK t \in Threads : Working(t) /\ thread[t].irp = i
        BY <2>3
      <3>2. <<"thread", t>> \in Completers(i)
        BY <3>1 DEF Completers, Working
      <3> QED
        BY <3>2
    <2>4. CASE destroy.irp = i
      BY <2>4 DEF Completers
    <2> QED
      BY <1>1, <2>1, <2>2, <2>3, <2>4 DEF Ownership, PendingAreHeld
  <1>2. ASSUME NEW c \in Completers(i) PROVE status[i] = "pending"
    BY <1>2 DEF Ownership, HeldArePending, Completers, Working
  <1>3. ASSUME NEW c \in Completers(i), NEW d \in Completers(i) PROVE c = d
    BY <1>3 DEF Ownership, HeldOnce, Completers, Working
  <1> QED
    BY <1>1, <1>2, <1>3

\* A step that moves no request to another holder and completes none.
KeepsHolders ==
    /\ irp_list' = irp_list
    /\ hand' = hand
    /\ destroy'.irp = destroy.irp
    /\ \A r \in Irps : status'[r] = "pending" <=> status[r] = "pending"
    /\ \A t \in Threads :
          /\ thread'[t].pc \in {"copied", "found"} <=> thread[t].pc \in {"copied", "found"}
          /\ thread[t].pc \in {"copied", "found"} => thread'[t].irp = thread[t].irp

\* A step that leaves every holder of a request in place keeps Ownership.
LEMMA SameHolders == OwnTypes /\ Ownership /\ KeepsHolders => Ownership'
  <1> SUFFICES ASSUME OwnTypes, Ownership, KeepsHolders PROVE Ownership'
    OBVIOUS
  <1> USE NoneAssumption DEF OwnTypes, Ownership, KeepsHolders, Working
  <1>1. HeldArePending'
    BY DEF HeldArePending
  <1>2. HeldOnce'
    BY DEF HeldOnce
  <1>3. PendingAreHeld'
    BY DEF PendingAreHeld
  <1> QED
    BY <1>1, <1>2, <1>3

\* The cleanup runs with the device closed, and holds a request only in its second loop.
CleanupShape == /\ open => destroy.pc = "idle"
                /\ destroy.pc # "irps" => destroy.irp = None

\* The device is closed while DestroyNotificationQueue runs, which holds a request only in
\* its second loop.
LEMMA CleanupShapeInvariant == Spec => []CleanupShape
  <1>1. Init => CleanupShape
    BY DEF Init, CleanupShape
  <1>2. TypeOK /\ CleanupShape /\ [Next]_vars => CleanupShape'
    <2> SUFFICES ASSUME TypeOK, CleanupShape, [Next]_vars PROVE CleanupShape'
      OBVIOUS
    <2> USE DEF CleanupShape
    <2>1. CASE UNCHANGED <<destroy, open>>
      BY <2>1
    <2>2. CASE Client
      BY <2>2 DEF Client, OpenDevice, CloseDevice, Collect
    <2>3. CASE Destroy
      BY <2>3 DEF TypeOK, Destroy, DestroyNote, DestroyNotesDone, DestroyIrp,
                  DestroyComplete, DestroyDone
    <2>4. CASE (\E s \in Senders : Send(s)) \/ (\E t \in Threads : Recieve(t) \/ Cancel(t))
      BY <2>1, <2>4 DEF Send, SendBuffer, SendHand, SendComplete, Recieve, RecieveTooSmall,
             RecieveWait, RecieveTake, SetCancelRoutine, RecieveComplete, Cancel, CancelIrp,
             OnCancelFind, OnCancelMiss, OnCancelReturn
    <2> QED
      BY <2>1, <2>2, <2>3, <2>4 DEF Next, vars
  <1> QED
    BY <1>1, <1>2, TypeCorrect, PTL DEF Spec

\* Ownership is inductive: every action hands a request from one holder to the next.
LEMMA OwnershipInvariant == Spec => []Ownership
  <1>1. Init => Ownership
    BY DEF Init, Ownership, HeldArePending, HeldOnce, PendingAreHeld, Working
  <1>2. TypeOK /\ CleanupShape /\ Ownership /\ [Next]_vars => Ownership'
    <2> SUFFICES ASSUME TypeOK, CleanupShape, Ownership, [Next]_vars PROVE Ownership'
      OBVIOUS
    <2>0. OwnTypes
      BY DEF TypeOK, OwnTypes
    <2> USE <2>0
    <2>1. ASSUME NEW s \in Senders, NEW n \in Notes, SendBuffer(s, n) PROVE Ownership'
      <3>1. irp_list' = irp_list /\ hand' = hand /\ destroy'.irp = destroy.irp
        BY <2>1 DEF SendBuffer, OwnTypes, listVars
      <3>2. \A r \in Irps : status'[r] = "pending" <=> status[r] = "pending"
        BY <2>1 DEF SendBuffer, OwnTypes, irpVars, Completed
      <3>3. \A u \in Threads :
              /\ thread'[u].pc \in {"copied", "found"} <=> thread[u].pc \in {"copied", "found"}
              /\ thread[u].pc \in {"copied", "found"} => thread'[u].irp = thread[u].irp
        BY <2>1 DEF SendBuffer, OwnTypes, Working, At, Goto
      <3> QED
        BY <3>1, <3>2, <3>3, SameHolders DEF KeepsHolders
    <2>2. ASSUME NEW s \in Senders, NEW n \in Notes, SendHand(s, n) PROVE Ownership'
      <3>1. /\ irp_list # <<>> /\ hand[s] = None
            /\ irp_list' = Tail(irp_list)
            /\ hand' = [hand EXCEPT ![s] = Head(irp_list)]
            /\ UNCHANGED <<status, thread, destroy>>
        BY <2>2 DEF SendHand
      <3>2. /\ Head(irp_list) = irp_list[1] /\ irp_list[1] \in Irps
            /\ Len(irp_list) \in Nat \ {0} /\ Len(irp_list') = Len(irp_list) - 1
            /\ \A k \in 1 .. Len(irp_list) - 1 : irp_list'[k] = irp_list[k + 1]
        BY <3>1, TailFacts DEF OwnTypes
      <3> HIDE <2>2
      <3> USE <3>1, <3>2, NoneAssumption DEF OwnTypes, Ownership, Working
      <3>3. HeldArePending'
        BY DEF HeldArePending
      <3>4. HeldOnce'
        BY DEF HeldOnce
      <3>5. PendingAreHeld'
        <4> SUFFICES ASSUME NEW i \in Irps, status[i] = "pending"
                     PROVE  \/ \E k \in 1 .. Len(irp_list') : irp_list'[k] = i
                            \/ \E r \in Senders : hand'[r] = i
                            \/ \E t \in Threads : Working(t) /\ thread[t].irp = i
                            \/ destroy.irp = i
          BY DEF PendingAreHeld
        <4>1. CASE \E k \in 1 .. Len(irp_list) : irp_list[k] = i
          <5>1. PICK k \in 1 .. Len(irp_list) : irp_list[k] = i
            BY <4>1
          <5>2. CASE k = 1
            BY <5>1, <5>2
          <5>3. CASE k # 1
            <6>1. k - 1 \in 1 .. Len(irp_list') /\ irp_list'[k - 1] = i
              BY <5>1, <5>3
            <6> QED
              BY <6>1
          <5> QED
            BY <5>2, <5>3
        <4>2. CASE \E r \in Senders : hand[r] = i
          BY <4>2
        <4> QED
          BY <4>1, <4>2 DEF PendingAreHeld
      <3> QED
        BY <3>3, <3>4, <3>5
    <2>3. ASSUME NEW s \in Senders, SendComplete(s) PROVE Ownership'
      <3> USE <2>3, NoneAssumption
          DEF SendComplete, OwnTypes, Ownership, HeldArePending, HeldOnce, PendingAreHeld, Working,
              Completed, ThreadPc, listVars, irpVars, At, Goto
      <3>1. HeldArePending'
        OBVIOUS
      <3>2. HeldOnce'
        OBVIOUS
      <3>3. PendingAreHeld'
        OBVIOUS
      <3> QED
        BY <3>1, <3>2, <3>3
    <2>4. ASSUME NEW t \in Threads, NEW i \in Irps, RecieveTooSmall(t, i) PROVE Ownership'
      <3>1. irp_list' = irp_list /\ hand' = hand /\ destroy'.irp = destroy.irp
        BY <2>4 DEF RecieveTooSmall, CanIssue, OwnTypes, listVars
      <3>2. \A r \in Irps : status'[r] = "pending" <=> status[r] = "pending"
        BY <2>4 DEF RecieveTooSmall, CanIssue, OwnTypes, irpVars, Completed
      <3>3. \A u \in Threads :
              /\ thread'[u].pc \in {"copied", "found"} <=> thread[u].pc \in {"copied", "found"}
              /\ thread[u].pc \in {"copied", "found"} => thread'[u].irp = thread[u].irp
        BY <2>4 DEF RecieveTooSmall, CanIssue, OwnTypes, Working, At, Goto
      <3> QED
        BY <3>1, <3>2, <3>3, SameHolders DEF KeepsHolders
    <2>5. ASSUME NEW t \in Threads, NEW i \in Irps, RecieveWait(t, i) PROVE Ownership'
      <3> USE <2>5, AppendFacts, NoneAssumption
          DEF RecieveWait, CanIssue, OwnTypes, Ownership, HeldArePending, HeldOnce, PendingAreHeld, Working,
              Completed, ThreadPc, listVars, irpVars, At, Goto
      <3>1. HeldArePending'
        OBVIOUS
      <3>2. HeldOnce'
        OBVIOUS
      <3>3. PendingAreHeld'
        OBVIOUS
      <3> QED
        BY <3>1, <3>2, <3>3
    <2>6. ASSUME NEW t \in Threads, NEW i \in Irps, RecieveTake(t, i) PROVE Ownership'
      <3> USE <2>6, NoneAssumption
          DEF RecieveTake, CanIssue, OwnTypes, Ownership, HeldArePending, HeldOnce, PendingAreHeld, Working,
              Completed, ThreadPc, listVars, irpVars, At, Goto
      <3>1. HeldArePending'
        OBVIOUS
      <3>2. HeldOnce'
        OBVIOUS
      <3>3. PendingAreHeld'
        OBVIOUS
      <3> QED
        BY <3>1, <3>2, <3>3
    <2>7. ASSUME NEW t \in Threads, SetCancelRoutine(t) PROVE Ownership'
      <3>1. irp_list' = irp_list /\ hand' = hand /\ destroy'.irp = destroy.irp
        BY <2>7 DEF SetCancelRoutine, OwnTypes, listVars
      <3>2. \A r \in Irps : status'[r] = "pending" <=> status[r] = "pending"
        BY <2>7 DEF SetCancelRoutine, OwnTypes, irpVars, Completed
      <3>3. \A u \in Threads :
              /\ thread'[u].pc \in {"copied", "found"} <=> thread[u].pc \in {"copied", "found"}
              /\ thread[u].pc \in {"copied", "found"} => thread'[u].irp = thread[u].irp
        BY <2>7 DEF SetCancelRoutine, OwnTypes, Working, At, Goto
      <3> QED
        BY <3>1, <3>2, <3>3, SameHolders DEF KeepsHolders
    <2>8. ASSUME NEW t \in Threads, RecieveComplete(t) PROVE Ownership'
      <3> USE <2>8, NoneAssumption
          DEF RecieveComplete, OwnTypes, Ownership, HeldArePending, HeldOnce, PendingAreHeld, Working,
              Completed, ThreadPc, listVars, irpVars, At, Goto
      <3>1. HeldArePending'
        OBVIOUS
      <3>2. HeldOnce'
        OBVIOUS
      <3>3. PendingAreHeld'
        OBVIOUS
      <3> QED
        BY <3>1, <3>2, <3>3
    <2>9. ASSUME NEW t \in Threads, NEW i \in Irps, CancelIrp(t, i) PROVE Ownership'
      <3>1. irp_list' = irp_list /\ hand' = hand /\ destroy'.irp = destroy.irp
        BY <2>9 DEF CancelIrp, OwnTypes, listVars
      <3>2. \A r \in Irps : status'[r] = "pending" <=> status[r] = "pending"
        BY <2>9 DEF CancelIrp, OwnTypes, irpVars, Completed
      <3>3. \A u \in Threads :
              /\ thread'[u].pc \in {"copied", "found"} <=> thread[u].pc \in {"copied", "found"}
              /\ thread[u].pc \in {"copied", "found"} => thread'[u].irp = thread[u].irp
        BY <2>9 DEF CancelIrp, OwnTypes, Working, At, Goto
      <3> QED
        BY <3>1, <3>2, <3>3, SameHolders DEF KeepsHolders
    <2>10. ASSUME NEW t \in Threads, OnCancelFind(t) PROVE Ownership'
      <3>1. PICK j \in 1 .. Len(irp_list) : /\ irp_list[j] = thread[t].irp
                                           /\ irp_list' = Without(irp_list, j)
        BY <2>10 DEF OnCancelFind
      <3>2. /\ thread[t].pc = "oncancel"
            /\ thread' = [thread EXCEPT ![t] = [pc |-> "found", irp |-> thread[t].irp]]
            /\ UNCHANGED <<status, hand, destroy>>
        BY <2>10 DEF OnCancelFind, At, Goto, irpVars
      <3>3. /\ irp_list[j] \in Irps
            /\ Len(irp_list) \in Nat /\ Len(irp_list') = Len(irp_list) - 1
            /\ \A k \in 1 .. Len(irp_list) - 1 :
                  irp_list'[k] = IF k < j THEN irp_list[k] ELSE irp_list[k + 1]
        BY <3>1, WithoutFacts DEF OwnTypes
      <3> USE <3>1, <3>2, <3>3, NoneAssumption DEF OwnTypes, Ownership, Working
      <3>4. \A k \in 1 .. Len(irp_list') :
               \E l \in 1 .. Len(irp_list) : l # j /\ irp_list'[k] = irp_list[l]
        OBVIOUS
      <3>5. HeldArePending'
        <4>1. \A k \in 1 .. Len(irp_list') : status[irp_list'[k]] = "pending"
          BY <3>4 DEF HeldArePending
        <4>2. \A u \in Threads :
                 thread'[u].pc \in {"copied", "found"} =>
                    /\ thread'[u].irp \in Irps
                    /\ status[thread'[u].irp] = "pending"
          BY DEF HeldArePending
        <4> HIDE <3>1, <3>3
        <4> QED
          BY <4>1, <4>2 DEF HeldArePending
      <3>6. HeldOnce'
        <4>1. ASSUME NEW k \in 1 .. Len(irp_list'), NEW l \in 1 .. Len(irp_list'),
                     irp_list'[k] = irp_list'[l]
              PROVE  k = l
          <5> DEFINE old(m) == IF m < j THEN m ELSE m + 1
          <5>1. /\ old(k) \in 1 .. Len(irp_list) /\ irp_list'[k] = irp_list[old(k)]
                /\ old(l) \in 1 .. Len(irp_list) /\ irp_list'[l] = irp_list[old(l)]
            OBVIOUS
          <5>2. old(k) = old(l)
            <6> HIDE <3>1, <3>2, <3>3 DEF old
            <6>1. irp_list[old(k)] = irp_list[old(l)]
              BY <4>1, <5>1
            <6> QED
              BY <5>1, <6>1 DEF HeldOnce
          <5> QED
            BY <5>2
        <4>2. \A k \in 1 .. Len(irp_list') : irp_list'[k] # thread[t].irp
          <5>1. \A l \in 1 .. Len(irp_list) : l # j => irp_list[l] # irp_list[j]
            BY DEF HeldOnce
          <5> HIDE <3>2, <3>3 DEF OwnTypes, Ownership, Working
          <5> QED
            BY <3>4, <5>1
        <4>3. \A k \in 1 .. Len(irp_list') :
                 /\ \A s \in Senders : hand'[s] # irp_list'[k]
                 /\ \A u \in Threads :
                      thread'[u].pc \in {"copied", "found"} => thread'[u].irp # irp_list'[k]
                 /\ destroy'.irp # irp_list'[k]
          BY <3>4, <4>2 DEF HeldOnce
        <4>4. \A u \in Threads :
                 thread'[u].pc \in {"copied", "found"} =>
                    \/ u = t /\ thread'[u].irp = irp_list[j]
                    \/ u # t /\ thread'[u] = thread[u] /\ Working(u)
          OBVIOUS
        <4>5. /\ \A s \in Senders : hand'[s] # irp_list[j]
              /\ \A u \in Threads : Working(u) => thread[u].irp # irp_list[j]
              /\ destroy'.irp # irp_list[j]
          BY DEF HeldOnce
        <4> HIDE <3>1, <3>3
        <4> QED
          BY <4>1, <4>3, <4>4, <4>5 DEF HeldOnce
      <3>7. PendingAreHeld'
        <4> SUFFICES ASSUME NEW i \in Irps, status[i] = "pending"
                     PROVE  \/ \E k \in 1 .. Len(irp_list') : irp_list'[k] = i
                            \/ \E s \in Senders : hand[s] = i
                            \/ \E u \in Threads : /\ thread'[u].pc \in {"copied", "found"}
                                                  /\ thread'[u].irp = i
                            \/ destroy.irp = i
          BY DEF PendingAreHeld
        <4>1. CASE \E k \in 1 .. Len(irp_list) : irp_list[k] = i
          <5>1. PICK k \in 1 .. Len(irp_list) : irp_list[k] = i
            BY <4>1
          <5>2. CASE k = j
            BY <5>1, <5>2
          <5>3. CASE k < j
            <6>1. k \in 1 .. Len(irp_list') /\ irp_list'[k] = i
              BY <5>1, <5>3
            <6> QED
              BY <6>1
          <5>4. CASE k > j
            <6>1. k - 1 \in 1 .. Len(irp_list') /\ irp_list'[k - 1] = i
              BY <5>1, <5>4
            <6> QED
              BY <6>1
          <5> QED
            BY <5>2, <5>3, <5>4
        <4>2. CASE \E u \in Threads : Working(u) /\ thread[u].irp = i
          BY <4>2
        <4> QED
          BY <4>1, <4>2 DEF PendingAreHeld
      <3> QED
        BY <3>5, <3>6, <3>7
    <2>11. ASSUME NEW t \in Threads, OnCancelMiss(t) PROVE Ownership'
      <3>1. irp_list' = irp_list /\ hand' = hand /\ destroy'.irp = destroy.irp
        BY <2>11 DEF OnCancelMiss, OwnTypes, listVars
      <3>2. \A r \in Irps : status'[r] = "pending" <=> status[r] = "pending"
        BY <2>11 DEF OnCancelMiss, OwnTypes, irpVars, Completed
      <3>3. \A u \in Threads :
              /\ thread'[u].pc \in {"copied", "found"} <=> thread[u].pc \in {"copied", "found"}
              /\ thread[u].pc \in {"copied", "found"} => thread'[u].irp = thread[u].irp
        BY <2>11 DEF OnCancelMiss, OwnTypes, Working, At, Goto
      <3> QED
        BY <3>1, <3>2, <3>3, SameHolders DEF KeepsHolders
    <2>12. ASSUME NEW t \in Threads, OnCancelReturn(t) PROVE Ownership'
      <3> USE <2>12, NoneAssumption
          DEF OnCancelReturn, OwnTypes, Ownership, HeldArePending, HeldOnce, PendingAreHeld, Working,
              Completed, ThreadPc, listVars, irpVars, At, Goto
      <3>1. HeldArePending'
        OBVIOUS
      <3>2. HeldOnce'
        OBVIOUS
      <3>3. PendingAreHeld'
        OBVIOUS
      <3> QED
        BY <3>1, <3>2, <3>3
    <2>13. ASSUME NEW i \in Irps, Collect(i) PROVE Ownership'
      <3>1. irp_list' = irp_list /\ hand' = hand /\ destroy'.irp = destroy.irp
        BY <2>13 DEF Collect, OwnTypes, listVars
      <3>2. \A r \in Irps : status'[r] = "pending" <=> status[r] = "pending"
        BY <2>13 DEF Collect, OwnTypes, irpVars, Completed
      <3>3. \A u \in Threads :
              /\ thread'[u].pc \in {"copied", "found"} <=> thread[u].pc \in {"copied", "found"}
              /\ thread[u].pc \in {"copied", "found"} => thread'[u].irp = thread[u].irp
        BY <2>13 DEF Collect, OwnTypes, Working, At, Goto
      <3> QED
        BY <3>1, <3>2, <3>3, SameHolders DEF KeepsHolders
    <2>14. CASE OpenDevice \/ CloseDevice
      <3>1. irp_list' = irp_list /\ hand' = hand /\ destroy'.irp = destroy.irp
        BY <2>14 DEF OpenDevice, CloseDevice, OwnTypes, CleanupShape, listVars
      <3>2. \A r \in Irps : status'[r] = "pending" <=> status[r] = "pending"
        BY <2>14 DEF OpenDevice, CloseDevice, OwnTypes, irpVars, Completed
      <3>3. \A u \in Threads :
              /\ thread'[u].pc \in {"copied", "found"} <=> thread[u].pc \in {"copied", "found"}
              /\ thread[u].pc \in {"copied", "found"} => thread'[u].irp = thread[u].irp
        BY <2>14 DEF OpenDevice, CloseDevice, OwnTypes, Working, At, Goto
      <3> QED
        BY <3>1, <3>2, <3>3, SameHolders DEF KeepsHolders
    <2>15. CASE DestroyIrp
      <3>1. /\ irp_list # <<>> /\ destroy.irp = None
            /\ irp_list' = Tail(irp_list)
            /\ destroy' = [destroy EXCEPT !.irp = Head(irp_list)]
            /\ UNCHANGED <<status, thread, hand>>
        BY <2>15 DEF DestroyIrp, irpVars
      <3>2. /\ Head(irp_list) = irp_list[1] /\ irp_list[1] \in Irps
            /\ Len(irp_list) \in Nat \ {0} /\ Len(irp_list') = Len(irp_list) - 1
            /\ \A k \in 1 .. Len(irp_list) - 1 : irp_list'[k] = irp_list[k + 1]
        BY <3>1, TailFacts DEF OwnTypes
      <3> HIDE <2>15
      <3> USE <3>1, <3>2, NoneAssumption DEF OwnTypes, Ownership, Working
      <3>3. HeldArePending'
        BY DEF HeldArePending
      <3>4. HeldOnce'
        <4>1. \A k, l \in 1 .. Len(irp_list') : irp_list'[k] = irp_list'[l] => k = l
          BY DEF HeldOnce
        <4>2. \A k \in 1 .. Len(irp_list') :
                 /\ \A s \in Senders : hand[s] # irp_list'[k]
                 /\ \A t \in Threads : Working(t) => thread[t].irp # irp_list'[k]
                 /\ destroy'.irp # irp_list'[k]
          BY DEF HeldOnce
        <4>3. /\ \A s \in Senders : hand[s] # destroy'.irp
              /\ \A t \in Threads : Working(t) => thread[t].irp # destroy'.irp
          BY DEF HeldOnce
        <4> QED
          BY <4>1, <4>2, <4>3 DEF HeldOnce
      <3>5. PendingAreHeld'
        <4> SUFFICES ASSUME NEW i \in Irps, status[i] = "pending"
                     PROVE  \/ \E k \in 1 .. Len(irp_list') : irp_list'[k] = i
                            \/ \E r \in Senders : hand[r] = i
                            \/ \E t \in Threads : Working(t) /\ thread[t].irp = i
                            \/ destroy'.irp = i
          BY DEF PendingAreHeld
        <4>1. CASE \E k \in 1 .. Len(irp_list) : irp_list[k] = i
          <5>1. PICK k \in 1 .. Len(irp_list) : irp_list[k] = i
            BY <4>1
          <5>2. CASE k = 1
            BY <5>1, <5>2
          <5>3. CASE k # 1
            <6>1. k - 1 \in 1 .. Len(irp_list') /\ irp_list'[k - 1] = i
              BY <5>1, <5>3
            <6> QED
              BY <6>1
          <5> QED
            BY <5>2, <5>3
        <4> QED
          BY <4>1 DEF PendingAreHeld
      <3> QED
        BY <3>3, <3>4, <3>5
    <2>16. CASE DestroyComplete
      <3> USE <2>16, NoneAssumption
          DEF DestroyComplete, OwnTypes, Ownership, HeldArePending, HeldOnce, PendingAreHeld, Working,
              Completed, ThreadPc, listVars, irpVars, At, Goto
      <3>1. HeldArePending'
        OBVIOUS
      <3>2. HeldOnce'
        OBVIOUS
      <3>3. PendingAreHeld'
        OBVIOUS
      <3> QED
        BY <3>1, <3>2, <3>3
    <2>17. CASE DestroyNote \/ DestroyNotesDone \/ DestroyDone
      <3>1. irp_list' = irp_list /\ hand' = hand /\ destroy'.irp = destroy.irp
        BY <2>17 DEF DestroyNote, DestroyNotesDone, DestroyDone, OwnTypes, listVars
      <3>2. \A r \in Irps : status'[r] = "pending" <=> status[r] = "pending"
        BY <2>17 DEF DestroyNote, DestroyNotesDone, DestroyDone, OwnTypes, irpVars, Completed
      <3>3. \A u \in Threads :
              /\ thread'[u].pc \in {"copied", "found"} <=> thread[u].pc \in {"copied", "found"}
              /\ thread[u].pc \in {"copied", "found"} => thread'[u].irp = thread[u].irp
        BY <2>17 DEF DestroyNote, DestroyNotesDone, DestroyDone, OwnTypes, Working, At, Goto
      <3> QED
        BY <3>1, <3>2, <3>3, SameHolders DEF KeepsHolders
    <2>18. CASE UNCHANGED vars
      <3>1. irp_list' = irp_list /\ hand' = hand /\ destroy'.irp = destroy.irp
        BY <2>18 DEF vars, OwnTypes, listVars
      <3>2. \A r \in Irps : status'[r] = "pending" <=> status[r] = "pending"
        BY <2>18 DEF vars, OwnTypes, irpVars, Completed
      <3>3. \A u \in Threads :
              /\ thread'[u].pc \in {"copied", "found"} <=> thread[u].pc \in {"copied", "found"}
              /\ thread[u].pc \in {"copied", "found"} => thread'[u].irp = thread[u].irp
        BY <2>18 DEF vars, OwnTypes, Working, At, Goto
      <3> QED
        BY <3>1, <3>2, <3>3, SameHolders DEF KeepsHolders
    <2> QED
      BY <2>1, <2>2, <2>3, <2>4, <2>5, <2>6, <2>7, <2>8, <2>9, <2>10, <2>11, <2>12, <2>13, <2>14, <2>15, <2>16, <2>17, <2>18
         DEF Next, Send, Recieve, Cancel, Client, Destroy
  <1> QED
    BY <1>1, <1>2, TypeCorrect, CleanupShapeInvariant, PTL DEF Spec

\* An IRP always has exactly one party that will complete it, until it is completed.
THEOREM IrpOwnershipInvariant == Spec => []IrpOwnership
  BY TypeCorrect, OwnershipInvariant, OwnershipSuffices, PTL

-----------------------------------------------------------------------------
(* NotifyQueue implements NotificationChannel *)

\* What the refinement mapping shows of a request, by who holds it.
RequestFacts ==
    /\ request \in [Irps -> {"idle", "waiting", "answered", "withdrawn", "refused"}]
    /\ \A i \in Irps : /\ status[i] = "none" => request[i] = "idle"
                       /\ status[i] = "toosmall" => request[i] = "refused"
                       /\ status[i] = "cancelled" => request[i] = "withdrawn"
                       /\ status[i] = "success" => request[i] = "answered"
    /\ \A k \in 1 .. Len(irp_list) : request[irp_list[k]] = "waiting"
    /\ \A s \in Senders : hand[s] # None => request[hand[s]] = "answered"
    /\ \A t \in Threads : /\ thread[t].pc = "copied" => request[thread[t].irp] = "answered"
                          /\ thread[t].pc = "found" => request[thread[t].irp] = "withdrawn"
    /\ destroy.irp # None => request[destroy.irp] = "withdrawn"

\* What the owner of a request says of its abstract state.
LEMMA RequestFactsHold == TypeOK /\ Ownership => RequestFacts
  <1> SUFFICES ASSUME TypeOK, Ownership PROVE RequestFacts
    OBVIOUS
  <1> USE NoneAssumption DEF TypeOK, Completed
  <1>1. request \in [Irps -> {"idle", "waiting", "answered", "withdrawn", "refused"}]
    BY DEF request
  <1>2. \A i \in Irps : /\ status[i] = "none" => request[i] = "idle"
                        /\ status[i] = "toosmall" => request[i] = "refused"
                        /\ status[i] = "cancelled" => request[i] = "withdrawn"
                        /\ status[i] = "success" => request[i] = "answered"
    BY DEF request
  <1>3. ASSUME NEW k \in 1 .. Len(irp_list) PROVE request[irp_list[k]] = "waiting"
    <2>1. irp_list[k] \in Irps /\ irp_list[k] \in Elems(irp_list)
      BY DEF Elems
    <2>2. status[irp_list[k]] = "pending"
      BY DEF Ownership, HeldArePending
    <2> QED
      BY <2>1, <2>2 DEF request
  <1>4. ASSUME NEW s \in Senders, hand[s] # None PROVE request[hand[s]] = "answered"
    <2>1. hand[s] \in Irps /\ status[hand[s]] = "pending"
      BY <1>4 DEF Ownership, HeldArePending
    <2>2. hand[s] \notin Elems(irp_list)
      BY DEF Ownership, HeldOnce, Elems
    <2>3. destroy.irp # hand[s] /\ \A t \in Threads : thread[t] # [pc |-> "found", irp |-> hand[s]]
      BY <1>4 DEF Ownership, HeldOnce, Working
    <2> QED
      BY <2>1, <2>2, <2>3 DEF request
  <1>5. ASSUME NEW t \in Threads, Working(t)
        PROVE  request[thread[t].irp] = IF thread[t].pc = "found" THEN "withdrawn" ELSE "answered"
    <2>1. thread[t].irp \in Irps /\ status[thread[t].irp] = "pending"
      BY <1>5 DEF Ownership, HeldArePending
    <2>2. thread[t].irp \notin Elems(irp_list)
      BY <1>5 DEF Ownership, HeldOnce, Elems
    <2>3. CASE thread[t].pc = "found"
      <3>1. thread[t] = [pc |-> "found", irp |-> thread[t].irp]
        BY <2>3
      <3> QED
        BY <2>1, <2>2, <2>3, <3>1 DEF request
    <2>4. CASE thread[t].pc # "found"
      <3>1. destroy.irp # thread[t].irp
        BY <1>5, <2>1 DEF Ownership, HeldOnce
      <3>2. \A u \in Threads : thread[u] # [pc |-> "found", irp |-> thread[t].irp]
        BY <1>5, <2>4 DEF Ownership, HeldOnce, Working
      <3> QED
        BY <2>1, <2>2, <2>4, <3>1, <3>2 DEF request
    <2> QED
      BY <2>3, <2>4
  <1>6. destroy.irp # None => request[destroy.irp] = "withdrawn"
    <2> SUFFICES ASSUME destroy.irp # None PROVE request[destroy.irp] = "withdrawn"
      OBVIOUS
    <2>1. destroy.irp \in Irps /\ status[destroy.irp] = "pending"
      BY DEF Ownership, HeldArePending
    <2>2. destroy.irp \notin Elems(irp_list)
      BY DEF Ownership, HeldOnce, Elems
    <2> QED
      BY <2>1, <2>2 DEF request
  <1>7. \A t \in Threads : /\ thread[t].pc = "copied" => request[thread[t].irp] = "answered"
                           /\ thread[t].pc = "found" => request[thread[t].irp] = "withdrawn"
    BY <1>5 DEF Working
  <1> QED
    BY <1>1, <1>2, <1>3, <1>4, <1>6, <1>7 DEF RequestFacts

\* Dequeuing the head removes it, and only it, from the elements of a list without
\* repetitions.
LEMMA ElemsOfTail ==
    ASSUME NEW S, NEW s \in Seq(S), s # <<>>, NEW x, x # Head(s)
    PROVE  x \in Elems(Tail(s)) <=> x \in Elems(s)
  <1>1. ASSUME x \in Elems(Tail(s)) PROVE x \in Elems(s)
    BY <1>1, TailFacts DEF Elems
  <1>2. ASSUME x \in Elems(s) PROVE x \in Elems(Tail(s))
    <2>1. PICK k \in 1 .. Len(s) : s[k] = x
      BY <1>2 DEF Elems
    <2>2. k - 1 \in 1 .. Len(Tail(s)) /\ Tail(s)[k - 1] = x
      BY <2>1, TailFacts
    <2> QED
      BY <2>2 DEF Elems
  <1> QED
    BY <1>1, <1>2

\* So does unlinking the j-th node.
LEMMA ElemsOfWithout ==
    ASSUME NEW S, NEW s \in Seq(S), NEW j \in 1 .. Len(s), NEW x, x # s[j]
    PROVE  x \in Elems(Without(s, j)) <=> x \in Elems(s)
  <1> DEFINE w == Without(s, j)
  <1>0. /\ Len(s) \in Nat /\ Len(w) = Len(s) - 1
        /\ \A k \in 1 .. Len(s) - 1 : w[k] = IF k < j THEN s[k] ELSE s[k + 1]
    BY WithoutFacts
  <1> HIDE DEF w
  <1>1. ASSUME x \in Elems(w) PROVE x \in Elems(s)
    <2>1. PICK k \in 1 .. Len(w) : w[k] = x
      BY <1>1 DEF Elems
    <2>2. \E m \in 1 .. Len(s) : s[m] = x
      <3>1. CASE k < j
        BY <1>0, <2>1, <3>1
      <3>2. CASE ~(k < j)
        <4>1. k + 1 \in 1 .. Len(s) /\ s[k + 1] = x
          BY <1>0, <2>1, <3>2
        <4> QED
          BY <4>1
      <3> QED
        BY <3>1, <3>2
    <2> QED
      BY <2>2 DEF Elems
  <1>2. ASSUME x \in Elems(s) PROVE x \in Elems(w)
    <2>1. PICK k \in 1 .. Len(s) : s[k] = x
      BY <1>2 DEF Elems
    <2>2. CASE k < j
      <3>1. k \in 1 .. Len(w) /\ w[k] = x
        BY <1>0, <2>1, <2>2
      <3> QED
        BY <3>1 DEF Elems
    <2>3. CASE k > j
      <3>1. k - 1 \in 1 .. Len(w) /\ w[k - 1] = x
        BY <1>0, <2>1, <2>3
      <3> QED
        BY <3>1 DEF Elems
    <2> QED
      BY <2>1, <2>2, <2>3
  <1> QED
    BY <1>1, <1>2 DEF w

\* A step that leaves a request where it is: its mapped state does not change.
Untouched(i) ==
    /\ status'[i] = status[i]
    /\ i \in Elems(irp_list)' <=> i \in Elems(irp_list)
    /\ destroy'.irp = i <=> destroy.irp = i
    /\ \A t \in Threads :
          thread'[t] = [pc |-> "found", irp |-> i] <=> thread[t] = [pc |-> "found", irp |-> i]

\* A request whose status and holders a step leaves alone keeps its abstract state.
LEMMA UntouchedRequest == ASSUME NEW i \in Irps, Untouched(i) PROVE request'[i] = request[i]
  BY DEF Untouched, request

\* A step that leaves every request where it is.
LEMMA UntouchedRequests ==
    ASSUME \A i \in Irps : Untouched(i)
    PROVE  request' = request
  <1>1. \A i \in Irps : request'[i] = request[i]
    BY UntouchedRequest
  <1>2. request = [i \in Irps |-> request[i]] /\ request' = [i \in Irps |-> request'[i]]
    BY DEF request
  <1> QED
    BY <1>1, <1>2

\* A step that decides or moves one request.
LEMMA OneRequest ==
    ASSUME NEW i \in Irps, NEW v, request'[i] = v,
           \A j \in Irps \ {i} : Untouched(j)
    PROVE  request' = [request EXCEPT ![i] = v]
  <1>1. \A j \in Irps \ {i} : request'[j] = request[j]
    BY UntouchedRequest
  <1>2. request = [j \in Irps |-> request[j]] /\ request' = [j \in Irps |-> request'[j]]
    BY DEF request
  <1> QED
    BY <1>1, <1>2

\* A step that completes a request already decided.
LEMMA SettledRequest ==
    ASSUME NEW i \in Irps, request'[i] = request[i], \A j \in Irps \ {i} : Untouched(j)
    PROVE  request' = request
  <1>1. \A j \in Irps : request'[j] = request[j]
    BY UntouchedRequest
  <1>2. request = [j \in Irps |-> request[j]] /\ request' = [j \in Irps |-> request'[j]]
    BY DEF request
  <1> QED
    BY <1>1, <1>2

\* The queue implements the channel: every step of the driver is a step of the channel
\* or leaves it unchanged.
THEOREM ChannelRefinement == Spec => ChannelSpec
  <1>1. Init => Channel!Init
    BY DEF Init, Channel!Init, request
  <1>2. /\ TypeOK /\ Ownership /\ CleanupShape /\ RequestFacts
        /\ TypeOK' /\ Ownership' /\ RequestFacts'
        /\ [Next]_vars
        => [Channel!Next]_<<notification_list, irp_list, request, sysbuf>>
    <2> SUFFICES ASSUME TypeOK, Ownership, CleanupShape, RequestFacts,
                        TypeOK', Ownership', RequestFacts', [Next]_vars
                 PROVE  Channel!Next \/ UNCHANGED <<notification_list, irp_list, request, sysbuf>>
      OBVIOUS
    <2> USE NoneAssumption DEF listVars, irpVars, lockVars
    <2>1. ASSUME NEW s \in Senders, NEW n \in Notes, SendBuffer(s, n)
          PROVE  Channel!Offer(n) \/ UNCHANGED <<notification_list, irp_list, request, sysbuf>>
      <3>1. \A j \in Irps : Untouched(j)
        BY <2>1 DEF SendBuffer, Untouched
      <3>2. request' = request
        BY <3>1, UntouchedRequests
      <3>3. Len(notification_list) \in Nat /\ Len(notification_list) <= queued /\ queued \in Int
        BY CapacityAssumption DEF TypeOK
      <3> QED
        BY <2>1, <3>2, <3>3, CapacityAssumption DEF SendBuffer, Channel!Offer
    <2>2. ASSUME NEW s \in Senders, NEW n \in Notes, SendHand(s, n)
          PROVE  Channel!Offer(n)
      <3> DEFINE h == Head(irp_list)
      <3>1. /\ h = irp_list[1] /\ h \in Irps /\ irp_list # <<>>
            /\ Len(irp_list) \in Nat \ {0} /\ Len(Tail(irp_list)) = Len(irp_list) - 1
            /\ \A k \in 1 .. Len(irp_list) - 1 : Tail(irp_list)[k] = irp_list[k + 1]
        BY <2>2, TailFacts DEF SendHand, TypeOK
      <3>2. hand'[s] = h
        BY <2>2 DEF SendHand, TypeOK
      <3>3. request'[h] = "answered"
        BY <3>1, <3>2 DEF RequestFacts
      <3>4. ASSUME NEW j \in Irps \ {h} PROVE Untouched(j)
        <4>1. j \in Elems(Tail(irp_list)) <=> j \in Elems(irp_list)
          BY <3>1, ElemsOfTail DEF TypeOK
        <4> QED
          BY <2>2, <4>1 DEF SendHand, Untouched
      <3>5. request' = [request EXCEPT ![h] = "answered"]
        BY <3>1, <3>3, <3>4, OneRequest
      <3> QED
        BY <2>2, <3>1, <3>5 DEF SendHand, Channel!Offer
    <2>3. ASSUME NEW s \in Senders, SendComplete(s)
          PROVE  UNCHANGED <<notification_list, irp_list, request, sysbuf>>
      <3>1. hand[s] \in Irps /\ request[hand[s]] = "answered"
        BY <2>3 DEF SendComplete, TypeOK, RequestFacts
      <3>2. status'[hand[s]] = "success"
        BY <2>3, <3>1 DEF SendComplete, TypeOK
      <3>3. request'[hand[s]] = "answered"
        BY <3>1, <3>2 DEF RequestFacts
      <3>4. \A j \in Irps \ {hand[s]} : Untouched(j)
        BY <2>3, <3>1 DEF SendComplete, Untouched, TypeOK
      <3> QED
        BY <2>3, <3>1, <3>3, <3>4, SettledRequest DEF SendComplete
    <2>4. ASSUME NEW t \in Threads, NEW i \in Irps, RecieveTooSmall(t, i)
          PROVE  Channel!Ask(i)
      <3>1. request[i] = "idle" /\ status'[i] = "toosmall"
        BY <2>4 DEF RecieveTooSmall, CanIssue, TypeOK, RequestFacts
      <3>2. request'[i] = "refused"
        BY <3>1 DEF RequestFacts
      <3>3. \A j \in Irps \ {i} : Untouched(j)
        BY <2>4 DEF RecieveTooSmall, Untouched, TypeOK
      <3>4. request' = [request EXCEPT ![i] = "refused"]
        BY <3>2, <3>3, OneRequest
      <3> QED
        BY <2>4, <3>1, <3>4 DEF RecieveTooSmall, Channel!Ask
    <2>5. ASSUME NEW t \in Threads, NEW i \in Irps, RecieveWait(t, i)
          PROVE  Channel!Ask(i)
      <3>1. /\ Len(irp_list) \in Nat /\ Len(irp_list') = Len(irp_list) + 1
            /\ irp_list'[Len(irp_list) + 1] = i
            /\ \A k \in 1 .. Len(irp_list) : irp_list'[k] = irp_list[k]
        BY <2>5, AppendFacts DEF RecieveWait, TypeOK
      <3>2. request[i] = "idle"
        BY <2>5 DEF RecieveWait, CanIssue, RequestFacts
      <3>3. request'[i] = "waiting"
        BY <3>1 DEF RequestFacts
      <3>4. ASSUME NEW j \in Irps \ {i} PROVE Untouched(j)
        <4>1. j \in Elems(irp_list') <=> j \in Elems(irp_list)
          BY <3>1 DEF Elems
        <4> QED
          BY <2>5, <4>1 DEF RecieveWait, CanIssue, Untouched, TypeOK, At, Goto, Elems
      <3>5. request' = [request EXCEPT ![i] = "waiting"]
        BY <3>3, <3>4, OneRequest
      <3> QED
        BY <2>5, <3>2, <3>5 DEF RecieveWait, Channel!Ask
    <2>6. ASSUME NEW t \in Threads, NEW i \in Irps, RecieveTake(t, i)
          PROVE  Channel!Ask(i)
      <3>1. request[i] = "idle" /\ thread'[t] = [pc |-> "copied", irp |-> i]
        BY <2>6 DEF RecieveTake, CanIssue, TypeOK, RequestFacts, Goto
      <3>2. request'[i] = "answered"
        BY <3>1 DEF RequestFacts
      <3>3. \A j \in Irps \ {i} : Untouched(j)
        BY <2>6 DEF RecieveTake, CanIssue, Untouched, TypeOK, At, Goto
      <3>4. request' = [request EXCEPT ![i] = "answered"]
        BY <3>2, <3>3, OneRequest
      <3> QED
        BY <2>6, <3>1, <3>4 DEF RecieveTake, Channel!Ask
    <2>7. ASSUME NEW t \in Threads, SetCancelRoutine(t)
          PROVE  UNCHANGED <<notification_list, irp_list, request, sysbuf>>
      <3>1. \A j \in Irps : Untouched(j)
        BY <2>7 DEF SetCancelRoutine, At, Goto, Untouched, TypeOK
      <3> QED
        BY <2>7, <3>1, UntouchedRequests DEF SetCancelRoutine, At, Goto
    <2>8. ASSUME NEW t \in Threads, RecieveComplete(t)
          PROVE  UNCHANGED <<notification_list, irp_list, request, sysbuf>>
      <3> DEFINE i == thread[t].irp
      <3>1. i \in Irps /\ request[i] = "answered"
        BY <2>8 DEF RecieveComplete, At, Ownership, HeldArePending, Working, RequestFacts
      <3>2. status'[i] = "success"
        BY <2>8, <3>1 DEF RecieveComplete, TypeOK
      <3>3. request'[i] = "answered"
        BY <3>1, <3>2 DEF RequestFacts
      <3>4. \A j \in Irps \ {i} : Untouched(j)
        BY <2>8, <3>1 DEF RecieveComplete, At, Goto, Untouched, TypeOK
      <3> QED
        BY <2>8, <3>1, <3>3, <3>4, SettledRequest DEF RecieveComplete
    <2>9. ASSUME NEW t \in Threads, NEW i \in Irps, CancelIrp(t, i)
          PROVE  UNCHANGED <<notification_list, irp_list, request, sysbuf>>
      <3>1. \A j \in Irps : Untouched(j)
        BY <2>9 DEF CancelIrp, At, Goto, Untouched, TypeOK
      <3> QED
        BY <2>9, <3>1, UntouchedRequests DEF CancelIrp, At, Goto
    <2>10. ASSUME NEW t \in Threads, OnCancelFind(t)
          PROVE  Channel!Withdraw
      <3> DEFINE i == thread[t].irp
      <3>1. PICK k \in 1 .. Len(irp_list) : irp_list[k] = i /\ irp_list' = Without(irp_list, k)
        BY <2>10 DEF OnCancelFind
      <3>2. i \in Irps /\ irp_list' = Channel!Without(irp_list, k)
        BY <3>1 DEF TypeOK, Without, Channel!Without
      <3>3. thread'[t] = [pc |-> "found", irp |-> i]
        BY <2>10 DEF OnCancelFind, Goto, TypeOK
      <3>4. request'[i] = "withdrawn"
        BY <3>2, <3>3 DEF RequestFacts
      <3>5. ASSUME NEW j \in Irps \ {i} PROVE Untouched(j)
        <4>1. j \in Elems(irp_list') <=> j \in Elems(irp_list)
          BY <3>1, ElemsOfWithout DEF TypeOK
        <4>2. \A u \in Threads :
                 thread'[u] = [pc |-> "found", irp |-> j] <=> thread[u] = [pc |-> "found", irp |-> j]
          BY <2>10 DEF OnCancelFind, At, Goto, TypeOK
        <4> QED
          BY <2>10, <4>1, <4>2 DEF OnCancelFind, Untouched, Elems
      <3>6. request' = [request EXCEPT ![irp_list[k]] = "withdrawn"]
        BY <3>1, <3>2, <3>4, <3>5, OneRequest
      <3> QED
        BY <2>10, <3>2, <3>6 DEF OnCancelFind, Channel!Withdraw
    <2>11. ASSUME NEW t \in Threads, OnCancelMiss(t)
          PROVE  UNCHANGED <<notification_list, irp_list, request, sysbuf>>
      <3>1. \A j \in Irps : Untouched(j)
        BY <2>11 DEF OnCancelMiss, At, Goto, Untouched, TypeOK
      <3> QED
        BY <2>11, <3>1, UntouchedRequests DEF OnCancelMiss, At, Goto
    <2>12. ASSUME NEW t \in Threads, OnCancelReturn(t)
          PROVE  UNCHANGED <<notification_list, irp_list, request, sysbuf>>
      <3> DEFINE i == thread[t].irp
      <3>1. CASE At(t, "found")
        <4>1. i \in Irps /\ request[i] = "withdrawn"
          BY <3>1 DEF At, Ownership, HeldArePending, Working, RequestFacts
        <4>2. status'[i] = "cancelled"
          BY <2>12, <3>1, <4>1 DEF OnCancelReturn, TypeOK
        <4>3. request'[i] = "withdrawn"
          BY <4>1, <4>2 DEF RequestFacts
        <4>4. \A j \in Irps \ {i} : Untouched(j)
          BY <2>12, <3>1, <4>1 DEF OnCancelReturn, At, Goto, Untouched, TypeOK
        <4> QED
          BY <2>12, <4>1, <4>3, <4>4, SettledRequest DEF OnCancelReturn
      <3>2. CASE ~At(t, "found")
        <4>1. \A j \in Irps : Untouched(j)
          BY <2>12, <3>2 DEF OnCancelReturn, At, Goto, Untouched, TypeOK
        <4> QED
          BY <2>12, <4>1, UntouchedRequests DEF OnCancelReturn
      <3> QED
        BY <3>1, <3>2
    <2>13. ASSUME NEW i \in Irps, Collect(i)
          PROVE  Channel!Collect(i)
      <3>1. request[i] \in {"answered", "withdrawn", "refused"}
        BY <2>13 DEF Collect, Completed, RequestFacts
      <3>2. status'[i] = "none"
        BY <2>13 DEF Collect, TypeOK
      <3>3. request'[i] = "idle"
        BY <3>2 DEF RequestFacts
      <3>4. \A j \in Irps \ {i} : Untouched(j)
        BY <2>13 DEF Collect, Untouched, TypeOK
      <3>5. request' = [request EXCEPT ![i] = "idle"]
        BY <3>3, <3>4, OneRequest
      <3> QED
        BY <2>13, <3>1, <3>5 DEF Collect, Channel!Collect, Channel!Decided
    <2>14. ASSUME OpenDevice \/ CloseDevice
          PROVE  UNCHANGED <<notification_list, irp_list, request, sysbuf>>
      <3>1. \A j \in Irps : Untouched(j)
        BY <2>14 DEF OpenDevice, CloseDevice, CleanupShape, Untouched, TypeOK
      <3> QED
        BY <2>14, <3>1, UntouchedRequests DEF OpenDevice, CloseDevice, CleanupShape
    <2>15. ASSUME DestroyNote
          PROVE  Channel!Discard
      <3>1. \A j \in Irps : Untouched(j)
        BY <2>15 DEF DestroyNote, Untouched
      <3>2. request' = request
        BY <3>1, UntouchedRequests
      <3> QED
        BY <2>15, <3>2 DEF DestroyNote, Channel!Discard
    <2>16. ASSUME DestroyIrp
          PROVE  Channel!Withdraw
      <3> DEFINE h == Head(irp_list)
      <3>1. /\ h = irp_list[1] /\ h \in Irps /\ irp_list # <<>> /\ Tail(irp_list) \in Seq(Irps)
            /\ Len(irp_list) \in Nat \ {0} /\ Len(Tail(irp_list)) = Len(irp_list) - 1
            /\ \A k \in 1 .. Len(irp_list) - 1 : Tail(irp_list)[k] = irp_list[k + 1]
        BY <2>16, TailFacts DEF DestroyIrp, TypeOK
      <3>2. destroy'.irp = h
        BY <2>16 DEF DestroyIrp, TypeOK
      <3>3. request'[h] = "withdrawn"
        BY <3>1, <3>2 DEF RequestFacts
      <3>4. ASSUME NEW j \in Irps \ {h} PROVE Untouched(j)
        <4>1. j \in Elems(Tail(irp_list)) <=> j \in Elems(irp_list)
          BY <3>1, ElemsOfTail DEF TypeOK
        <4>2. destroy'.irp # j /\ destroy.irp # j
          BY <2>16, <3>2 DEF DestroyIrp
        <4> QED
          BY <2>16, <4>1, <4>2 DEF DestroyIrp, Untouched
      <3>5. request' = [request EXCEPT ![irp_list[1]] = "withdrawn"]
        BY <3>1, <3>3, <3>4, OneRequest
      <3>6. Tail(irp_list) = Channel!Without(irp_list, 1)
        <4> DEFINE w == Without(irp_list, 1)
        <4>1. /\ w \in Seq(Irps) /\ Len(w) = Len(irp_list) - 1
              /\ \A k \in 1 .. Len(irp_list) - 1 : w[k] = irp_list[k + 1]
          <5>1. 1 \in 1 .. Len(irp_list) /\ irp_list \in Seq(Irps)
            BY <3>1 DEF TypeOK
          <5>2. /\ w \in Seq(Irps) /\ Len(w) = Len(irp_list) - 1
                /\ \A k \in 1 .. Len(irp_list) - 1 :
                      w[k] = IF k < 1 THEN irp_list[k] ELSE irp_list[k + 1]
            BY <5>1, WithoutFacts
          <5> HIDE DEF w
          <5>3. \A k \in 1 .. Len(irp_list) - 1 : ~(k < 1)
            BY <3>1
          <5> QED
            BY <5>2, <5>3
        <4>2. Tail(irp_list) = w
          <5> HIDE DEF w
          <5>1. Len(Tail(irp_list)) = Len(w)
            BY <3>1, <4>1
          <5>2. \A k \in 1 .. Len(Tail(irp_list)) : Tail(irp_list)[k] = w[k]
            BY <3>1, <4>1
          <5> QED
            BY <3>1, <4>1, <5>1, <5>2, SeqEqual
        <4> QED
          BY <4>2 DEF Without, Channel!Without
      <3>7. 1 \in 1 .. Len(irp_list)
        BY <3>1
      <3> QED
        BY <2>16, <3>5, <3>6, <3>7 DEF DestroyIrp, Channel!Withdraw
    <2>17. ASSUME DestroyComplete
          PROVE  UNCHANGED <<notification_list, irp_list, request, sysbuf>>
      <3> DEFINE i == destroy.irp
      <3>1. i \in Irps /\ request[i] = "withdrawn"
        BY <2>17 DEF DestroyComplete, TypeOK, RequestFacts
      <3>2. status'[i] = "cancelled"
        BY <2>17, <3>1 DEF DestroyComplete, TypeOK
      <3>3. request'[i] = "withdrawn"
        BY <3>1, <3>2 DEF RequestFacts
      <3>4. \A j \in Irps \ {i} : Untouched(j)
        BY <2>17, <3>1 DEF DestroyComplete, Untouched, TypeOK
      <3> QED
        BY <2>17, <3>1, <3>3, <3>4, SettledRequest DEF DestroyComplete
    <2>18. ASSUME DestroyNotesDone \/ DestroyDone
          PROVE  UNCHANGED <<notification_list, irp_list, request, sysbuf>>
      <3>1. \A j \in Irps : Untouched(j)
        BY <2>18 DEF DestroyNotesDone, DestroyDone, Untouched, TypeOK
      <3> QED
        BY <2>18, <3>1, UntouchedRequests DEF DestroyNotesDone, DestroyDone
    <2>19. ASSUME UNCHANGED vars
          PROVE  UNCHANGED <<notification_list, irp_list, request, sysbuf>>
      <3>1. \A j \in Irps : Untouched(j)
        BY <2>19 DEF vars, Untouched, TypeOK
      <3> QED
        BY <2>19, <3>1, UntouchedRequests DEF vars
    <2> QED
      BY <2>1, <2>2, <2>3, <2>4, <2>5, <2>6, <2>7, <2>8, <2>9, <2>10,
         <2>11, <2>12, <2>13, <2>14, <2>15, <2>16, <2>17, <2>18, <2>19
         DEF Next, Send, Recieve, Cancel, Client, Destroy, Channel!Next
  <1>3. TypeOK /\ Ownership => RequestFacts
    BY RequestFactsHold
  <1> QED
    BY <1>1, <1>2, <1>3, TypeCorrect, OwnershipInvariant, CleanupShapeInvariant, PTL
       DEF Spec, ChannelSpec, Channel!Spec, Channel!chanVars
=============================================================================
