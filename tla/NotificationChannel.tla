------------------------ MODULE NotificationChannel ------------------------
(***************************************************************************)
(* What the driver's notification queue promises to the program that reads *)
(* it: a lossy first-in first-out channel that holds at most Capacity      *)
(* notifications and answers the oldest waiting request first.             *)
(*                                                                         *)
(* A notification nobody waits for may be lost when it is offered (the     *)
(* loss is a stuttering step), or while it is buffered, when the reader's  *)
(* handle is closed.  A request, once made, is answered, withdrawn or      *)
(* refused, and once decided its outcome does not change until the reader  *)
(* collects it.                                                            *)
(***************************************************************************)
EXTENDS Naturals, Sequences

CONSTANTS Irps,     \* requests that can be outstanding at once
          Notes,    \* contents of a notification
          Capacity, \* the most notifications the channel buffers
          None      \* no notification

VARIABLES buffer,   \* notifications offered and not yet read, oldest first
          waiting,  \* requests with no answer yet, oldest first
          request,  \* what has become of each request
          got       \* the notification a request was answered with

chanVars == <<buffer, waiting, request, got>>

Decided == {"answered", "withdrawn", "refused"}

Init == /\ buffer = <<>>
        /\ waiting = <<>>
        /\ request = [i \in Irps |-> "idle"]
        /\ got = [i \in Irps |-> None]

Offer(n) ==
    \/ /\ waiting # <<>>
       /\ waiting' = Tail(waiting)
       /\ request' = [request EXCEPT ![Head(waiting)] = "answered"]
       /\ got' = [got EXCEPT ![Head(waiting)] = n]
       /\ UNCHANGED buffer
    \/ /\ waiting = <<>>
       /\ Len(buffer) < Capacity
       /\ buffer' = Append(buffer, n)
       /\ UNCHANGED <<waiting, request, got>>

Ask(i) ==
    /\ request[i] = "idle"
    /\ \/ /\ buffer # <<>>
          /\ buffer' = Tail(buffer)
          /\ request' = [request EXCEPT ![i] = "answered"]
          /\ got' = [got EXCEPT ![i] = Head(buffer)]
          /\ UNCHANGED waiting
       \/ /\ buffer = <<>>
          /\ waiting' = Append(waiting, i)
          /\ request' = [request EXCEPT ![i] = "waiting"]
          /\ UNCHANGED <<buffer, got>>
       \/ /\ request' = [request EXCEPT ![i] = "refused"]
          /\ UNCHANGED <<buffer, waiting, got>>

\* s without its j-th element
Without(s, j) == [k \in 1 .. Len(s) - 1 |-> IF k < j THEN s[k] ELSE s[k + 1]]

Withdraw ==
    \E j \in 1 .. Len(waiting) :
        /\ waiting' = Without(waiting, j)
        /\ request' = [request EXCEPT ![waiting[j]] = "withdrawn"]
        /\ UNCHANGED <<buffer, got>>

\* One at a time, or all of them.
Discard ==
    /\ buffer # <<>>
    /\ buffer' \in {Tail(buffer), <<>>}
    /\ UNCHANGED <<waiting, request, got>>

Collect(i) ==
    /\ request[i] \in Decided
    /\ request' = [request EXCEPT ![i] = "idle"]
    /\ got' = [got EXCEPT ![i] = None]
    /\ UNCHANGED <<buffer, waiting>>

Next == \/ \E n \in Notes : Offer(n)
        \/ \E i \in Irps : Ask(i) \/ Collect(i)
        \/ Withdraw
        \/ Discard

Spec == Init /\ [][Next]_chanVars
=============================================================================
