----------------------------- MODULE ListUpdate -----------------------------
(***************************************************************************)
(* Updating the lists (peerblock/updatelists.cpp).  UpdateLists, on the UI *)
(* thread, opens a window, modal when the user asks and hidden when an     *)
(* update is due; the window starts a thread, which downloads each list to *)
(* a temporary file and moves it over the list's file; the window, as it   *)
(* is destroyed, loads the lists.  All of it is tied together by g_updater *)
(* and g_ut, which the two threads share without a lock: g_lastupdatelock  *)
(* is a critical section only the UI thread enters, and not for as long as *)
(* an update lasts.                                                        *)
(*                                                                         *)
(* Updates are numbered in the order in which they start; a number is a    *)
(* window and its thread.  When two threads work at once they free each    *)
(* other's HandleData, which is undefined: the model stops there, and its  *)
(* properties speak of what comes before.                                  *)
(***************************************************************************)
EXTENDS Integers, FiniteSets

CONSTANTS NLists,    \* the lists that have a URL
          MaxUpdates \* bound on how many updates are started

ASSUME UpdateAssumption == NLists \in Nat \ {0} /\ MaxUpdates \in Nat \ {0}

VARIABLES updater,   \* g_updater: 0 for NULL, -1 for a modal window
          ut,        \* g_ut: aborted, whether there are changes, and hwnd
          win,       \* the windows
          timer,     \* windows with a TIMER_COUNTDOWN
          pc,        \* the threads
          temp,      \* who has a list's temporary file open
          left,      \* the lists whose temporary file is on the disk
          stale,     \* lists with a newer file than the driver has ranges of
          modal,     \* the window DialogBox serves (0: none)
          load,      \* LoadLists: "no", "dialog" (serves messages), "alone" (does not), "hung"
          unread,    \* list files LoadLists has not read yet
          dying,     \* the window whose OnDestroy called it (0: none)
          due,       \* UpdateInterval days have passed since LastUpdate
          cut        \* history: "closed", the user closed a window while a thread was busy;
                     \* "taken", g_ut was assigned anew for a new window while a thread was
                     \* busy or a modal window had still to look at it; "counted", a window
                     \* was closed by UpdateCountdown, or is going to be

files   == <<temp, left, stale>>
windows == <<win, timer, modal>>
loading == <<load, unread, dying>>
vars == <<updater, ut, windows, pc, files, loading, due, cut>>

Lists   == 1 .. NLists
Updates == 1 .. MaxUpdates

Init ==
    /\ updater = 0
    /\ ut = [aborted |-> FALSE, changes |-> FALSE, win |-> 0]
    /\ win = [u \in Updates |-> "none"]
    /\ timer = {}
    /\ pc = [u \in Updates |-> "none"]
    /\ temp = [l \in Lists |-> {}]
    /\ left = {} /\ stale = {}
    /\ modal = 0
    /\ load = "no" /\ unread = {} /\ dying = 0
    /\ due = FALSE
    /\ cut = {}

Working == {u \in Updates : pc[u] \in {"setup", "poll", "read", "cleanup"}}
Busy    == {u \in Updates : pc[u] \notin {"none", "done", "dead"}}
Overlap == Cardinality(Working) > 1

\* The UI thread looks at messages.  DialogBox returns before it looks at another.
Pumps == load = "dialog" \/ (load = "no" /\ \A u \in Updates : u = modal => win[u] # "ending")

-----------------------------------------------------------------------------
(* The windows *)

\* OnInitDialog: g_ut is assigned anew, whoever may use it, and its thread started.
OnInitDialog(u, kind) ==
    /\ pc[u] = "none" /\ \A v \in Updates : v < u => pc[v] # "none"
    /\ ut' = [aborted |-> FALSE, changes |-> FALSE, win |-> u]
    /\ win' = [win EXCEPT ![u] = kind]
    /\ pc' = [pc EXCEPT ![u] = "setup"]

TakeOver ==
    cut' = IF Busy # {} \/ (modal # 0 /\ dying = 0) THEN cut \cup {"taken"} ELSE cut

\* UpdateLists(hwnd) without a window: the user asks for an update.  DialogBox returns
\* when the window is gone.
UpdateLists(u) ==
    /\ load = "no" /\ modal = 0 /\ updater = 0
    /\ OnInitDialog(u, "modal")
    /\ updater' = -1
    /\ modal' = u
    /\ TakeOver
    /\ UNCHANGED <<timer, files, loading, due>>

\* With a window, a hidden one usually: it is shown, and CheckForUpdates loads the lists.
ShowUpdate ==
    /\ load = "no" /\ modal = 0 /\ updater > 0
    /\ win' = [win EXCEPT ![updater] = "shown"]
    /\ load' = "dialog" /\ unread' = Lists
    /\ UNCHANGED <<updater, ut, timer, modal, pc, files, dying, due, cut>>

\* Mutant of AutoUpdate: g_updater is not looked at.
AutoUpdateAlways(u) ==
    /\ Pumps /\ due
    /\ OnInitDialog(u, "hidden")
    /\ updater' = u
    /\ due' = FALSE
    /\ TakeOver
    /\ UNCHANGED <<timer, modal, files, loading>>

\* TIMER_UPDATE, whose message any loop serves: UpdateLists(NULL), if an update is due.
AutoUpdate(u) ==
    /\ Pumps /\ due
    /\ updater = 0
    /\ OnInitDialog(u, "hidden")
    /\ updater' = u
    /\ due' = FALSE
    /\ TakeOver
    /\ UNCHANGED <<timer, modal, files, loading>>

\* Days pass while nothing but the network is waited for.
DaysPass ==
    /\ ~due /\ Pumps
    /\ \A u \in Updates : pc[u] \in {"none", "poll", "done", "dead"}
    /\ due' = TRUE
    /\ UNCHANGED <<updater, ut, windows, pc, files, loading, cut>>

\* The end of OnDestroy; of a modal window, DialogBox returns, LastUpdate is set and
\* CheckForUpdates loads the lists (at the first start they are not loaded again).
Destroyed(u) ==
    /\ win' = [win EXCEPT ![u] = "gone"]
    /\ updater' = 0
    /\ dying' = IF dying = u THEN 0 ELSE dying
    /\ IF u = modal
       THEN /\ modal' = 0 /\ due' = FALSE
            /\ \/ load' = "dialog" /\ unread' = Lists
               \/ load' = "no" /\ unread' = {}
       ELSE /\ UNCHANGED <<modal, due>>
            /\ load' = IF dying = u THEN "no" ELSE load
            /\ unread' = unread

\* Mutant of OnDestroy: a window without a parent does not load the lists.
OnDestroyParent(u, upd) ==
    IF ~ut.changes \/ u # modal THEN Destroyed(u)
    ELSE /\ load' = IF load # "no" THEN "hung" ELSE "dialog"
         /\ unread' = Lists /\ dying' = u
         /\ updater' = upd
         /\ UNCHANGED <<win, modal, due>>

\* WM_DESTROY, with g_updater = upd.  LoadLists(GetParent(hwnd)) serves messages for a
\* modal window, which has a parent; called within another LoadLists it does not return
\* (see ListCache).
OnDestroy(u, upd) ==
    IF ~ut.changes THEN Destroyed(u)
    ELSE /\ load' = IF load # "no" THEN "hung" ELSE IF u = modal THEN "dialog" ELSE "alone"
         /\ unread' = Lists /\ dying' = u
         /\ updater' = upd
         /\ UNCHANGED <<win, modal, due>>

\* EndDialog of a modal window from within another loop, or another thread.
EndDialog(u, upd) ==
    /\ win' = [win EXCEPT ![u] = "ending"]
    /\ updater' = upd
    /\ UNCHANGED <<modal, loading, due>>

Visible(u) == win[u] \in {"modal", "shown"} /\ dying # u

\* A window is closed.  DialogBox's own loop looks whether it has ended after each message.
CloseWindow(u, upd) == IF u = modal /\ load = "dialog" THEN EndDialog(u, upd) ELSE OnDestroy(u, upd)

\* WM_CLOSE from the user.  IDC_CLOSE, enabled when the thread is done, does the same but
\* for aborted, which nobody looks at then.
OnClose(u) ==
    /\ Pumps /\ Visible(u)
    /\ ut' = [ut EXCEPT !.aborted = TRUE]
    /\ cut' = IF Busy # {} THEN cut \cup {"closed"} ELSE cut
    /\ CloseWindow(u, updater)
    /\ UNCHANGED <<timer, pc, files>>

\* IDC_ABORT.
OnAbort(u) ==
    /\ Pumps /\ Visible(u) /\ ~ut.aborted
    /\ ut' = [ut EXCEPT !.aborted = TRUE]
    /\ UNCHANGED <<updater, windows, pc, files, loading, due, cut>>

\* The last TIMER_COUNTDOWN: the window is closed and g_updater is NULL.
OnTimer(u) ==
    /\ Pumps /\ u \in timer /\ win[u] # "gone"
    /\ timer' = timer \ {u}
    /\ IF Visible(u) THEN CloseWindow(u, 0)
       ELSE updater' = 0 /\ UNCHANGED <<win, modal, loading, due>>
    /\ UNCHANGED <<ut, pc, files, cut>>

\* DialogBox's loop finds the window ended, and destroys it.
ModalEnds ==
    /\ load = "no" /\ modal # 0 /\ win[modal] = "ending"
    /\ OnDestroy(modal, updater)
    /\ UNCHANGED <<ut, timer, pc, files, cut>>

\* WM_CLOSE from a thread that could not close its window.
ClosedByThread(t) ==
    /\ Pumps /\ pc[t] = "asking"
    /\ pc' = [pc EXCEPT ![t] = "done"]
    /\ IF win[ut.win] \in {"hidden", "shown"} /\ dying # ut.win
       THEN /\ ut' = [ut EXCEPT !.aborted = TRUE]
            /\ OnDestroy(ut.win, updater)
       ELSE UNCHANGED <<ut, updater, win, modal, loading, due>>
    /\ UNCHANGED <<timer, files, cut>>

-----------------------------------------------------------------------------
(* LoadLists *)

\* LoadLists from elsewhere: the list manager closes, another program asks.
Reload ==
    /\ load = "no"
    /\ load' = "dialog" /\ unread' = Lists
    /\ UNCHANGED <<updater, ut, windows, pc, files, dying, due, cut>>

\* A list's file is read.
ReadList(l) ==
    /\ Pumps \/ load = "alone"
    /\ l \in unread
    /\ unread' = unread \ {l}
    /\ stale' = stale \ {l}
    /\ UNCHANGED <<updater, ut, windows, pc, temp, left, load, dying, due, cut>>

\* LoadLists returns.
Loaded ==
    /\ load \in {"dialog", "alone"} /\ unread = {}
    /\ IF dying # 0 THEN Destroyed(dying)
       ELSE load' = "no" /\ UNCHANGED <<updater, win, modal, unread, dying, due>>
    /\ UNCHANGED <<ut, timer, pc, files, cut>>

-----------------------------------------------------------------------------
(* The thread: UpdateThread::_Process *)

\* SendMessage to the window returns.
Answered == Pumps \/ win[ut.win] = "gone"

Goto(t, at) == pc' = [pc EXCEPT ![t] = at]

\* UI state no thread changes directly.
uiState == <<updater, win, modal, loading, due, cut>>

\* Every list that is due, or has no file, gets a transfer, and its temporary file is
\* opened; one that cannot be opened is left out.
Setup(t) ==
    /\ pc[t] = "setup" /\ Answered
    /\ \E todo \in SUBSET Lists :
          /\ temp' = [l \in Lists |-> IF l \in todo THEN temp[l] \cup {t} ELSE temp[l]]
          /\ left' = left \cup todo
          /\ IF todo = {} THEN Goto(t, "enable") ELSE Goto(t, "poll")
    /\ UNCHANGED <<uiState, ut, timer, stale>>

\* A list's file that cannot be examined, or a directory that cannot be made, throws; there
\* may be transfers already.  Nothing catches it but Process.
SetupThrows(t) ==
    /\ pc[t] = "setup" /\ Answered
    /\ \E todo \in SUBSET Lists :
          /\ temp' = [l \in Lists |-> IF l \in todo THEN temp[l] \cup {t} ELSE temp[l]]
          /\ left' = left \cup todo
    /\ Goto(t, "dead")
    /\ UNCHANGED <<uiState, ut, timer, stale>>

\* Mutant of Poll: aborted is not looked at.
PollOn(t) ==
    /\ pc[t] = "poll"
    /\ IF \A l \in Lists : t \notin temp[l] THEN Goto(t, "cleanup") ELSE Goto(t, "read")
    /\ UNCHANGED <<uiState, ut, timer, files>>

\* while(!aborted && running): select returns in two seconds, whatever the network does.
Poll(t) ==
    /\ pc[t] = "poll"
    /\ IF ut.aborted \/ \A l \in Lists : t \notin temp[l]
       THEN Goto(t, "cleanup") ELSE Goto(t, "read")
    /\ UNCHANGED <<uiState, ut, timer, files>>

\* A transfer is done.  A useful list is moved over the list's file and counted; anything
\* else is renamed or removed, as far as nobody has the file open.
Result(t, l) ==
    /\ pc[t] = "read" /\ Answered
    /\ t \in temp[l]
    /\ temp' = [temp EXCEPT ![l] = @ \ {t}]
    /\ left' = IF temp'[l] = {} THEN left \ {l} ELSE left
    /\ \/ /\ temp'[l] = {}
          /\ stale' = stale \cup {l}
          /\ ut' = [ut EXCEPT !.changes = TRUE]
       \/ UNCHANGED <<stale, ut>>
    /\ UNCHANGED <<uiState, pc, timer>>

\* No more messages of curl.
ReadAll(t) ==
    /\ pc[t] = "read"
    /\ Goto(t, "poll")
    /\ UNCHANGED <<uiState, ut, timer, files>>

\* Mutant of Cleanup: the temporary files of the transfers that are left are not removed.
CleanupLeaves(t) ==
    /\ pc[t] = "cleanup" /\ Answered
    /\ temp' = [l \in Lists |-> temp[l] \ {t}]
    /\ Goto(t, "enable")
    /\ UNCHANGED <<uiState, ut, timer, left, stale>>

\* Mutant of Cleanup: the files are not closed, and cannot be removed.
CleanupOpen(t) ==
    /\ pc[t] = "cleanup" /\ Answered
    /\ Goto(t, "enable")
    /\ UNCHANGED <<uiState, ut, timer, files>>

\* The files of the transfers that are left are closed and removed.
Cleanup(t) ==
    /\ pc[t] = "cleanup" /\ Answered
    /\ temp' = [l \in Lists |-> temp[l] \ {t}]
    /\ left' = {l \in left : t \in temp[l] => temp'[l] # {}}
    /\ Goto(t, "enable")
    /\ UNCHANGED <<uiState, ut, timer, stale>>

\* The buttons: IDC_CLOSE instead of IDC_ABORT.
Enable(t) ==
    /\ pc[t] = "enable" /\ Answered
    /\ Goto(t, "finish")
    /\ UNCHANGED <<uiState, ut, timer, files>>

\* A window the user sees stays, for the countdown or for good; at zero the thread tries to
\* close it, which DestroyWindow refuses to another thread and EndDialog may.
FinishVisible(t) ==
    /\ pc[t] = "finish" /\ Answered
    /\ Visible(ut.win)
    /\ Goto(t, "done")
    /\ \/ UNCHANGED <<timer, win, cut>>
       \/ timer' = timer \cup {ut.win} /\ cut' = cut \cup {"counted"} /\ UNCHANGED win
       \/ /\ updater = -1
          /\ win' = [win EXCEPT ![ut.win] = "ending"]
          /\ cut' = cut \cup {"counted"}
          /\ UNCHANGED timer
    /\ UNCHANGED <<updater, ut, modal, files, loading, due>>

\* Mutant of FinishHidden: DestroyWindow is tried, and nothing else.
FinishHiddenTries(t) ==
    /\ pc[t] = "finish" /\ Answered
    /\ ~Visible(ut.win)
    /\ Goto(t, "done")
    /\ UNCHANGED <<uiState, ut, timer, files>>

\* DestroyWindow is refused, and the UI thread sent a WM_CLOSE.
FinishHidden(t) ==
    /\ pc[t] = "finish" /\ Answered
    /\ ~Visible(ut.win)
    /\ Goto(t, "asking")
    /\ UNCHANGED <<uiState, ut, timer, files>>

-----------------------------------------------------------------------------
(* The specification *)

Window(u) ==
    \/ UpdateLists(u) \/ AutoUpdate(u)
    \/ OnClose(u) \/ OnAbort(u) \/ OnTimer(u)

Loads == Loaded \/ \E l \in Lists : ReadList(l)

\* What the thread does without the network.
Step(t) ==
    \/ Setup(t) \/ SetupThrows(t) \/ Poll(t) \/ ReadAll(t) \/ Cleanup(t) \/ Enable(t)
    \/ FinishVisible(t) \/ FinishHidden(t)

Next ==
    /\ ~Overlap
    /\ \/ \E u \in Updates : Window(u)
       \/ ShowUpdate \/ DaysPass \/ ModalEnds \/ Reload
       \/ Loads
       \/ \E t \in Updates : Step(t) \/ ClosedByThread(t)
       \/ \E t \in Updates, l \in Lists : Result(t, l)

\* The threads and LoadLists run on, and the UI thread looks at its messages; the user, the
\* network and the calendar need not do anything.
Fairness ==
    /\ \A t \in Updates : WF_vars(~Overlap /\ Step(t)) /\ WF_vars(~Overlap /\ ClosedByThread(t))
    /\ WF_vars(~Overlap /\ Loads)
    /\ WF_vars(~Overlap /\ ModalEnds)

Spec == Init /\ [][Next]_vars /\ Fairness

-----------------------------------------------------------------------------
(* Properties *)

\* Every variable has its type; only what a thread has open is being transferred.
TypeOK ==
    /\ updater \in {-1, 0} \cup Updates
    /\ ut \in [aborted : BOOLEAN, changes : BOOLEAN, win : {0} \cup Updates]
    /\ win \in [Updates -> {"none", "modal", "hidden", "shown", "ending", "gone"}]
    /\ timer \subseteq Updates
    /\ pc \in [Updates -> {"none", "setup", "poll", "read", "cleanup", "enable", "finish",
                           "asking", "done", "dead"}]
    /\ temp \in [Lists -> SUBSET Updates]
    /\ \A l \in Lists : \A t \in temp[l] : pc[t] \in {"poll", "read", "cleanup", "dead"}
    /\ left \subseteq Lists /\ stale \subseteq Lists /\ unread \subseteq Lists
    /\ modal \in {0} \cup Updates /\ dying \in {0} \cup Updates
    /\ load \in {"no", "dialog", "alone", "hung"}
    /\ due \in BOOLEAN /\ cut \subseteq {"closed", "taken", "counted"}

\* One update at a time, as g_lastupdatelock is to ensure, until the user closes a window
\* whose thread works, or the countdown closes one.
OneUpdate == Overlap => "closed" \in cut \/ "counted" \in cut

\* "to ensure that nobody else is attempting to check for updates ... while a list-update is
\* already in progress" (updatelists.cpp:1444): two threads never work at once.
OneAtATime == ~Overlap

\* When every thread is through and the UI thread idle, the driver has the lists as they are
\* on the disk, unless a window was closed while its thread went on, or another update took
\* g_ut over.
ChangesLoaded ==
    /\ load = "no" /\ modal = 0 /\ updater = 0
    /\ Busy = {} /\ cut \subseteq {"counted"}
    => stale = {}

\* A temporary file is on the disk only as long as somebody has it open: a thread that
\* works, or one that an exception ended.
TempsRemoved == \A l \in left : temp[l] # {}

\* A working thread whose update is aborted stops, unless the UI thread hangs or a second
\* one starts.
AbortEnds ==
    \A t \in Updates :
        (pc[t] \in {"poll", "read"} /\ ut.aborted /\ ~Overlap) ~>
            (pc[t] \notin {"poll", "read"} \/ Overlap \/ load = "hung")

\* The hidden window of an automatic update goes when its thread is through, so that
\* g_updater lets the next update in, unless the user has it shown.
HiddenGoes ==
    \A t \in Updates :
        (pc[t] = "enable" /\ win[t] = "hidden") ~>
            (win[t] # "hidden" \/ "taken" \in cut \/ load = "hung")
=============================================================================
