-------------------------- MODULE ListUpdateProofs --------------------------
(***************************************************************************)
(* Theorems about ListUpdate for any number of lists and updates: types,   *)
(* that no temporary file is left behind by an update that runs to its     *)
(* end, that two threads do not work at once until a window is closed      *)
(* under its thread, and that what was downloaded gets to the driver.      *)
(***************************************************************************)
EXTENDS ListUpdate, FiniteSetTheorems, TLAPS

-----------------------------------------------------------------------------
(***************************************************************************)
(* Types, of the windows and of the threads.                               *)
(***************************************************************************)

Pcs  == {"none", "setup", "poll", "read", "cleanup", "enable", "finish", "asking", "done", "dead"}
Wins == {"none", "modal", "hidden", "shown", "ending", "gone"}

WindowsOK ==
    /\ updater \in {-1, 0} \cup Updates
    /\ ut \in [aborted : BOOLEAN, changes : BOOLEAN, win : {0} \cup Updates]
    /\ win \in [Updates -> Wins]
    /\ timer \subseteq Updates
    /\ modal \in {0} \cup Updates /\ dying \in {0} \cup Updates
    /\ load \in {"no", "dialog", "alone", "hung"} /\ unread \subseteq Lists
    /\ due \in BOOLEAN /\ cut \subseteq {"closed", "taken", "counted"}

ThreadsOK ==
    /\ pc \in [Updates -> Pcs]
    /\ temp \in [Lists -> SUBSET Updates]
    /\ \A l \in Lists : \A t \in temp[l] : pc[t] \in {"poll", "read", "cleanup", "dead"}
    /\ left \subseteq Lists /\ stale \subseteq Lists

LEMMA TypeParts == TypeOK <=> WindowsOK /\ ThreadsOK
  BY DEF TypeOK, WindowsOK, ThreadsOK, Pcs, Wins

\* As soon as there is a thread, g_ut has a window.
Named == ut.win = 0 => \A t \in Updates : pc[t] = "none"

LEMMA InitTyped == Init => TypeOK /\ Named
<1> SUFFICES ASSUME Init PROVE TypeOK /\ Named
  OBVIOUS
<1>1. WindowsOK
  BY DEF Init, WindowsOK, Wins
<1>2. ThreadsOK
  BY DEF Init, ThreadsOK, Pcs
<1>3. Named
  BY DEF Init, Named
<1>4. QED
  BY <1>1, <1>2, <1>3, TypeParts

\* A thread that runs has a window.
LEMMA HasWindow ==
    ASSUME WindowsOK, Named, NEW t \in Updates, pc[t] # "none"
    PROVE  ut.win \in Updates
  BY DEF WindowsOK, Named

\* The window's side of the actions.
LEMMA OnDestroyTyped ==
    ASSUME WindowsOK, NEW u \in Updates, NEW upd \in {-1, 0} \cup Updates, OnDestroy(u, upd)
    PROVE  /\ updater' \in {-1, 0} \cup Updates /\ win' \in [Updates -> Wins]
           /\ modal' \in {0} \cup Updates /\ dying' \in {0} \cup Updates
           /\ load' \in {"no", "dialog", "alone", "hung"} /\ unread' \subseteq Lists
           /\ due' \in BOOLEAN
  BY DEF WindowsOK, OnDestroy, Destroyed, Wins

LEMMA CloseTyped ==
    ASSUME WindowsOK, NEW u \in Updates, NEW upd \in {-1, 0} \cup Updates, CloseWindow(u, upd)
    PROVE  /\ updater' \in {-1, 0} \cup Updates /\ win' \in [Updates -> Wins]
           /\ modal' \in {0} \cup Updates /\ dying' \in {0} \cup Updates
           /\ load' \in {"no", "dialog", "alone", "hung"} /\ unread' \subseteq Lists
           /\ due' \in BOOLEAN
<1>1. CASE u = modal /\ load = "dialog"
  BY <1>1 DEF CloseWindow, EndDialog, WindowsOK, Wins, loading
<1>2. CASE ~(u = modal /\ load = "dialog")
  BY <1>2, OnDestroyTyped DEF CloseWindow
<1>3. QED
  BY <1>1, <1>2

LEMMA WindowsTyped == WindowsOK /\ Named /\ [Next]_vars => WindowsOK'
<1> SUFFICES ASSUME WindowsOK, Named, [Next]_vars PROVE WindowsOK'
  OBVIOUS
<1>1. ASSUME NEW u \in Updates, UpdateLists(u) PROVE WindowsOK'
  BY <1>1 DEF WindowsOK, UpdateLists, OnInitDialog, TakeOver, loading, Wins
<1>2. CASE ShowUpdate
  BY <1>2 DEF WindowsOK, ShowUpdate, Wins
<1>3. ASSUME NEW u \in Updates, AutoUpdate(u) PROVE WindowsOK'
  BY <1>3 DEF WindowsOK, AutoUpdate, OnInitDialog, TakeOver, loading, Wins
<1>4. CASE DaysPass
  BY <1>4 DEF WindowsOK, DaysPass, windows, loading
<1>5. ASSUME NEW u \in Updates, OnClose(u) PROVE WindowsOK'
  <2>1. CloseWindow(u, updater) /\ updater \in {-1, 0} \cup Updates
    BY <1>5 DEF OnClose, WindowsOK
  <2>2. ut' \in [aborted : BOOLEAN, changes : BOOLEAN, win : {0} \cup Updates]
    BY <1>5 DEF OnClose, WindowsOK
  <2>3. timer' = timer /\ cut' \subseteq {"closed", "taken", "counted"}
    BY <1>5 DEF OnClose, WindowsOK
  <2>4. QED
    BY <2>1, <2>2, <2>3, CloseTyped DEF WindowsOK
<1>6. ASSUME NEW u \in Updates, OnAbort(u) PROVE WindowsOK'
  BY <1>6 DEF WindowsOK, OnAbort, windows, loading
<1>7. ASSUME NEW u \in Updates, OnTimer(u) PROVE WindowsOK'
  <2>1. timer' \subseteq Updates /\ ut' = ut /\ cut' = cut
    BY <1>7 DEF OnTimer, WindowsOK
  <2>2. CASE Visible(u)
    BY <1>7, <2>1, <2>2, CloseTyped DEF OnTimer, WindowsOK
  <2>3. CASE ~Visible(u)
    BY <1>7, <2>1, <2>3 DEF OnTimer, WindowsOK, loading
  <2>4. QED
    BY <2>2, <2>3
<1>8. CASE ModalEnds
  <2>1. modal \in Updates /\ updater \in {-1, 0} \cup Updates /\ OnDestroy(modal, updater)
    BY <1>8 DEF ModalEnds, WindowsOK
  <2>2. QED
    BY <1>8, <2>1, OnDestroyTyped DEF ModalEnds, WindowsOK
<1>9. ASSUME NEW t \in Updates, ClosedByThread(t) PROVE WindowsOK'
  <2>1. ut' \in [aborted : BOOLEAN, changes : BOOLEAN, win : {0} \cup Updates]
    BY <1>9 DEF ClosedByThread, WindowsOK
  <2>2. timer' = timer /\ cut' = cut
    BY <1>9 DEF ClosedByThread
  <2>3. ut.win \in Updates
    BY <1>9, HasWindow DEF ClosedByThread
  <2>4. CASE win[ut.win] \in {"hidden", "shown"} /\ dying # ut.win
    BY <1>9, <2>1, <2>2, <2>3, <2>4, OnDestroyTyped DEF ClosedByThread, WindowsOK
  <2>5. CASE ~(win[ut.win] \in {"hidden", "shown"} /\ dying # ut.win)
    BY <1>9, <2>2, <2>5 DEF ClosedByThread, WindowsOK, loading
  <2>6. QED
    BY <2>4, <2>5
<1>10. CASE Reload
  BY <1>10 DEF WindowsOK, Reload, windows
<1>11. ASSUME NEW l \in Lists, ReadList(l) PROVE WindowsOK'
  BY <1>11 DEF WindowsOK, ReadList, windows
<1>12. CASE Loaded
  <2>1. ut' = ut /\ timer' = timer /\ cut' = cut
    BY <1>12 DEF Loaded
  <2>2. CASE dying # 0
    BY <1>12, <2>1, <2>2 DEF Loaded, Destroyed, WindowsOK, Wins
  <2>3. CASE dying = 0
    BY <1>12, <2>1, <2>3 DEF Loaded, WindowsOK
  <2>4. QED
    BY <2>2, <2>3
<1>13. ASSUME NEW t \in Updates,
              Setup(t) \/ SetupThrows(t) \/ Poll(t) \/ ReadAll(t) \/ Cleanup(t) \/ Enable(t)
              \/ FinishHidden(t)
       PROVE  WindowsOK'
  BY <1>13 DEF WindowsOK, Setup, SetupThrows, Poll, ReadAll, Cleanup, Enable, FinishHidden,
       uiState, loading
<1>14. ASSUME NEW t \in Updates, FinishVisible(t) PROVE WindowsOK'
  <2>1. ut.win \in Updates
    BY <1>14, HasWindow DEF FinishVisible
  <2>2. win' \in [Updates -> Wins]
    BY <1>14 DEF FinishVisible, WindowsOK, Wins
  <2>3. timer' \subseteq Updates
    BY <1>14, <2>1 DEF FinishVisible, WindowsOK
  <2>4. QED
    BY <1>14, <2>2, <2>3 DEF FinishVisible, WindowsOK, loading
<1>15. ASSUME NEW t \in Updates, NEW l \in Lists, Result(t, l) PROVE WindowsOK'
  BY <1>15 DEF WindowsOK, Result, uiState, loading
<1>16. CASE UNCHANGED vars
  BY <1>16 DEF WindowsOK, vars, windows, loading
<1>17. QED
  BY <1>1, <1>2, <1>3, <1>4, <1>5, <1>6, <1>7, <1>8, <1>9, <1>10, <1>11, <1>12, <1>13, <1>14,
     <1>15, <1>16 DEF Next, Window, Loads, Step

\* A new thread is in nobody's way.
LEMMA ThreadStarts ==
    ASSUME ThreadsOK, NEW u \in Updates, NEW kind, OnInitDialog(u, kind), UNCHANGED files
    PROVE  ThreadsOK'
  BY DEF ThreadsOK, OnInitDialog, files, Pcs

\* A thread that goes on keeps what is about the others.
LEMMA ThreadMoves ==
    ASSUME ThreadsOK, NEW t \in Updates, NEW at \in Pcs, Goto(t, at),
           temp' \in [Lists -> SUBSET Updates],
           \A l \in Lists : temp'[l] \subseteq temp[l] \cup {t},
           at \in {"poll", "read", "cleanup", "dead"} \/ \A l \in Lists : t \notin temp'[l],
           left' \subseteq Lists, stale' \subseteq Lists
    PROVE  ThreadsOK'
<1>1. pc' \in [Updates -> Pcs] /\ pc'[t] = at
  BY DEF ThreadsOK, Goto
<1>2. \A u \in Updates : u # t => pc'[u] = pc[u]
  BY DEF ThreadsOK, Goto
<1>3. ASSUME NEW l \in Lists, NEW u \in temp'[l]
      PROVE  pc'[u] \in {"poll", "read", "cleanup", "dead"}
  <2>1. CASE u = t
    BY <1>1, <1>3, <2>1
  <2>2. CASE u # t
    <3>1. u \in temp[l] /\ u \in Updates
      BY <1>3, <2>2 DEF ThreadsOK
    <3>2. QED
      BY <1>2, <2>2, <3>1 DEF ThreadsOK
  <2>3. QED
    BY <2>1, <2>2
<1>4. QED
  BY <1>1, <1>3 DEF ThreadsOK

LEMMA ThreadsTyped == ThreadsOK /\ [Next]_vars => ThreadsOK'
<1> SUFFICES ASSUME ThreadsOK, [Next]_vars PROVE ThreadsOK'
  OBVIOUS
<1>1. ASSUME NEW u \in Updates, UpdateLists(u) \/ AutoUpdate(u) PROVE ThreadsOK'
  BY <1>1, ThreadStarts DEF UpdateLists, AutoUpdate
<1>2. CASE UNCHANGED <<pc, files>>
  BY <1>2 DEF ThreadsOK, files
<1>3. ASSUME NEW u \in Updates, OnClose(u) \/ OnAbort(u) \/ OnTimer(u) PROVE ThreadsOK'
  BY <1>2, <1>3 DEF OnClose, OnAbort, OnTimer
<1>4. CASE ShowUpdate \/ DaysPass \/ ModalEnds \/ Reload \/ Loaded
  BY <1>2, <1>4 DEF ShowUpdate, DaysPass, ModalEnds, Reload, Loaded
<1>5. ASSUME NEW l \in Lists, ReadList(l) PROVE ThreadsOK'
  BY <1>5 DEF ThreadsOK, ReadList
<1>6. ASSUME NEW t \in Updates, Setup(t) PROVE ThreadsOK'
  <2>1. pc[t] = "setup" /\ stale' = stale
    BY <1>6 DEF Setup
  <2>2. \A l \in Lists : t \notin temp[l]
    BY <2>1 DEF ThreadsOK
  <2>3. PICK todo \in SUBSET Lists :
          /\ temp' = [l \in Lists |-> IF l \in todo THEN temp[l] \cup {t} ELSE temp[l]]
          /\ left' = left \cup todo
          /\ IF todo = {} THEN Goto(t, "enable") ELSE Goto(t, "poll")
    BY <1>6 DEF Setup
  <2>4. /\ temp' \in [Lists -> SUBSET Updates]
        /\ \A l \in Lists : temp'[l] \subseteq temp[l] \cup {t}
        /\ left' \subseteq Lists /\ stale' \subseteq Lists
    BY <2>1, <2>3 DEF ThreadsOK
  <2>5. CASE todo = {}
    <3>1. \A l \in Lists : t \notin temp'[l]
      BY <2>2, <2>3, <2>5
    <3>2. QED
      BY <2>3, <2>4, <2>5, <3>1, ThreadMoves DEF Pcs
  <2>6. CASE todo # {}
    BY <2>3, <2>4, <2>6, ThreadMoves DEF Pcs
  <2>7. QED
    BY <2>5, <2>6
<1>7. ASSUME NEW t \in Updates, SetupThrows(t) PROVE ThreadsOK'
  <2>1. /\ temp' \in [Lists -> SUBSET Updates]
        /\ \A l \in Lists : temp'[l] \subseteq temp[l] \cup {t}
        /\ left' \subseteq Lists /\ stale' \subseteq Lists
    BY <1>7 DEF ThreadsOK, SetupThrows
  <2>2. QED
    BY <1>7, <2>1, ThreadMoves DEF SetupThrows, Pcs
<1>8. ASSUME NEW t \in Updates, Poll(t) \/ ReadAll(t) PROVE ThreadsOK'
  BY <1>8, ThreadMoves DEF ThreadsOK, Poll, ReadAll, files, Pcs
<1>9. ASSUME NEW t \in Updates, NEW l \in Lists, Result(t, l) PROVE ThreadsOK'
  BY <1>9 DEF ThreadsOK, Result
<1>10. ASSUME NEW t \in Updates, Cleanup(t) PROVE ThreadsOK'
  <2>1. /\ temp' \in [Lists -> SUBSET Updates]
        /\ \A l \in Lists : temp'[l] \subseteq temp[l] /\ t \notin temp'[l]
        /\ left' \subseteq Lists /\ stale' \subseteq Lists
    BY <1>10 DEF ThreadsOK, Cleanup
  <2>2. QED
    BY <1>10, <2>1, ThreadMoves DEF Cleanup, Pcs
<1>11. ASSUME NEW t \in Updates, Enable(t) \/ FinishHidden(t) \/ FinishVisible(t) \/ ClosedByThread(t)
       PROVE  ThreadsOK'
  <2>1. pc[t] \in {"enable", "finish", "asking"} /\ UNCHANGED files
    BY <1>11 DEF Enable, FinishHidden, FinishVisible, ClosedByThread
  <2>2. Goto(t, "finish") \/ Goto(t, "asking") \/ Goto(t, "done")
    BY <1>11 DEF Enable, FinishHidden, FinishVisible, ClosedByThread, Goto
  <2>3. \A l \in Lists : t \notin temp[l]
    BY <2>1 DEF ThreadsOK
  <2>4. QED
    BY <2>1, <2>2, <2>3, ThreadMoves DEF ThreadsOK, files, Pcs
<1>12. QED
  BY <1>1, <1>2, <1>3, <1>4, <1>5, <1>6, <1>7, <1>8, <1>9, <1>10, <1>11
     DEF Next, Window, Loads, Step, vars

LEMMA NamedNext == WindowsOK /\ ThreadsOK /\ Named /\ [Next]_vars => Named'
<1> SUFFICES ASSUME WindowsOK, ThreadsOK, Named, [Next]_vars PROVE Named'
  OBVIOUS
<1>1. ASSUME NEW u \in Updates, UpdateLists(u) \/ AutoUpdate(u) PROVE Named'
  BY <1>1 DEF Named, UpdateLists, AutoUpdate, OnInitDialog, Updates
<1>2. ASSUME ut'.win = ut.win, \A t \in Updates : pc[t] = "none" => pc'[t] = "none" PROVE Named'
  BY <1>2 DEF Named
<1>3. CASE UNCHANGED <<ut, pc>>
  BY <1>3 DEF Named
<1>4. ASSUME NEW u \in Updates, OnClose(u) \/ OnAbort(u) \/ OnTimer(u) PROVE Named'
  <2>1. ut'.win = ut.win /\ pc' = pc
    BY <1>4 DEF OnClose, OnAbort, OnTimer, WindowsOK
  <2>2. QED
    BY <1>2, <2>1
<1>5. CASE ShowUpdate \/ DaysPass \/ ModalEnds \/ Reload \/ Loads
  BY <1>3, <1>5 DEF ShowUpdate, DaysPass, ModalEnds, Reload, Loads, Loaded, ReadList
<1>6. ASSUME NEW t \in Updates, Step(t) \/ ClosedByThread(t) \/ \E l \in Lists : Result(t, l)
      PROVE  Named'
  <2>1. ut.win \in Updates
    BY <1>6, HasWindow DEF Step, Setup, SetupThrows, Poll, ReadAll, Cleanup, Enable, FinishVisible,
       FinishHidden, ClosedByThread, Result
  <2>2. ut'.win = ut.win
    BY <1>6 DEF Step, Setup, SetupThrows, Poll, ReadAll, Cleanup, Enable, FinishVisible,
       FinishHidden, ClosedByThread, Result, WindowsOK
  <2>3. QED
    BY <2>1, <2>2 DEF Named, Updates
<1>7. QED
  BY <1>1, <1>3, <1>4, <1>5, <1>6 DEF Next, Window, vars

LEMMA TypedNext == TypeOK /\ Named /\ [Next]_vars => TypeOK' /\ Named'
<1>1. WindowsOK' /\ ThreadsOK' => TypeOK'
  BY DEF TypeOK, WindowsOK, ThreadsOK, Pcs, Wins
<1>2. QED
  BY <1>1, TypeParts, WindowsTyped, ThreadsTyped, NamedNext

\* Every variable keeps its type however windows, threads and loading interleave; a thread has
\* temporary files open only while it works or when an exception has ended it
\* (updatelists.cpp:711, :1057, :1147).
THEOREM ListUpdateTyped == Spec => []TypeOK
  BY InitTyped, TypedNext, PTL DEF Spec

-----------------------------------------------------------------------------
(***************************************************************************)
(* Temporary files.                                                        *)
(***************************************************************************)

\* Whoever is in the middle of a download, and however many updates there have been: a
\* temporary file that nobody has open has been removed or moved away
\* (_Process, updatelists.cpp:951, :1057).
THEOREM TempsGo == Spec => []TempsRemoved
<1>1. Init => TempsRemoved
  BY DEF Init, TempsRemoved
<1>2. TypeOK /\ TempsRemoved /\ [Next]_vars => TempsRemoved'
  <2> SUFFICES ASSUME ThreadsOK, TempsRemoved, [Next]_vars PROVE TempsRemoved'
    BY TypeParts
  <2>1. CASE UNCHANGED <<temp, left>>
    BY <2>1 DEF TempsRemoved
  <2>2. ASSUME NEW t \in Updates, Setup(t) \/ SetupThrows(t) PROVE TempsRemoved'
    <3>1. PICK todo \in SUBSET Lists :
             /\ temp' = [l \in Lists |-> IF l \in todo THEN temp[l] \cup {t} ELSE temp[l]]
             /\ left' = left \cup todo
      BY <2>2 DEF Setup, SetupThrows
    <3>2. QED
      BY <3>1 DEF ThreadsOK, TempsRemoved
  <2>3. ASSUME NEW t \in Updates, NEW l \in Lists, Result(t, l) PROVE TempsRemoved'
    BY <2>3 DEF ThreadsOK, TempsRemoved, Result
  <2>4. ASSUME NEW t \in Updates, Cleanup(t) PROVE TempsRemoved'
    <3>1. ASSUME NEW l \in left' PROVE temp'[l] # {}
      <4>1. l \in left /\ l \in Lists /\ (t \in temp[l] => temp'[l] # {})
        BY <2>4, <3>1 DEF Cleanup, ThreadsOK
      <4>2. temp'[l] = temp[l] \ {t} /\ temp[l] # {}
        BY <2>4, <4>1 DEF Cleanup, TempsRemoved
      <4>3. QED
        BY <4>1, <4>2
    <3>2. QED
      BY <3>1 DEF TempsRemoved
  <2>5. ASSUME NEW u \in Updates,
               Window(u) \/ Poll(u) \/ ReadAll(u) \/ Enable(u) \/ FinishVisible(u) \/ FinishHidden(u)
               \/ ClosedByThread(u)
        PROVE  TempsRemoved'
    BY <2>1, <2>5 DEF Window, UpdateLists, AutoUpdate, OnClose, OnAbort, OnTimer, Poll, ReadAll,
         Enable, FinishVisible, FinishHidden, ClosedByThread, files
  <2>6. CASE ShowUpdate \/ DaysPass \/ ModalEnds \/ Reload \/ Loads
    BY <2>1, <2>6 DEF ShowUpdate, DaysPass, ModalEnds, Reload, Loads, Loaded, ReadList, files
  <2>7. QED
    BY <2>1, <2>2, <2>3, <2>4, <2>5, <2>6 DEF Next, Step, vars, files
<1>3. QED
  BY <1>1, <1>2, ListUpdateTyped, PTL DEF Spec

-----------------------------------------------------------------------------
(***************************************************************************)
(* One update at a time.  As long as no window was closed under a thread   *)
(* and none by the countdown, g_updater names the one window there is, and *)
(* a thread that works is that window's; so a new update, which wants      *)
(* g_updater to be NULL, finds no thread at work.                          *)
(***************************************************************************)

Quiet == cut \subseteq {"taken"}

Alive(u) == win[u] \in {"modal", "hidden", "shown", "ending"}

Alone ==
    /\ timer = {}
    /\ \A u \in Updates : win[u] \in {"hidden", "shown"} => updater = u
    /\ \A u \in Updates : win[u] \in {"modal", "ending"} => updater = -1 /\ modal = u
    /\ modal # 0 => updater = -1
    /\ \A u \in Busy : u = ut.win /\ Alive(u) /\ win[u] # "ending"
    /\ dying # 0 => Busy = {} /\ Alive(dying)

AloneInv == Quiet => Alone

LEMMA AloneInit == Init => AloneInv
  BY DEF Init, AloneInv, Alone, Busy

\* Only one window is alive, and while one is, g_updater is not NULL.
LEMMA OneWindow ==
    ASSUME WindowsOK, Alone, NEW u \in Updates, Alive(u)
    PROVE  /\ updater # 0
           /\ \A v \in Updates : Alive(v) => v = u
           /\ modal # 0 => modal = u
  BY DEF WindowsOK, Alone, Alive, Updates

\* No window is alive, and no thread busy, when g_updater is NULL.
LEMMA NoWindow ==
    ASSUME WindowsOK, Alone, updater = 0
    PROVE  /\ \A u \in Updates : ~Alive(u)
           /\ Busy = {} /\ dying = 0 /\ modal = 0
<1>1. \A u \in Updates : ~Alive(u)
  BY OneWindow
<1>2. Busy \subseteq Updates
  BY DEF Busy
<1>3. Busy = {}
  BY <1>1, <1>2 DEF Alone
<1>4. dying = 0
  BY <1>1 DEF WindowsOK, Alone
<1>5. QED
  BY <1>1, <1>3, <1>4 DEF Alone

\* A window is opened.
LEMMA WindowOpens ==
    ASSUME WindowsOK, ThreadsOK, Alone, updater = 0,
           NEW u \in Updates, NEW kind \in {"modal", "hidden"}, OnInitDialog(u, kind),
           timer' = timer, dying' = dying,
           kind = "modal" => updater' = -1 /\ modal' = u,
           kind = "hidden" => updater' = u /\ modal' = modal
    PROVE  Alone'
<1>1. (\A v \in Updates : ~Alive(v)) /\ Busy = {} /\ dying = 0 /\ modal = 0
  BY NoWindow
<1>2. win' = [win EXCEPT ![u] = kind] /\ pc' = [pc EXCEPT ![u] = "setup"] /\ ut'.win = u
  BY DEF OnInitDialog
<1>3. \A v \in Updates : v # u => win'[v] = win[v]
  BY <1>2 DEF WindowsOK
<1>4. win'[u] = kind
  BY <1>2 DEF WindowsOK
<1>5. Busy' = {u}
  BY <1>1, <1>2 DEF Busy, ThreadsOK
<1>6. \A v \in Updates : win[v] \notin {"modal", "hidden", "shown", "ending"}
  BY <1>1 DEF Alive
<1>7. timer' = {}
  BY DEF Alone
<1>8. \A v \in Updates : v # u => win'[v] \notin {"modal", "hidden", "shown", "ending"}
  BY <1>3, <1>6
<1>9. dying' = 0 /\ ut'.win = u
  BY <1>1, <1>2
<1>10. CASE kind = "modal"
  BY <1>4, <1>5, <1>7, <1>8, <1>9, <1>10 DEF Alone, Alive
<1>11. CASE kind = "hidden"
  BY <1>1, <1>4, <1>5, <1>7, <1>8, <1>9, <1>11 DEF Alone, Alive
<1>12. QED
  BY <1>10, <1>11

\* A window goes, with its thread through: it was the only one.
LEMMA WindowGoes ==
    ASSUME WindowsOK, Alone, NEW u \in Updates, Alive(u), Destroyed(u), Busy' = {}, timer' = timer
    PROVE  Alone'
<1>1. (\A v \in Updates : Alive(v) => v = u) /\ (modal # 0 => modal = u)
  BY OneWindow
<1>2. \A v \in Updates : v # u => win'[v] = win[v]
  BY DEF Destroyed, WindowsOK
<1>3. win'[u] = "gone"
  BY DEF Destroyed, WindowsOK
<1>4. \A v \in Updates : ~Alive(v)'
  BY <1>1, <1>2, <1>3 DEF Alive
<1>5. modal' = 0
  BY <1>1 DEF Destroyed
<1>6. dying # 0 => dying = u
  BY <1>1 DEF Alone, WindowsOK
<1>7. dying' = 0
  BY <1>6 DEF Destroyed
<1>8. timer' = {}
  BY DEF Alone
<1>9. QED
  BY <1>4, <1>5, <1>7, <1>8 DEF Alone, Alive

\* A window is being destroyed, with its thread through.
LEMMA WindowDestroyed ==
    ASSUME WindowsOK, Alone, NEW u \in Updates, Alive(u), OnDestroy(u, updater), Busy' = {},
           timer' = timer
    PROVE  Alone'
<1>1. CASE ~ut.changes
  BY <1>1, WindowGoes DEF OnDestroy
<1>2. CASE ut.changes
  <2>1. win' = win /\ modal' = modal /\ updater' = updater /\ dying' = u
    BY <1>2 DEF OnDestroy
  <2>2. QED
    BY <2>1 DEF Alone, Alive
<1>3. QED
  BY <1>1, <1>2

\* A thread goes on.
LEMMA ThreadGoesOn ==
    ASSUME ThreadsOK, Alone, NEW t \in Updates, pc[t] \notin {"none", "done", "dead"},
           NEW at \in Pcs, Goto(t, at), ut'.win = ut.win, UNCHANGED <<updater, win, modal, dying, timer>>
    PROVE  Alone'
<1>1. Busy' \subseteq Busy
  BY DEF Busy, Goto, ThreadsOK
<1>2. QED
  BY <1>1 DEF Alone, Alive

LEMMA AloneNext == WindowsOK /\ ThreadsOK /\ Named /\ AloneInv /\ [Next]_vars => AloneInv'
<1> SUFFICES ASSUME WindowsOK, ThreadsOK, Named, AloneInv, [Next]_vars, Quiet' PROVE Alone'
  BY DEF AloneInv
<1>0. ASSUME cut \subseteq cut' PROVE Alone
  BY <1>0 DEF AloneInv, Quiet
<1>1. ASSUME NEW u \in Updates, UpdateLists(u) PROVE Alone'
  <2>1. Alone
    BY <1>0, <1>1 DEF UpdateLists, TakeOver
  <2>2. QED
    BY <1>1, <2>1, WindowOpens DEF UpdateLists, loading
<1>2. CASE ShowUpdate
  <2>1. Alone
    BY <1>0, <1>2 DEF ShowUpdate
  <2>2. updater \in Updates /\ win' = [win EXCEPT ![updater] = "shown"]
    BY <1>2 DEF ShowUpdate, WindowsOK
  <2>3. /\ \A v \in Updates : v # updater => win'[v] = win[v]
        /\ win'[updater] = "shown"
    BY <2>2 DEF WindowsOK
  <2>4. Busy' = Busy /\ UNCHANGED <<updater, ut, timer, modal, dying>>
    BY <1>2 DEF ShowUpdate, Busy
  <2>5. QED
    BY <2>1, <2>2, <2>3, <2>4 DEF Alone, Alive, WindowsOK, Busy, Updates
<1>3. ASSUME NEW u \in Updates, AutoUpdate(u) PROVE Alone'
  <2>1. Alone
    BY <1>0, <1>3 DEF AutoUpdate, TakeOver
  <2>2. QED
    BY <1>3, <2>1, WindowOpens DEF AutoUpdate, loading
<1>4. CASE UNCHANGED <<updater, ut, windows, pc, dying, cut>>
  BY <1>0, <1>4 DEF Alone, Alive, Busy, windows
<1>5. CASE DaysPass \/ Reload
  BY <1>4, <1>5 DEF DaysPass, Reload, loading
<1>6. ASSUME NEW u \in Updates, OnClose(u) PROVE Alone'
  <2>1. Alone /\ Busy = {}
    BY <1>0, <1>6 DEF OnClose, Quiet
  <2>2. Busy' = {} /\ timer' = timer /\ Alive(u)
    BY <1>6, <2>1 DEF OnClose, Busy, Visible, Alive
  <2>3. CASE u = modal /\ load = "dialog"
    <3>1. win' = [win EXCEPT ![u] = "ending"] /\ UNCHANGED <<updater, modal, dying>>
      BY <1>6, <2>3 DEF OnClose, CloseWindow, EndDialog, loading
    <3>2. /\ \A v \in Updates : v # u => win'[v] = win[v]
          /\ win'[u] = "ending"
      BY <3>1 DEF WindowsOK
    <3>3. updater = -1
      BY <2>1, <2>3 DEF Alone, Updates
    <3>4. QED
      BY <2>1, <2>2, <2>3, <3>1, <3>2, <3>3 DEF Alone, Alive
  <2>4. CASE ~(u = modal /\ load = "dialog")
    BY <1>6, <2>1, <2>2, <2>4, WindowDestroyed DEF OnClose, CloseWindow
  <2>5. QED
    BY <2>3, <2>4
<1>7. ASSUME NEW u \in Updates, OnAbort(u) PROVE Alone'
  <2>1. ut'.win = ut.win /\ UNCHANGED <<updater, windows, pc, dying, cut>>
    BY <1>7 DEF OnAbort, WindowsOK, loading
  <2>2. QED
    BY <1>0, <2>1 DEF Alone, Alive, Busy, windows
<1>8. ASSUME NEW u \in Updates, OnTimer(u) PROVE Alone'
  <2>1. Alone /\ u \in timer
    BY <1>0, <1>8 DEF OnTimer
  <2>2. QED
    BY <2>1 DEF Alone
<1>9. CASE ModalEnds
  <2>1. Alone /\ modal \in Updates /\ win[modal] = "ending"
    BY <1>0, <1>9 DEF ModalEnds, WindowsOK
  <2>2. Alive(modal)
    BY <2>1 DEF Alive
  <2>3. Busy \subseteq Updates
    BY DEF Busy
  <2>4. Busy = {}
    BY <2>1, <2>2, <2>3, OneWindow DEF Alone
  <2>5. Busy' = {} /\ timer' = timer
    BY <1>9, <2>4 DEF ModalEnds, Busy
  <2>6. QED
    BY <1>9, <2>1, <2>2, <2>5, WindowDestroyed DEF ModalEnds
<1>10. ASSUME NEW t \in Updates, ClosedByThread(t) PROVE Alone'
  <2>1. Alone /\ pc[t] = "asking"
    BY <1>0, <1>10 DEF ClosedByThread
  <2>2. t \in Busy
    BY <2>1 DEF Busy
  <2>3. t = ut.win
    BY <2>1, <2>2 DEF Alone
  <2>4. pc' = [pc EXCEPT ![t] = "done"] /\ timer' = timer
    BY <1>10 DEF ClosedByThread
  <2>5. Busy' = {}
    BY <2>1, <2>3, <2>4 DEF Alone, Busy, ThreadsOK
  <2>6. CASE win[ut.win] \in {"hidden", "shown"} /\ dying # ut.win
    <3>1. Alive(t) /\ OnDestroy(t, updater)
      BY <1>10, <2>3, <2>6 DEF ClosedByThread, Alive
    <3>2. QED
      BY <2>1, <2>4, <2>5, <3>1, WindowDestroyed
  <2>7. CASE ~(win[ut.win] \in {"hidden", "shown"} /\ dying # ut.win)
    <3>1. UNCHANGED <<ut, updater, win, modal, dying>>
      BY <1>10, <2>7 DEF ClosedByThread, loading
    <3>2. QED
      BY <2>1, <2>4, <2>5, <3>1 DEF Alone, Alive
  <2>8. QED
    BY <2>6, <2>7
<1>11. ASSUME NEW l \in Lists, ReadList(l) PROVE Alone'
  BY <1>4, <1>11 DEF ReadList
<1>12. CASE Loaded
  <2>1. Alone /\ timer' = timer
    BY <1>0, <1>12 DEF Loaded
  <2>2. CASE dying # 0
    <3>1. dying \in Updates /\ Alive(dying) /\ Busy = {} /\ Destroyed(dying)
      BY <1>12, <2>1, <2>2 DEF Loaded, Alone, WindowsOK
    <3>2. Busy' = {}
      BY <1>12, <3>1 DEF Loaded, Busy
    <3>3. QED
      BY <2>1, <3>1, <3>2, WindowGoes
  <2>3. CASE dying = 0
    BY <1>4, <1>12, <2>3 DEF Loaded, windows
  <2>4. QED
    BY <2>2, <2>3
<1>13. ASSUME NEW t \in Updates,
              Setup(t) \/ SetupThrows(t) \/ Poll(t) \/ ReadAll(t) \/ Cleanup(t) \/ Enable(t)
              \/ FinishHidden(t)
       PROVE  Alone'
  <2>1. UNCHANGED <<uiState, ut, timer>> /\ pc[t] \notin {"none", "done", "dead"}
    BY <1>13 DEF Setup, SetupThrows, Poll, ReadAll, Cleanup, Enable, FinishHidden
  <2>2. \E at \in Pcs : Goto(t, at)
    BY <1>13 DEF Setup, SetupThrows, Poll, ReadAll, Cleanup, Enable, FinishHidden, Pcs
  <2>3. Alone
    BY <1>0, <2>1 DEF uiState
  <2>4. QED
    BY <2>1, <2>2, <2>3, ThreadGoesOn DEF uiState, loading
<1>14. ASSUME NEW t \in Updates, FinishVisible(t) PROVE Alone'
  <2>1. UNCHANGED <<updater, ut, modal, loading, win, timer, cut>>
    BY <1>14 DEF FinishVisible, Quiet
  <2>2. pc[t] = "finish" /\ Goto(t, "done")
    BY <1>14 DEF FinishVisible
  <2>3. QED
    BY <1>0, <2>1, <2>2, ThreadGoesOn DEF Pcs, loading
<1>15. ASSUME NEW t \in Updates, NEW l \in Lists, Result(t, l) PROVE Alone'
  <2>1. ut'.win = ut.win /\ UNCHANGED <<uiState, pc, timer>>
    BY <1>15 DEF Result, WindowsOK
  <2>2. QED
    BY <1>0, <2>1 DEF uiState, loading, Alone, Alive, Busy
<1>16. CASE UNCHANGED vars
  BY <1>4, <1>16 DEF vars, loading
<1>17. QED
  BY <1>1, <1>2, <1>3, <1>5, <1>6, <1>7, <1>8, <1>9, <1>10, <1>11, <1>12, <1>13, <1>14,
     <1>15, <1>16 DEF Next, Window, Loads, Step

\* For any number of lists and updates: two update threads work at once only after the user
\* has closed a window whose thread worked, or a countdown has closed one; g_lastupdatelock and
\* g_updater keep them apart otherwise (UpdateLists, updatelists.cpp:1439).
THEOREM OneAtOnce == Spec => []OneUpdate
<1>1. TypeOK /\ AloneInv => OneUpdate
  <2> SUFFICES ASSUME WindowsOK, AloneInv, Quiet PROVE ~Overlap
    BY TypeParts DEF OneUpdate, Quiet, WindowsOK
  <2>1. Working \subseteq {ut.win}
    BY DEF AloneInv, Alone, Working, Busy
  <2>2. IsFiniteSet({ut.win}) /\ Cardinality({ut.win}) = 1
    BY FS_Singleton
  <2>3. Cardinality(Working) <= 1
    BY <2>1, <2>2, FS_Subset
  <2>4. Cardinality(Working) \in Nat
    BY <2>1, <2>2, FS_Subset, FS_CardinalityType
  <2>5. QED
    BY <2>3, <2>4 DEF Overlap
<1>2. TypeOK /\ Named /\ AloneInv /\ [Next]_vars => AloneInv'
  BY TypeParts, AloneNext
<1>3. QED
  BY InitTyped, AloneInit, TypedNext, <1>1, <1>2, PTL DEF Spec

-----------------------------------------------------------------------------
(***************************************************************************)
(* What was downloaded is loaded.  A list with a newer file is either      *)
(* still to be read by the LoadLists that runs, or there is a window whose *)
(* OnDestroy will call it.  The latter has to be shown of the whole        *)
(* lifetime of a window, also while a countdown has made g_updater NULL    *)
(* and a second window is opened inside the first one's LoadLists.         *)
(***************************************************************************)

Calm == cut \subseteq {"counted"} /\ load # "hung"

\* The window of g_ut has its OnDestroy still to come.
Live == ut.win \in Updates /\ Alive(ut.win) /\ dying # ut.win

Idle == load = "no" => unread = {} /\ dying = 0

DyingWindow ==
    dying # 0 => Alive(dying) /\ (dying = modal \/ (load = "alone" /\ dying = ut.win))

ModalWindow ==
    /\ modal # 0 => win[modal] \in {"modal", "ending"}
    /\ \A u \in Updates : win[u] \in {"modal", "ending"} => u = modal

BusyThread ==
    \A u \in Busy :
        /\ u = ut.win /\ win[u] \in {"modal", "hidden", "shown"} /\ dying # u
        /\ pc[u] = "asking" => win[u] # "modal"
        /\ pc[u] = "setup" => ~ut.changes

VisibleWindow ==
    \A u \in Updates : Visible(u) =>
        /\ u = ut.win /\ dying = 0
        /\ updater = IF win[u] = "modal" THEN -1 ELSE u
        /\ win[u] = "shown" => modal = 0

UpdaterWindow == updater > 0 => updater = ut.win /\ win[updater] \in {"hidden", "shown"}

Counting ==
    \A u \in timer :
        /\ pc[u] = "done" /\ win[u] # "hidden"
        /\ Alive(u) => u = ut.win /\ updater # 0 /\ Busy = {}

ToBeLoaded == \A l \in stale : l \in unread \/ (ut.changes /\ Live)

\* A hidden window whose thread ended without closing it has nothing to load.
HiddenDead == Live /\ win[ut.win] = "hidden" /\ Busy = {} => ~ut.changes

NotYet == \A u \in Updates : pc[u] = "none" <=> win[u] = "none"

Pending ==
    /\ NotYet /\ Idle /\ DyingWindow /\ ModalWindow /\ BusyThread /\ VisibleWindow
    /\ UpdaterWindow /\ Counting /\ ToBeLoaded /\ HiddenDead

PendingInv == Calm => Pending

LEMMA PendingInit == Init => PendingInv
<1> SUFFICES ASSUME Init PROVE Pending
  BY DEF PendingInv
<1>1. Busy = {}
  BY DEF Init, Busy
<1>2. QED
  BY <1>1 DEF Init, Pending, NotYet, Idle, DyingWindow, ModalWindow, BusyThread, VisibleWindow,
       Visible, UpdaterWindow, Counting, ToBeLoaded, HiddenDead, Live, Alive, Updates

\* A window is gone, after its LoadLists or without one.  It is the last that was opened, or
\* DialogBox's.
LEMMA PendingGone ==
    ASSUME WindowsOK, Pending, NEW u \in Updates, Destroyed(u),
           u = ut.win \/ (u = modal /\ dying \in {0, u}),
           dying = u => unread = {}, dying = u \/ ~ut.changes,
           u = modal => load = "no" \/ dying = u,
           ut'.win = ut.win, ut'.changes = ut.changes, stale' = stale,
           timer' \subseteq timer, u \notin Busy', dying = u => Busy' = Busy, Alive(u),
           \A v \in Updates : pc'[v] = pc[v] \/ (pc[v] # "none" /\ pc'[v] = "done")
    PROVE  Pending'
<1>1. win'[u] = "gone" /\ updater' = 0 /\ \A v \in Updates : v # u => win'[v] = win[v]
  BY DEF Destroyed, WindowsOK
<1>2. dying' = IF dying = u THEN 0 ELSE dying
  BY DEF Destroyed
<1>3. modal' = IF modal = u THEN 0 ELSE modal
  BY DEF Destroyed
<1>4. \A v \in Updates : Visible(v)' => v # u /\ Visible(v)
  BY <1>1, <1>2 DEF Visible
<1>5. \A v \in Updates : ~Visible(v)'
  <2> SUFFICES ASSUME NEW v \in Updates, Visible(v)' PROVE FALSE
    OBVIOUS
  <2>1. v # u /\ Visible(v) /\ v = ut.win
    BY <1>4 DEF Pending, VisibleWindow
  <2>2. u = modal /\ win[v] \in {"modal", "shown"}
    BY <2>1 DEF Visible
  <2>3. QED
    BY <2>1, <2>2 DEF Pending, VisibleWindow, ModalWindow, Updates
<1>6. Idle'
  BY <1>1, <1>2, <1>3 DEF Pending, Idle, DyingWindow, Destroyed
<1>0. NotYet'
  BY <1>1 DEF Pending, NotYet, Alive
<1>7. DyingWindow'
  BY <1>1, <1>2, <1>3 DEF Pending, DyingWindow, Alive, Destroyed, WindowsOK
<1>8. ModalWindow'
  BY <1>1, <1>3 DEF Pending, ModalWindow, WindowsOK
<1>9. BusyThread'
  <2> SUFFICES ASSUME NEW v \in Busy'
               PROVE  /\ v = ut'.win /\ win'[v] \in {"modal", "hidden", "shown"} /\ dying' # v
                      /\ pc'[v] = "asking" => win'[v] # "modal"
                      /\ pc'[v] = "setup" => ~ut'.changes
    BY DEF BusyThread
  <2>1. v \in Updates /\ v \in Busy /\ v # u /\ pc'[v] = pc[v]
    BY DEF Busy
  <2>2. QED
    BY <1>1, <1>2, <2>1 DEF Pending, BusyThread, Updates
<1>10. VisibleWindow' /\ UpdaterWindow'
  BY <1>1, <1>5 DEF VisibleWindow, UpdaterWindow
<1>11. Counting'
  <2> SUFFICES ASSUME NEW v \in timer' PROVE pc'[v] = "done" /\ win'[v] # "hidden" /\ ~Alive(v)'
    BY DEF Counting
  <2>1. v \in timer /\ v \in Updates
    BY DEF WindowsOK
  <2>2. pc'[v] = "done" /\ win'[v] # "hidden"
    BY <1>1, <2>1 DEF Pending, Counting
  <2>3. ~Alive(v)'
    <3> SUFFICES ASSUME Alive(v)' PROVE FALSE
      OBVIOUS
    <3>1. v # u /\ Alive(v) /\ v = ut.win
      BY <1>1, <2>1 DEF Alive, Pending, Counting
    <3>2. u = modal /\ dying \in {0, u} /\ win[v] \in {"modal", "shown", "ending"}
      BY <2>1, <3>1 DEF Alive, Pending, Counting
    <3>3. Visible(v) \/ win[v] = "ending"
      BY <2>1, <3>1, <3>2 DEF Visible, Updates
    <3>4. QED
      BY <1>1, <1>2, <1>5, <2>1, <3>1, <3>2, <3>3 DEF Visible, Pending, ModalWindow, Updates
  <2>4. QED
    BY <2>2, <2>3
<1>12. ToBeLoaded'
  <2> SUFFICES ASSUME NEW l \in stale PROVE l \in unread' \/ (ut'.changes /\ Live')
    BY DEF ToBeLoaded
  <2>1. CASE dying = u
    <3>1. ut.changes /\ Live
      BY <2>1 DEF Pending, ToBeLoaded
    <3>2. ut.win # u
      BY <2>1, <3>1 DEF Live
    <3>3. QED
      BY <1>1, <1>2, <2>1, <3>1, <3>2 DEF Live, Alive, Updates
  <2>2. CASE dying # u
    BY <2>2 DEF Pending, ToBeLoaded, Idle, Destroyed
  <2>3. QED
    BY <2>1, <2>2
<1>13. HiddenDead'
  <2> SUFFICES ASSUME Live', win'[ut.win] = "hidden", Busy' = {}, ut.changes PROVE FALSE
    BY DEF HiddenDead
  <2>1. dying = u /\ ut.win # u /\ ut.win \in Updates
    BY <1>1 DEF Live
  <2>2. Live /\ win[ut.win] = "hidden"
    BY <1>1, <2>1 DEF Live, Alive
  <2>3. Busy # {}
    BY <2>2 DEF Pending, HiddenDead
  <2>4. QED
    BY <2>1, <2>3
<1>14. QED
  BY <1>0, <1>6, <1>7, <1>8, <1>9, <1>10, <1>11, <1>12, <1>13 DEF Pending

\* A window that is through is destroyed: LoadLists is called if there is something new, and
\* then everything will be read.
LEMMA PendingDestroyed ==
    ASSUME WindowsOK, ThreadsOK, Pending, NEW u \in Updates, NEW upd \in {0, updater},
           OnDestroy(u, upd),
           Alive(u), dying # u, u = ut.win \/ (u = modal /\ dying = 0),
           u = modal => load = "no", load' # "hung",
           ut'.win = ut.win, ut'.changes = ut.changes, stale' = stale,
           timer' \subseteq timer, upd = 0 => u \notin timer', u \notin Busy',
           u = ut.win \/ Busy' = Busy,
           \A v \in Updates : pc'[v] = pc[v] \/ (pc[v] # "none" /\ pc'[v] = "done")
    PROVE  Pending'
<1>1. CASE ~ut.changes
  <2>1. Destroyed(u)
    BY <1>1 DEF OnDestroy
  <2>2. QED
    BY <1>1, <2>1, PendingGone
<1>2. CASE ut.changes
  <2>1. /\ win' = win /\ modal' = modal /\ updater' = upd /\ unread' = Lists /\ dying' = u
        /\ load = "no" /\ load' = IF u = modal THEN "dialog" ELSE "alone"
    BY <1>2 DEF OnDestroy
  <2>2. dying = 0
    BY <2>1 DEF Pending, Idle
  <2>3. \A v \in Updates : ~Visible(v)'
    <3> SUFFICES ASSUME NEW v \in Updates, Visible(v)' PROVE FALSE
      OBVIOUS
    <3>1. v # u /\ Visible(v) /\ v = ut.win
      BY <2>1, <2>2 DEF Visible, Updates, Pending, VisibleWindow
    <3>2. u = modal /\ win[v] \in {"modal", "shown"}
      BY <3>1 DEF Visible
    <3>3. QED
      BY <3>1, <3>2 DEF Pending, VisibleWindow, ModalWindow, Updates
  <2>4. NotYet' /\ Idle' /\ DyingWindow' /\ ModalWindow'
    BY <2>1 DEF Pending, NotYet, Idle, DyingWindow, ModalWindow, Alive
  <2>5. BusyThread'
    <3> SUFFICES ASSUME NEW v \in Busy'
                 PROVE  /\ v = ut'.win /\ win'[v] \in {"modal", "hidden", "shown"} /\ dying' # v
                        /\ pc'[v] = "asking" => win'[v] # "modal"
                        /\ pc'[v] = "setup" => ~ut'.changes
      BY DEF BusyThread
    <3>1. v \in Updates /\ v \in Busy /\ v # u /\ pc'[v] = pc[v]
      BY DEF Busy
    <3>2. QED
      BY <2>1, <3>1 DEF Pending, BusyThread, Updates
  <2>6. VisibleWindow' /\ UpdaterWindow'
    BY <2>1, <2>3 DEF VisibleWindow, Pending, UpdaterWindow
  <2>7. Counting'
    <3> SUFFICES ASSUME NEW v \in timer'
                 PROVE  /\ pc'[v] = "done" /\ win'[v] # "hidden"
                        /\ Alive(v)' => v = ut'.win /\ updater' # 0 /\ Busy' = {}
      BY DEF Counting
    <3>1. v \in timer /\ v \in Updates
      BY DEF WindowsOK
    <3>2. pc'[v] = "done" /\ win'[v] # "hidden"
      BY <2>1, <3>1 DEF Pending, Counting
    <3>3. ASSUME Alive(v)' PROVE v = ut'.win /\ updater' # 0 /\ Busy' = {}
      <4>1. Alive(v) /\ v = ut.win /\ updater # 0 /\ Busy = {}
        BY <2>1, <3>1, <3>3 DEF Alive, Pending, Counting
      <4>2. CASE u = v
        <5>1. Busy' \subseteq Busy
          BY DEF Busy
        <5>2. QED
          BY <2>1, <4>1, <4>2, <5>1
      <4>3. CASE u # v
        <5>1. u = modal /\ win[v] \in {"modal", "shown", "ending"}
          BY <3>1, <4>1, <4>3 DEF Alive, Pending, Counting
        <5>2. win[v] = "shown" => Visible(v)
          BY <2>2, <3>1 DEF Visible, Updates
        <5>3. QED
          BY <3>1, <4>3, <5>1, <5>2 DEF Pending, ModalWindow, VisibleWindow, Updates
      <4>4. QED
        BY <4>2, <4>3
    <3>4. QED
      BY <3>2, <3>3
  <2>8. ToBeLoaded'
    BY <2>1 DEF ToBeLoaded, ThreadsOK
  <2>9. HiddenDead'
    <3> SUFFICES ASSUME Live', win'[ut.win] = "hidden", Busy' = {} PROVE FALSE
      BY DEF HiddenDead
    <3>1. ut.win # u
      BY <2>1 DEF Live
    <3>2. u = modal /\ Live /\ win[ut.win] = "hidden"
      BY <2>1, <2>2, <3>1 DEF Live, Alive, Updates
    <3>3. QED
      BY <1>2, <3>1, <3>2 DEF Pending, HiddenDead
  <2>10. QED
    BY <2>4, <2>5, <2>6, <2>7, <2>8, <2>9 DEF Pending
<1>3. QED
  BY <1>1, <1>2

\* DialogBox's window has ended, and is there until DialogBox looks at it.
LEMMA PendingEnding ==
    ASSUME WindowsOK, Pending, NEW u \in Updates, NEW upd \in {0, updater}, EndDialog(u, upd),
           Visible(u), u = modal, Busy = {}, UNCHANGED <<pc, stale>>,
           ut'.win = ut.win, ut'.changes = ut.changes,
           timer' \subseteq timer, upd = 0 => u \notin timer'
    PROVE  Pending'
<1>1. win'[u] = "ending" /\ \A v \in Updates : v # u => win'[v] = win[v]
  BY DEF EndDialog, WindowsOK
<1>2. updater' = upd /\ UNCHANGED <<modal, load, unread, dying>> /\ Busy' = {}
  BY DEF EndDialog, loading, Busy
<1>3. u = ut.win /\ dying = 0 /\ updater = -1
  BY DEF Pending, VisibleWindow, ModalWindow, Updates, Visible
<1>4. \A v \in Updates : ~Visible(v)'
  BY <1>1, <1>2, <1>3 DEF Visible, Pending, VisibleWindow
<1>5. Idle' /\ DyingWindow' /\ ModalWindow' /\ BusyThread' /\ VisibleWindow' /\ UpdaterWindow'
  BY <1>1, <1>2, <1>3, <1>4 DEF Pending, Idle, DyingWindow, ModalWindow, BusyThread, VisibleWindow,
     UpdaterWindow
<1>6. Counting'
  BY <1>1, <1>2, <1>3 DEF Pending, Counting, Alive, WindowsOK
<1>7. NotYet' /\ Live' /\ ToBeLoaded' /\ HiddenDead'
  BY <1>1, <1>2, <1>3 DEF Pending, NotYet, ToBeLoaded, HiddenDead, Live, Alive, Visible, Updates
<1>8. QED
  BY <1>5, <1>6, <1>7 DEF Pending

\* A window is opened, while no thread is busy: nothing was to be loaded by the last one.
LEMMA PendingOpens ==
    ASSUME WindowsOK, ThreadsOK, Pending, updater = 0, Busy = {}, modal = 0 \/ dying # 0,
           load # "alone",
           NEW u \in Updates, NEW kind \in {"modal", "hidden"}, OnInitDialog(u, kind),
           UNCHANGED <<timer, stale, loading>>,
           kind = "modal" => load = "no" /\ updater' = -1 /\ modal' = u,
           kind = "hidden" => updater' = u /\ modal' = modal
    PROVE  Pending'
<1>1. win'[u] = kind /\ \A v \in Updates : v # u => win'[v] = win[v]
  BY DEF OnInitDialog, WindowsOK
<1>2. ut'.win = u /\ ut'.changes = FALSE
  BY DEF OnInitDialog
<1>3. pc[u] = "none" /\ pc'[u] = "setup" /\ \A v \in Updates : v # u => pc'[v] = pc[v]
  BY DEF OnInitDialog, ThreadsOK
<1>4. Busy' = {u}
  BY <1>3 DEF Busy
<1>5. \A v \in Updates : ~Visible(v)
  BY DEF Pending, VisibleWindow, Updates
<1>6. ~(ut.changes /\ Live)
  <2> SUFFICES ASSUME ut.changes, Live PROVE FALSE
    OBVIOUS
  <2>1. win[ut.win] = "ending"
    BY <1>5 DEF Live, Alive, Visible, Pending, HiddenDead
  <2>2. ut.win = modal /\ modal # 0
    BY <2>1 DEF Live, Pending, ModalWindow, Updates
  <2>3. QED
    BY <2>2 DEF Live, Pending, DyingWindow
<1>7. win[u] = "none" /\ dying # u /\ modal # u
  BY <1>3 DEF Pending, NotYet, DyingWindow, ModalWindow, Alive, Updates
<1>8. \A v \in Updates : Visible(v)' => v = u
  BY <1>1, <1>5 DEF Visible, loading
<1>9. kind = "modal" => dying = 0
  BY DEF Pending, Idle
<1>10. NotYet'
  BY <1>1, <1>3 DEF Pending, NotYet
<1>11. Idle' /\ DyingWindow'
  BY <1>1, <1>2, <1>7, <1>9 DEF Pending, Idle, DyingWindow, Alive, loading, WindowsOK, Updates
<1>12. ModalWindow'
  BY <1>1, <1>7, <1>9 DEF Pending, ModalWindow, WindowsOK, Updates
<1>13. BusyThread'
  BY <1>1, <1>2, <1>3, <1>4, <1>7 DEF BusyThread, loading
<1>14. VisibleWindow'
  BY <1>1, <1>2, <1>8, <1>9 DEF VisibleWindow, Visible, loading
<1>15. UpdaterWindow'
  BY <1>1, <1>2 DEF UpdaterWindow, Updates
<1>16. Counting'
  BY <1>1, <1>3 DEF Pending, Counting, Alive, WindowsOK
<1>17. ToBeLoaded'
  BY <1>6 DEF Pending, ToBeLoaded, loading
<1>18. HiddenDead'
  BY <1>4 DEF HiddenDead
<1>19. QED
  BY <1>10, <1>11, <1>12, <1>13, <1>14, <1>15, <1>16, <1>17, <1>18 DEF Pending

\* A step of a thread: of the one whose window g_ut names.
LEMMA PendingStep ==
    ASSUME WindowsOK, ThreadsOK, Pending, NEW t \in Busy, NEW at \in Pcs \ {"none", "setup"}, Goto(t, at),
           at = "asking" => win[t] = "hidden",
           at = "done" => win[t] # "hidden",
           at = "dead" => pc[t] = "setup",
           UNCHANGED <<updater, win, modal, load, unread, dying, timer, stale, ut>>
    PROVE  Pending'
<1>1. t \in Updates /\ pc'[t] = at /\ \A v \in Updates : v # t => pc'[v] = pc[v]
  BY DEF Busy, Goto, ThreadsOK
<1>2. t = ut.win /\ Busy' \subseteq Busy
  BY <1>1 DEF Pending, BusyThread, Busy
<1>3. Busy' = IF at \in {"done", "dead"} THEN {} ELSE {t}
  BY <1>1, <1>2 DEF Pending, BusyThread, Busy, Pcs
<1>4. pc[t] \notin {"none", "done", "dead"}
  BY DEF Busy
<1>5. NotYet' /\ Idle' /\ DyingWindow' /\ ModalWindow' /\ VisibleWindow' /\ UpdaterWindow'
  BY <1>1, <1>4 DEF Pending, NotYet, Idle, DyingWindow, ModalWindow, VisibleWindow, UpdaterWindow,
     Alive, Visible
<1>6. BusyThread'
  BY <1>1, <1>2, <1>3 DEF Pending, BusyThread
<1>7. Counting'
  BY <1>1, <1>2, <1>4 DEF Pending, Counting, Alive, WindowsOK
<1>8. ToBeLoaded'
  BY DEF Pending, ToBeLoaded, Live, Alive
<1>9. HiddenDead'
  BY <1>2, <1>3, <1>4 DEF Pending, HiddenDead, BusyThread, Live, Alive
<1>10. QED
  BY <1>5, <1>6, <1>7, <1>8, <1>9 DEF Pending

LEMMA PendingNext == WindowsOK /\ ThreadsOK /\ Named /\ PendingInv /\ [Next]_vars => PendingInv'
<1> SUFFICES ASSUME WindowsOK, ThreadsOK, Named, PendingInv, [Next]_vars, Calm' PROVE Pending'
  BY DEF PendingInv
<1>0. ASSUME cut \subseteq cut', load # "hung" PROVE Pending
  BY <1>0 DEF PendingInv, Calm
<1>1. ASSUME NEW u \in Updates, UpdateLists(u) PROVE Pending'
  <2>1. Pending /\ Busy = {} /\ (modal = 0 \/ dying # 0)
    BY <1>0, <1>1 DEF UpdateLists, TakeOver, Calm
  <2>2. QED
    BY <1>1, <2>1, PendingOpens DEF UpdateLists, files
<1>2. CASE ShowUpdate
  <2>1. Pending
    BY <1>0, <1>2 DEF ShowUpdate
  <2>2. updater \in Updates /\ updater = ut.win /\ win[updater] \in {"hidden", "shown"}
    BY <1>2, <2>1 DEF ShowUpdate, WindowsOK, Pending, UpdaterWindow
  <2>3. win'[updater] = "shown" /\ \A v \in Updates : v # updater => win'[v] = win[v]
    BY <1>2, <2>2 DEF ShowUpdate, WindowsOK
  <2>4. /\ UNCHANGED <<updater, ut, timer, modal, pc, stale, dying>> /\ Busy' = Busy
        /\ load' = "dialog" /\ unread' = Lists
        /\ modal = 0 /\ dying = 0
    BY <1>2, <2>1 DEF ShowUpdate, files, Busy, Pending, Idle
  <2>5. NotYet' /\ Idle' /\ DyingWindow' /\ ModalWindow' /\ UpdaterWindow'
    BY <2>1, <2>2, <2>3, <2>4 DEF Pending, NotYet, Idle, DyingWindow, ModalWindow, UpdaterWindow
  <2>6. BusyThread' /\ VisibleWindow'
    BY <2>1, <2>2, <2>3, <2>4 DEF Pending, BusyThread, VisibleWindow, Visible, Busy, Updates
  <2>7. Counting'
    BY <2>1, <2>2, <2>3, <2>4 DEF Pending, Counting, Alive, WindowsOK
  <2>8. ToBeLoaded' /\ HiddenDead'
    BY <2>2, <2>3, <2>4 DEF ToBeLoaded, HiddenDead, ThreadsOK
  <2>9. QED
    BY <2>5, <2>6, <2>7, <2>8 DEF Pending
<1>3. ASSUME NEW u \in Updates, AutoUpdate(u) PROVE Pending'
  <2>1. load # "hung" /\ load # "alone" /\ load' = load
    BY <1>3 DEF AutoUpdate, Pumps, loading
  <2>2. Pending /\ Busy = {} /\ (modal = 0 \/ dying # 0)
    BY <1>0, <1>3, <2>1 DEF AutoUpdate, TakeOver, Calm
  <2>3. QED
    BY <1>3, <2>1, <2>2, PendingOpens DEF AutoUpdate, files
<1>4. CASE UNCHANGED <<updater, ut, windows, pc, stale, loading, cut>>
  BY <1>0, <1>4 DEF Calm, windows, loading, Pending, NotYet, Idle, DyingWindow, ModalWindow,
     BusyThread, VisibleWindow, Visible, UpdaterWindow, Counting, ToBeLoaded, HiddenDead, Live, Alive,
     Busy
<1>5. CASE DaysPass
  BY <1>4, <1>5 DEF DaysPass, files
<1>6. ASSUME NEW u \in Updates, OnClose(u) PROVE Pending'
  <2>1. load \in {"no", "dialog"} /\ Visible(u) /\ CloseWindow(u, updater)
    BY <1>6 DEF OnClose, Pumps
  <2>2. Pending /\ Busy = {}
    BY <1>0, <1>6, <2>1 DEF OnClose, Calm
  <2>3. /\ ut'.win = ut.win /\ ut'.changes = ut.changes
        /\ UNCHANGED <<timer, pc, stale>> /\ Busy' = {}
    BY <1>6, <2>2 DEF OnClose, WindowsOK, files, Busy
  <2>4. u = ut.win /\ updater # 0 /\ Alive(u) /\ dying # u
    BY <2>1, <2>2 DEF Pending, VisibleWindow, Visible, Alive, Updates
  <2>5. CASE u = modal /\ load = "dialog"
    BY <2>1, <2>2, <2>3, <2>4, <2>5, PendingEnding DEF CloseWindow
  <2>6. CASE ~(u = modal /\ load = "dialog")
    <3>1. OnDestroy(u, updater) /\ load' # "hung" /\ (u = modal => load = "no")
      BY <2>1, <2>6 DEF CloseWindow, Calm
    <3>2. QED
      BY <2>2, <2>3, <2>4, <3>1, PendingDestroyed
  <2>7. QED
    BY <2>5, <2>6
<1>7. ASSUME NEW u \in Updates, OnAbort(u) PROVE Pending'
  <2>1. /\ ut'.win = ut.win /\ ut'.changes = ut.changes
        /\ UNCHANGED <<updater, windows, pc, stale, loading, cut>>
    BY <1>7 DEF OnAbort, WindowsOK, files
  <2>2. QED
    BY <1>0, <2>1 DEF Calm, windows, loading, Pending, NotYet, Idle, DyingWindow, ModalWindow,
       BusyThread, VisibleWindow, Visible, UpdaterWindow, Counting, ToBeLoaded, HiddenDead, Live,
       Alive, Busy
<1>8. ASSUME NEW u \in Updates, OnTimer(u) PROVE Pending'
  <2>1. Pending /\ load \in {"no", "dialog"}
    BY <1>0, <1>8 DEF OnTimer, Pumps
  <2>2. u \in timer /\ timer' = timer \ {u} /\ UNCHANGED <<ut, pc, stale>> /\ Busy' = Busy
    BY <1>8 DEF OnTimer, files, Busy
  <2>3. win[u] \in {"modal", "shown", "ending"} /\ Alive(u) /\ u = ut.win
    <3>1. pc[u] = "done" /\ win[u] \notin {"hidden", "none", "gone"}
      BY <1>8, <2>1, <2>2 DEF OnTimer, Pending, Counting, NotYet
    <3>2. win[u] \in {"modal", "shown", "ending"}
      BY <3>1 DEF WindowsOK, Wins
    <3>3. QED
      BY <2>1, <2>2, <3>2 DEF Alive, Pending, Counting
  <2>4. CASE Visible(u)
    <3>1. Busy = {} /\ Alive(u) /\ u = ut.win /\ dying # u
      BY <2>1, <2>2, <2>4 DEF Visible, Alive, Pending, Counting
    <3>2. CloseWindow(u, 0) /\ u \notin timer'
      BY <1>8, <2>2, <2>4 DEF OnTimer
    <3>3. CASE u = modal /\ load = "dialog"
      BY <2>1, <2>2, <2>4, <3>1, <3>2, <3>3, PendingEnding DEF CloseWindow
    <3>4. CASE ~(u = modal /\ load = "dialog")
      <4>1. OnDestroy(u, 0) /\ load' # "hung" /\ (u = modal => load = "no")
        BY <2>1, <3>2, <3>4 DEF CloseWindow, Calm
      <4>2. QED
        BY <2>1, <2>2, <3>1, <3>2, <4>1, PendingDestroyed
    <3>5. QED
      BY <3>3, <3>4
  <2>5. CASE ~Visible(u)
    <3>1. updater' = 0 /\ UNCHANGED <<win, modal, load, unread, dying>>
      BY <1>8, <2>5 DEF OnTimer, loading
    <3>2. \A v \in Updates : ~Visible(v)'
      BY <2>1, <2>3, <2>5, <3>1 DEF Visible, Pending, VisibleWindow
    <3>3. VisibleWindow' /\ UpdaterWindow' /\ Counting'
      BY <2>1, <2>2, <2>3, <3>1, <3>2 DEF VisibleWindow, UpdaterWindow, Pending, Counting, Alive
    <3>4. NotYet' /\ Idle' /\ DyingWindow' /\ ModalWindow' /\ BusyThread' /\ ToBeLoaded' /\ HiddenDead'
      BY <2>1, <2>2, <3>1 DEF Pending, NotYet, Idle, DyingWindow, ModalWindow, BusyThread,
         ToBeLoaded, HiddenDead, Live, Alive
    <3>5. QED
      BY <3>3, <3>4 DEF Pending
  <2>6. QED
    BY <2>4, <2>5
<1>9. CASE ModalEnds
  <2>1. Pending /\ load = "no" /\ modal \in Updates /\ win[modal] = "ending"
    BY <1>0, <1>9 DEF ModalEnds, WindowsOK
  <2>2. dying = 0 /\ Alive(modal) /\ modal \notin Busy
    BY <2>1 DEF Pending, Idle, Alive, BusyThread
  <2>3. OnDestroy(modal, updater) /\ load' # "hung"
    BY <1>9 DEF ModalEnds, Calm
  <2>4. UNCHANGED <<ut, timer, pc, stale>> /\ Busy' = Busy
    BY <1>9 DEF ModalEnds, files, Busy
  <2>5. updater # 0 \/ modal \notin timer'
    BY <2>1, <2>2, <2>4 DEF Pending, Counting
  <2>6. QED
    BY <2>1, <2>2, <2>3, <2>4, <2>5, PendingDestroyed DEF Updates
<1>10. ASSUME NEW t \in Updates, ClosedByThread(t) PROVE Pending'
  <2>1. Pending /\ pc[t] = "asking" /\ Goto(t, "done")
    BY <1>0, <1>10 DEF ClosedByThread, Pumps, Goto
  <2>2. t \in Busy /\ t = ut.win /\ win[t] \in {"hidden", "shown"} /\ dying # t
    BY <2>1 DEF Busy, Pending, BusyThread
  <2>3. OnDestroy(t, updater) /\ load' # "hung"
    BY <1>10, <2>2 DEF ClosedByThread, Calm
  <2>4. /\ ut'.win = ut.win /\ ut'.changes = ut.changes
        /\ UNCHANGED <<timer, stale>>
    BY <1>10 DEF ClosedByThread, WindowsOK, files
  <2>5. /\ \A v \in Updates : pc'[v] = pc[v] \/ (pc[v] # "none" /\ pc'[v] = "done")
        /\ pc'[t] = "done"
    BY <2>1 DEF Goto, ThreadsOK
  <2>6. t \notin Busy' /\ Alive(t) /\ t # modal /\ t \notin timer
    BY <2>1, <2>2, <2>5 DEF Busy, Alive, Pending, ModalWindow, Counting, Updates
  <2>7. QED
    BY <2>1, <2>2, <2>3, <2>4, <2>5, <2>6, PendingDestroyed
<1>11. CASE Reload
  <2>1. Pending /\ load = "no" /\ dying = 0
    BY <1>0, <1>11 DEF Reload, Pending, Idle
  <2>2. /\ UNCHANGED <<updater, ut, windows, pc, stale, dying>>
        /\ load' = "dialog" /\ unread' = Lists
    BY <1>11 DEF Reload, files
  <2>3. ToBeLoaded'
    BY <2>2 DEF ToBeLoaded, ThreadsOK
  <2>4. QED
    BY <2>1, <2>2, <2>3 DEF windows, Pending, NotYet, Idle, DyingWindow, ModalWindow, BusyThread,
       VisibleWindow, Visible, UpdaterWindow, Counting, HiddenDead, Live, Alive, Busy
<1>12. ASSUME NEW l \in Lists, ReadList(l) PROVE Pending'
  <2>1. Pending /\ load # "no"
    BY <1>0, <1>12 DEF ReadList, Calm, Pending, PendingInv, Idle
  <2>2. /\ UNCHANGED <<updater, ut, windows, pc, load, dying>>
        /\ unread' = unread \ {l} /\ stale' = stale \ {l}
    BY <1>12 DEF ReadList
  <2>3. ToBeLoaded'
    BY <2>1, <2>2 DEF Pending, ToBeLoaded, windows, Live, Alive
  <2>4. QED
    BY <2>1, <2>2, <2>3 DEF windows, Pending, NotYet, Idle, DyingWindow, ModalWindow, BusyThread,
       VisibleWindow, Visible, UpdaterWindow, Counting, HiddenDead, Live, Alive, Busy
<1>13. CASE Loaded
  <2>1. Pending /\ unread = {} /\ load # "no"
    BY <1>0, <1>13 DEF Loaded, Calm
  <2>2. UNCHANGED <<ut, timer, pc, stale>> /\ Busy' = Busy
    BY <1>13 DEF Loaded, files, Busy
  <2>3. CASE dying # 0
    <3>1. dying \in Updates /\ Alive(dying) /\ Destroyed(dying) /\ dying \notin Busy
      BY <1>13, <2>1, <2>3 DEF Loaded, Pending, DyingWindow, BusyThread, WindowsOK
    <3>2. dying = ut.win \/ dying = modal
      BY <2>1, <2>3 DEF Pending, DyingWindow
    <3>3. QED
      BY <2>1, <2>2, <3>1, <3>2, PendingGone
  <2>4. CASE dying = 0
    <3>1. load' = "no" /\ UNCHANGED <<updater, win, modal, unread, dying>>
      BY <1>13, <2>4 DEF Loaded
    <3>2. QED
      BY <2>1, <2>2, <2>4, <3>1 DEF Pending, NotYet, Idle, DyingWindow, ModalWindow, BusyThread,
         VisibleWindow, Visible, UpdaterWindow, Counting, ToBeLoaded, HiddenDead, Live, Alive
  <2>5. QED
    BY <2>3, <2>4
<1>14. ASSUME NEW t \in Updates,
              Setup(t) \/ SetupThrows(t) \/ Poll(t) \/ ReadAll(t) \/ Cleanup(t) \/ Enable(t)
       PROVE  Pending'
  <2>1. UNCHANGED <<uiState, ut, timer, stale>> /\ t \in Busy
    BY <1>14 DEF Setup, SetupThrows, Poll, ReadAll, Cleanup, Enable, files, Busy
  <2>2. \E at \in {"enable", "poll", "dead", "cleanup", "read", "finish"} :
           Goto(t, at) /\ (at = "dead" => pc[t] = "setup")
    BY <1>14 DEF Setup, SetupThrows, Poll, ReadAll, Cleanup, Enable
  <2>3. Pending
    BY <1>0, <2>1 DEF uiState, loading, Calm
  <2>4. QED
    BY <2>1, <2>2, <2>3, PendingStep DEF uiState, loading, Pcs
<1>15. ASSUME NEW t \in Updates, FinishHidden(t) PROVE Pending'
  <2>1. Pending
    BY <1>0, <1>15 DEF FinishHidden, uiState, loading, Calm
  <2>2. t \in Busy /\ pc[t] = "finish" /\ Goto(t, "asking") /\ ~Visible(ut.win)
    BY <1>15 DEF FinishHidden, Busy
  <2>3. t = ut.win /\ win[t] = "hidden"
    BY <2>1, <2>2 DEF Pending, BusyThread, Visible
  <2>4. UNCHANGED <<uiState, ut, timer, files>>
    BY <1>15 DEF FinishHidden
  <2>5. QED
    BY <2>1, <2>2, <2>3, <2>4, PendingStep DEF uiState, loading, files, Pcs
<1>16. ASSUME NEW t \in Updates, FinishVisible(t) PROVE Pending'
  <2>1. Pending
    BY <1>0, <1>16 DEF FinishVisible, loading, Calm
  <2>2. t \in Busy /\ Goto(t, "done") /\ Visible(ut.win) /\ t = ut.win
    BY <1>16, <2>1 DEF FinishVisible, Busy, Pending, BusyThread
  <2>3. UNCHANGED <<updater, ut, modal, stale, loading>> /\ updater # 0 /\ dying = 0
    BY <1>16, <2>1, <2>2 DEF FinishVisible, files, Pending, VisibleWindow, Updates
  <2>4. win[t] \in {"modal", "shown"}
    BY <2>2 DEF Visible
  <2>5. CASE UNCHANGED <<timer, win>>
    BY <2>1, <2>2, <2>3, <2>4, <2>5, PendingStep DEF loading, Pcs
  <2>6. pc'[t] = "done" /\ \A v \in Updates : v # t => pc'[v] = pc[v]
    BY <2>2 DEF Goto, ThreadsOK
  <2>7. Busy' = {}
    BY <2>1, <2>2, <2>6 DEF Busy, Pending, BusyThread
  <2>8. CASE timer' = timer \cup {t} /\ win' = win
    <3>1. NotYet' /\ Idle' /\ DyingWindow' /\ ModalWindow' /\ BusyThread' /\ VisibleWindow' /\ UpdaterWindow'
      BY <2>1, <2>2, <2>3, <2>6, <2>7, <2>8 DEF Pending, NotYet, Idle, DyingWindow, ModalWindow,
         BusyThread, VisibleWindow, Visible, UpdaterWindow, Alive, loading
    <3>2. Counting'
      BY <2>1, <2>2, <2>3, <2>4, <2>6, <2>7, <2>8 DEF Pending, Counting, Alive, WindowsOK
    <3>3. ToBeLoaded' /\ HiddenDead'
      BY <2>1, <2>2, <2>3, <2>4, <2>8 DEF Pending, ToBeLoaded, HiddenDead, Live, Alive, loading
    <3>4. QED
      BY <3>1, <3>2, <3>3 DEF Pending
  <2>9. CASE updater = -1 /\ win' = [win EXCEPT ![ut.win] = "ending"] /\ timer' = timer
    <3>1. win'[t] = "ending" /\ \A v \in Updates : v # t => win'[v] = win[v]
      BY <2>2, <2>9 DEF WindowsOK
    <3>2. t = modal
      BY <2>1, <2>2, <2>4, <2>9 DEF Pending, ModalWindow, VisibleWindow, Updates
    <3>3. \A v \in Updates : ~Visible(v)'
      BY <2>1, <2>2, <2>3, <3>1 DEF Pending, VisibleWindow, Visible, loading
    <3>4. NotYet' /\ Idle' /\ DyingWindow' /\ ModalWindow' /\ BusyThread' /\ VisibleWindow' /\ UpdaterWindow'
      BY <2>1, <2>2, <2>3, <2>4, <2>6, <2>7, <2>9, <3>1, <3>2, <3>3 DEF Pending, NotYet, Idle,
         DyingWindow, ModalWindow, BusyThread, VisibleWindow, UpdaterWindow, loading
    <3>5. Counting'
      BY <2>1, <2>2, <2>3, <2>6, <2>7, <2>9, <3>1 DEF Pending, Counting, Alive, WindowsOK
    <3>6. ToBeLoaded' /\ HiddenDead'
      BY <2>1, <2>2, <2>3, <2>4, <3>1 DEF Pending, ToBeLoaded, HiddenDead, Live, Alive, loading, Updates
    <3>7. QED
      BY <3>4, <3>5, <3>6 DEF Pending
  <2>10. QED
    BY <1>16, <2>2, <2>5, <2>8, <2>9 DEF FinishVisible
<1>17. ASSUME NEW t \in Updates, NEW l \in Lists, Result(t, l) PROVE Pending'
  <2>1. UNCHANGED <<uiState, pc, timer>> /\ Busy' = Busy /\ ut'.win = ut.win
    BY <1>17 DEF Result, Busy, WindowsOK
  <2>2. Pending
    BY <1>0, <2>1 DEF uiState, loading, Calm
  <2>3. t \in Busy /\ t = ut.win /\ pc[t] = "read"
    BY <1>17, <2>2 DEF Result, Busy, Pending, BusyThread
  <2>4. Live
    BY <2>2, <2>3 DEF Pending, BusyThread, Live, Alive
  <2>5. Live'
    BY <2>1, <2>4 DEF Live, Alive, uiState, loading
  <2>6. NotYet' /\ Idle' /\ DyingWindow' /\ ModalWindow' /\ VisibleWindow' /\ UpdaterWindow' /\ Counting'
    BY <2>1, <2>2 DEF uiState, loading, Pending, NotYet, Idle, DyingWindow, ModalWindow, VisibleWindow,
       Visible, UpdaterWindow, Counting, Alive
  <2>7. BusyThread' /\ HiddenDead'
    BY <2>1, <2>2, <2>3 DEF uiState, loading, Pending, BusyThread, HiddenDead
  <2>8. ToBeLoaded'
    <3>1. CASE stale' = stale /\ ut' = ut
      BY <2>1, <2>2, <2>4, <2>5, <3>1 DEF Pending, ToBeLoaded, uiState, loading
    <3>2. CASE ut' = [ut EXCEPT !.changes = TRUE]
      BY <2>5, <3>2 DEF ToBeLoaded, WindowsOK
    <3>3. QED
      BY <1>17, <3>1, <3>2 DEF Result
  <2>9. QED
    BY <2>6, <2>7, <2>8 DEF Pending
<1>18. CASE UNCHANGED vars
  BY <1>4, <1>18 DEF vars, files
<1>19. QED
  BY <1>1, <1>2, <1>3, <1>5, <1>6, <1>7, <1>8, <1>9, <1>10, <1>11, <1>12, <1>13, <1>14, <1>15,
     <1>16, <1>17, <1>18 DEF Next, Window, Loads, Step

\* For any number of lists and updates: once every thread is through and the UI thread idle,
\* the driver has the lists as they were downloaded, unless a window was closed while its
\* thread went on, or an update took g_ut over (OnDestroy, updatelists.cpp:1252).
THEOREM AllLoaded == Spec => []ChangesLoaded
<1>1. TypeOK /\ PendingInv => ChangesLoaded
  <2> SUFFICES ASSUME WindowsOK, PendingInv, cut \subseteq {"counted"}, load = "no", modal = 0,
                      updater = 0, Busy = {}
               PROVE  stale = {}
    BY TypeParts DEF ChangesLoaded
  <2>1. Pending /\ unread = {} /\ dying = 0
    BY DEF PendingInv, Calm, Pending, Idle
  <2>2. \A v \in Updates : ~Visible(v) /\ win[v] \notin {"modal", "ending"}
    BY <2>1 DEF Pending, VisibleWindow, ModalWindow, Updates
  <2>3. ~(ut.changes /\ Live)
    BY <2>1, <2>2 DEF Pending, HiddenDead, Live, Alive, Visible
  <2>4. QED
    BY <2>1, <2>3 DEF Pending, ToBeLoaded
<1>2. TypeOK /\ Named /\ PendingInv /\ [Next]_vars => PendingInv'
  BY TypeParts, PendingNext
<1>3. QED
  BY InitTyped, PendingInit, TypedNext, <1>1, <1>2, PTL DEF Spec
=============================================================================
