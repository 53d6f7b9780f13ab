------------------------------ MODULE TempRules ------------------------------
(***************************************************************************)
(* What the user allows for a time: addresses, from the lists of the log,  *)
(* the history and the list editor (peerblock/logproc.cpp, historyproc.cpp *)
(* and listproc.cpp), which a timer of 30 seconds ends; and HTTP, from the *)
(* tray menu (SetBlockHttp, peerblock/mainproc.cpp), which a timer of 15   *)
(* or 60 minutes ends, and which Configuration::Save ends too.  The UI     *)
(* thread does it all, except that an update thread may save the           *)
(* configuration.                                                          *)
(*                                                                         *)
(* Time is counted in units of 15 minutes.  An address stands for a range. *)
(***************************************************************************)
EXTENDS Integers, FiniteSets

CONSTANTS Addresses, \* ranges the lists of the program block
          Short,     \* 15 minutes
          Long,      \* one hour
          MaxTime,   \* bound on the time
          MaxRules,  \* bound on the rules that exist at once
          Mishaps    \* which of the two below may happen

ASSUME RulesAssumption ==
    /\ Short \in Nat \ {0} /\ Long \in Nat \ {0} /\ Short # Long
    /\ MaxTime \in Nat /\ MaxRules \in Nat
    /\ Mishaps \subseteq {"queued", \* WM_TIMER is in the queue when KillTimer is called
                          "thread"} \* an update thread saves the configuration

VARIABLES now,       \* time(NULL)
          allowlist, \* g_allowlist: addresses with the end of their time
          tempallow, \* g_tempallow
          blocklist, \* g_blocklist
          tempblock, \* g_tempblock, which nothing reads
          passes,    \* the addresses that the last setranges left out
          ui,        \* the UI thread: in its message "loop", in LoadLists' dialog ("loading"),
                     \* or "stopped": in LoadLists a second time, see ListCache
          again,     \* history: addresses allowed while a rule for them was there
          http,      \* g_config.PortSet.AllowHttp, and what the driver was last told
          temp,      \* TempAllowingHttpShort and Long, which are never both set: "no", ...
          timer,     \* when TIMER_TEMPALLOWHTTP fires; None if it is not set
          due,       \* its WM_TIMER is in the queue
          saver,     \* the update thread in Configuration::Save
          disk,      \* AllowHttp in peerblock.conf
          asked,     \* history: what the user has last asked of HTTP: "block", "allow" or
                     \* "temp", which becomes "block" when it ends
          mishap,    \* history: which of Mishaps has happened
          granted    \* history: the user has allowed HTTP for good

rules   == <<allowlist, tempallow, blocklist, tempblock, passes, ui, again>>
httpNow == <<http, temp, timer, due, asked, mishap>>
saving  == <<saver, disk, granted>>
vars    == <<now, rules, httpNow, saving>>

None == -1

Init ==
    /\ now = 0 /\ allowlist = {} /\ tempallow = {} /\ blocklist = {} /\ tempblock = {}
    /\ passes = {} /\ ui = "loop" /\ again = {}
    /\ http \in BOOLEAN /\ temp = "no" /\ timer = None /\ due = FALSE
    /\ saver = "idle" /\ disk = http
    /\ asked = (IF http THEN "allow" ELSE "block") /\ mishap = {} /\ granted = http

Serves == ui # "stopped"   \* the UI thread gets messages: a dialog has a loop of its own

Tick ==
    /\ now < MaxTime
    /\ now' = now + 1
    /\ UNCHANGED <<rules, httpNow, saving>>

-----------------------------------------------------------------------------
(* LoadLists subtracts g_tempallow after the cache is there: at once, or when the dialog in
   which the cache is generated is closed. *)

LoadLists ==
    \/ ui' = "loop" /\ passes' = tempallow'
    \/ ui' = "loading" /\ UNCHANGED passes

\* The dialog ends.
Loaded ==
    /\ ui = "loading"
    /\ ui' = "loop" /\ passes' = tempallow
    /\ UNCHANGED <<now, allowlist, tempallow, blocklist, tempblock, again, httpNow, saving>>

\* Lists are loaded for another reason.
Reload ==
    /\ ui = "loop"
    /\ UNCHANGED <<now, allowlist, tempallow, blocklist, tempblock, again, httpNow, saving>>
    /\ LoadLists

MayAdd == /\ ui = "loop"
          /\ Cardinality(allowlist) + Cardinality(blocklist) < MaxRules

Addrs(list) == {e.addr : e \in list}

Listed == Addrs(allowlist)

Rule(a, d) == [until |-> now + d, addr |-> a]

\* "Allow for 15 minutes", "allow for one hour": the list is loaded again.
AllowFor(a, d) ==
    /\ MayAdd
    /\ tempallow' = tempallow \cup {a}
    /\ allowlist' = allowlist \cup {Rule(a, d)}
    /\ again' = IF a \in Listed THEN again \cup {a} ELSE again
    /\ LoadLists
    /\ UNCHANGED <<now, blocklist, tempblock, httpNow, saving>>

\* "Block for ...": the lists are loaded, and say nothing of it.
BlockFor(a, d) ==
    /\ MayAdd
    /\ tempblock' = tempblock \cup {a}
    /\ blocklist' = blocklist \cup {Rule(a, d)}
    /\ UNCHANGED <<now, allowlist, tempallow, again, httpNow, saving>>
    /\ LoadLists

Ended(list) == {e \in list : e.until < now}

\* Mutant of Without: the rule goes, and its address stays.
WithoutRuleOnly(temporary, list) == temporary

Without(temporary, list) == temporary \ Addrs(Ended(list))

\* Mutant of TimerLoads: the predicate is copied before it is used, and the copy's `changed`
\* is lost.
TimerForgets == UNCHANGED <<passes, ui>>

\* The destructor of TempAllowRemovePred: LoadLists(NULL), without a dialog.  Inside the
\* dialog of another call it locks cacheLock a second time.
TimerLoads ==
    IF ui = "loading" THEN ui' = "stopped" /\ UNCHANGED passes
    ELSE ui' = "loop" /\ passes' = tempallow'

\* TIMER_TEMPALLOW: remove_if of the one list, then of the other.  The timer does not get to
\* the second when the first has stopped the thread.
TempAllowTimer ==
    /\ Serves
    /\ Ended(allowlist) \cup Ended(blocklist) # {}
    /\ allowlist' = allowlist \ Ended(allowlist)
    /\ tempallow' = Without(tempallow, allowlist)
    /\ IF ui = "loading" /\ Ended(allowlist) # {}
       THEN UNCHANGED <<blocklist, tempblock>>
       ELSE /\ blocklist' = blocklist \ Ended(blocklist)
            /\ tempblock' = Without(tempblock, blocklist)
    /\ TimerLoads
    /\ UNCHANGED <<now, again, httpNow, saving>>

-----------------------------------------------------------------------------
(* HTTP.  `mishap` records that the UI thread changed it while a message of the timer was in
   the queue, or beside a save. *)

For(minutes) == IF minutes < 30 THEN "short" ELSE "long"

Units(minutes) == IF minutes < 30 THEN Short ELSE Long

\* KillTimer and SetTimer leave a message that is in the queue where it is.
Queued == due /\ "queued" \in Mishaps

\* Mutant of SetBlockHttp: the timer goes on when HTTP is set for good.
SetBlockHttpTimerStays(block, minutes) ==
    /\ http' = ~block
    /\ temp' = (IF minutes > 0 /\ ~block THEN For(minutes) ELSE "no")
    /\ timer' = (IF minutes > 0 THEN now + Units(minutes) ELSE timer)

\* The flags and the timer are set, and unset again if HTTP is blocked or set for good.
SetBlockHttp(block, minutes) ==
    /\ http' = ~block
    /\ temp' = (IF minutes > 0 /\ ~block THEN For(minutes) ELSE "no")
    /\ timer' = (IF minutes > 0 /\ ~block THEN now + Units(minutes) ELSE None)

Notes(what, happened) == mishap' = IF happened THEN mishap \cup {what} ELSE mishap

\* Nothing of this waits: the update thread is in front of it or behind it.
InUiThread(block, minutes) ==
    /\ Serves
    /\ SetBlockHttp(block, minutes)
    /\ IF saver # "idle" THEN Notes("thread", TRUE) ELSE Notes("queued", Queued)

UserHttp(block, minutes) ==
    /\ InUiThread(block, minutes)
    /\ due' = Queued
    /\ asked' = (IF block THEN "block" ELSE IF minutes > 0 THEN "temp" ELSE "allow")
    /\ granted' = (granted \/ (~block /\ minutes = 0))
    /\ UNCHANGED <<now, rules, saver, disk>>

\* The tray menu's "Allow HTTP"; the button of the log and the box among the ports.
TrayBlockHttp == UserHttp(IF temp = "no" THEN http ELSE FALSE, 0)

ToggleHttp == UserHttp(http, 0)

\* "Allow HTTP for 15 minutes", "... 60 minutes": a second time, they end it.
TrayTempAllow(minutes) ==
    IF temp # For(minutes) THEN UserHttp(FALSE, minutes) ELSE UserHttp(TRUE, 0)

\* What was asked for a time has ended.
Ends == asked' = IF asked = "temp" THEN "block" ELSE asked

HttpTimerFires ==
    /\ timer # None /\ timer <= now /\ ~due
    /\ due' = TRUE
    /\ UNCHANGED <<now, rules, http, temp, timer, asked, mishap, saving>>

\* Mutant of HttpTimer: the message reaches a window that does not know the timer.
HttpTimerDropped ==
    /\ due
    /\ due' = FALSE
    /\ Serves
    /\ UNCHANGED <<now, rules, http, temp, timer, asked, mishap, saving>>

\* TIMER_TEMPALLOWHTTP: HTTP is toggled, not blocked.
HttpTimer ==
    /\ due
    /\ due' = FALSE
    /\ Serves
    /\ SetBlockHttp(http, 0)
    /\ Notes("thread", saver # "idle")
    /\ Ends
    /\ UNCHANGED <<now, rules, saving>>

\* Configuration::Save, in the UI thread: an allow for a time ends.
SaveConfig ==
    /\ Serves
    /\ IF temp = "no" THEN UNCHANGED <<http, temp, timer, due, asked, mishap>>
       ELSE /\ InUiThread(http, 0) /\ due' = Queued /\ Ends
    /\ disk' = http'
    /\ UNCHANGED <<now, rules, saver, granted>>

\* The same in an update thread.  It looks at the flags ...
SaveStarts ==
    /\ saver = "idle" /\ "thread" \in Mishaps
    /\ saver' = (IF temp = "no" THEN "write" ELSE "block")
    /\ UNCHANGED <<now, rules, httpNow, disk, granted>>

\* ... calls SetBlockHttp(AllowHttp), which sends messages to the UI thread ...
SaveBlocks ==
    /\ saver = "block"
    /\ http' = ~http
    /\ Ends
    /\ saver' = "kill"
    /\ UNCHANGED <<now, rules, temp, timer, due, mishap, disk, granted>>

SaveKills ==
    /\ saver = "kill" /\ Serves
    /\ temp' = "no" /\ timer' = None
    /\ due' = Queued /\ Notes("queued", Queued)
    /\ saver' = "write"
    /\ UNCHANGED <<now, rules, http, asked, disk, granted>>

\* ... and writes the file.
SaveWrites ==
    /\ saver = "write"
    /\ disk' = http
    /\ saver' = "idle"
    /\ UNCHANGED <<now, rules, httpNow, granted>>

-----------------------------------------------------------------------------
Ui ==
    \/ \E a \in Addresses, d \in {Short, Long} : AllowFor(a, d) \/ BlockFor(a, d)
    \/ Loaded \/ Reload \/ TempAllowTimer
    \/ TrayBlockHttp \/ ToggleHttp \/ \E m \in {15, 60} : TrayTempAllow(m)
    \/ HttpTimer \/ SaveConfig

Next ==
    \/ Tick \/ Ui \/ HttpTimerFires
    \/ SaveStarts \/ SaveBlocks \/ SaveKills \/ SaveWrites

\* Timers fire and are served, dialogs end, a thread that saves goes on; nobody has to ask
\* for anything.
Fairness ==
    /\ WF_vars(Loaded) /\ WF_vars(TempAllowTimer)
    /\ WF_vars(HttpTimerFires) /\ WF_vars(HttpTimer)
    /\ WF_vars(SaveBlocks) /\ WF_vars(SaveKills) /\ WF_vars(SaveWrites)

Spec == Init /\ [][Next]_vars /\ Fairness

-----------------------------------------------------------------------------
Horizon == MaxTime + Short + Long

Rules == [until : 0 .. Horizon, addr : Addresses]

\* The variables have the values that the code gives them.
TypeOK ==
    /\ now \in 0 .. MaxTime
    /\ allowlist \subseteq Rules /\ blocklist \subseteq Rules
    /\ Addrs(allowlist) \subseteq Addresses
    /\ tempallow \subseteq Addrs(allowlist) /\ tempblock \subseteq Addrs(blocklist)
    /\ passes \subseteq Addresses /\ again \subseteq Addresses
    /\ ui \in {"loop", "loading", "stopped"}
    /\ http \in BOOLEAN /\ temp \in {"no", "short", "long"} /\ timer \in {None} \cup 0 .. Horizon
    /\ due \in BOOLEAN /\ mishap \subseteq {"queued", "thread"}
    /\ asked \in {"block", "temp", "allow"}
    /\ saver \in {"idle", "block", "kill", "write"}
    /\ disk \in BOOLEAN /\ granted \in BOOLEAN

\* An address that is allowed passes until its time is over, and what passes was allowed
\* (logproc.cpp:918, :1114; lists.cpp:571).  Not so an address that was allowed a second time
\* while the first rule was there: it is blocked when the first of them ends, since erase takes
\* out every range of its addresses.
Unended == {e \in allowlist : e.until >= now}

AllowLasts ==
    ui = "loop" => /\ passes \subseteq Listed
                   /\ Addrs(Unended) \ again \subseteq passes

\* HTTP is allowed if the user has asked for it and the time, if there is one, is not over;
\* the timer runs for an allow that has an end and for no other (mainproc.cpp:181, :218, :900).
\* Since the timer toggles, that needs each change of HTTP to stop it: except when a message
\* of it is in the queue already, or when the change meets a save in an update thread.  And
\* what is saved says that HTTP is allowed only if the user has at some time allowed it for
\* good (configuration.cpp:873).
HttpAsAsked ==
    saver = "idle" /\ mishap = {} =>
        /\ http <=> asked # "block"
        /\ temp # "no" <=> asked = "temp"
        /\ timer # None <=> asked = "temp"
        /\ disk => granted

\* What is allowed for a time is allowed no longer once the time is over (or it is asked for
\* again), unless the UI thread has locked itself out (logproc.cpp:1110, mainproc.cpp:897).
TempEnds ==
    /\ \A a \in Addresses :
          (a \in passes /\ a \notin Addrs(Unended))
              ~> (a \notin passes \/ a \in Addrs(Unended) \/ ~Serves)
    /\ (temp # "no" /\ timer <= now) ~> (temp = "no" \/ timer > now \/ ~Serves)
=============================================================================
