----------------------------- MODULE ListCache -----------------------------
(***************************************************************************)
(* The list cache: LoadLists (peerblock/lists.cpp) reads every enabled     *)
(* list file and writes what it got to cache.p2b, or, when a checksum over *)
(* the files' names and times equals CacheCrc of the configuration, reads  *)
(* cache.p2b alone.  The cache, the configuration and the list files are   *)
(* written at different times, by different threads, and the program may   *)
(* end between any two of the writes.                                      *)
(*                                                                         *)
(* A list's content and its file's time are one number, its version.  What *)
(* the driver, the cache and the checksum hold is a function from lists to *)
(* versions, 0 for a list they have nothing of.  Which addresses come of   *)
(* the lists is RangeLists' business.                                      *)
(***************************************************************************)
EXTENDS Integers

CONSTANTS NLists,     \* lists are numbered in the configuration's order
          MaxVersion, \* bound on how often the lists are written
          FaultSets   \* which of the faults below may happen in one behaviour

Faults == {"crash", \* the process ends at any point
           "toggle", \* the user enables or disables lists
           "appear", \* a list file that was missing is written
           "nested", \* another program asks for a reload while lists are loading
           "midsave", \* the configuration is saved while lists are loading
           "load",  \* a list file cannot be read
           "open",  \* cache.p2b cannot be opened for writing
           "full"}  \* the disk is full: ofstream's errors are not looked at

ASSUME ListsAssumption == NLists \in Nat \ {0} /\ MaxVersion \in Nat \ {0}
ASSUME FaultsAssumption == FaultSets \subseteq SUBSET Faults

VARIABLES faults,  \* the faults of this behaviour
          file,    \* list files
          cache,   \* cache.p2b
          conf,    \* peerblock.conf: the lists enabled and CacheCrc
          enabled, \* g_config's lists
          crc,     \* g_config.CacheCrc
          pc,      \* what the UI thread or the loading thread is doing
          dialog,  \* the loading dialog, in which the UI thread serves messages: "none",
                   \* "start" (WM_PB_LOADLISTS is not registered yet) or "window"
          i,       \* GenCacheFuncs::i, counting static and dynamic lists together
          work,    \* LoadLists' block list
          driver,  \* the lists whose ranges the driver has
          told,    \* of what the user has been told (a list, or 0: the cache) that it failed
          cut,     \* the driver's ranges are of a damaged cache
          owed     \* the lists have to be checked again, as asked

disk == <<file, cache, conf>>
mem  == <<enabled, crc>>
vars == <<faults, disk, mem, pc, dialog, i, work, driver, told, cut, owed>>

Lists    == 1 .. NLists
Contents == [Lists -> 0 .. MaxVersion]
Nothing  == [l \in Lists |-> 0]

NoCache == [kind |-> "none", of |-> Nothing]

\* A file of size 0, or with less than a header, loads as an empty list; one that ends
\* further on makes the loader throw, with nothing or a part of the ranges loaded.
Kinds == {"none", "empty", "torn", "whole"}

\* The checksum stands for what it is computed of: the enabled lists' files that exist.
Checksum(en) == [l \in Lists |-> IF l \in en THEN file[l] ELSE 0]

Init ==
    /\ faults \in FaultSets
    /\ file \in [Lists -> {0, 1}]
    /\ cache = NoCache
    /\ conf = [enabled |-> Lists, crc |-> Nothing]
    /\ enabled = {} /\ crc = Nothing
    /\ pc = "down"
    /\ dialog = "none"
    /\ i = 1
    /\ work = Nothing /\ driver = Nothing
    /\ told = {} /\ cut = FALSE
    /\ owed = FALSE

\* The process is gone, and with its handle the driver's ranges.
Ended ==
    /\ pc' = "down"
    /\ enabled' = {} /\ crc' = Nothing
    /\ dialog' = "none" /\ i' = 1 /\ work' = Nothing
    /\ driver' = Nothing /\ cut' = FALSE

-----------------------------------------------------------------------------
(* LoadLists is called *)

\* The configuration is loaded and the lists are.
Start ==
    /\ pc = "down"
    /\ enabled' = conf.enabled /\ crc' = conf.crc
    /\ pc' = "check" /\ dialog' = "start"
    /\ UNCHANGED <<faults, disk, i, work, driver, told, cut, owed>>

\* WM_PB_LOADLISTS, and the program's own calls.
Reload ==
    /\ pc = "idle"
    /\ pc' = "check" /\ dialog' = "window"
    /\ owed' = TRUE
    /\ UNCHANGED <<faults, disk, mem, i, work, driver, told, cut>>

\* Temporary allows have expired: LoadLists(NULL).
TempAllowExpired ==
    /\ pc = "idle"
    /\ pc' = "check" /\ dialog' = "none"
    /\ UNCHANGED <<faults, disk, mem, i, work, driver, told, cut, owed>>

\* The list manager closes.
Toggle ==
    /\ pc = "idle" /\ "toggle" \in faults
    /\ enabled' \in SUBSET Lists
    /\ pc' = "check" /\ dialog' = "window"
    /\ UNCHANGED <<faults, disk, crc, i, work, driver, told, cut, owed>>

\* WM_PB_LOADLISTS while the loading dialog serves messages: LoadLists locks cacheLock,
\* which its caller holds, and that is undefined.  Either the thread waits for itself, or
\* the library throws and Main_DlgProc ends the program.
ReloadNested ==
    /\ pc \in {"gen", "save"} /\ dialog = "window" /\ "nested" \in faults
    /\ owed' = TRUE
    /\ \/ pc' = "hung" /\ UNCHANGED <<mem, dialog, i, work, driver, cut>>
       \/ Ended
    /\ UNCHANGED <<faults, disk, told>>

-----------------------------------------------------------------------------
(* LoadLists *)

\* LoadLists returns: its block list and GenCacheFuncs are gone.
Return == pc' = "idle" /\ dialog' = "none" /\ work' = Nothing /\ i' = 1

\* Mutant of IsCacheValid: the new checksum is not noted.
IsCacheValidUnset ==
    /\ pc = "check"
    /\ pc' = IF Checksum(enabled) # crc \/ cache.kind = "none" THEN "gen" ELSE "read"
    /\ owed' = FALSE
    /\ UNCHANGED <<faults, disk, mem, dialog, i, work, driver, told, cut>>

\* GenCache asks IsCacheValid, which notes the new checksum before anything is loaded.
IsCacheValid ==
    /\ pc = "check"
    /\ crc' = Checksum(enabled)
    /\ pc' = IF crc' # crc \/ cache.kind = "none" THEN "gen" ELSE "read"
    /\ owed' = FALSE
    /\ UNCHANGED <<faults, disk, enabled, dialog, i, work, driver, told, cut>>

\* A cache that cannot be parsed is removed, and read again.
ReadCache ==
    /\ pc = "read"
    /\ work' = cache.of
    /\ cut' = (cache.kind # "whole")
    /\ cache' = IF cache.kind = "torn" THEN NoCache ELSE cache
    /\ pc' = "send"
    /\ UNCHANGED <<faults, file, conf, mem, dialog, i, driver, told, owed>>

\* Mutant of Process: the step to the next list is only made for an enabled one.
ProcessEnabledOnly ==
    /\ pc = "gen" /\ i <= NLists
    /\ work' = IF i \in enabled THEN [work EXCEPT ![i] = file[i]] ELSE work
    /\ i' = IF i \in enabled THEN i + 1 ELSE i
    /\ UNCHANGED <<faults, disk, mem, pc, dialog, driver, told, cut, owed>>

\* GenCacheFuncs::Process, a call for each list.
Process ==
    /\ pc = "gen" /\ i <= NLists
    /\ work' = IF i \in enabled THEN [work EXCEPT ![i] = file[i]] ELSE work
    /\ i' = i + 1
    /\ UNCHANGED <<faults, disk, mem, pc, dialog, driver, told, cut, owed>>

\* Mutant of ProcessFails: does not return after its own step to the next list.
ProcessFailsTwice ==
    /\ pc = "gen" /\ i <= NLists
    /\ i \in enabled /\ file[i] # 0 /\ "load" \in faults
    /\ told' = told \cup {i}
    /\ i' = i + 2
    /\ UNCHANGED <<faults, disk, mem, pc, dialog, work, driver, cut, owed>>

\* A list that cannot be read is left out, with a message.
ProcessFails ==
    /\ pc = "gen" /\ i <= NLists
    /\ i \in enabled /\ file[i] # 0 /\ "load" \in faults
    /\ told' = told \cup {i}
    /\ i' = i + 1
    /\ UNCHANGED <<faults, disk, mem, pc, dialog, work, driver, cut, owed>>

\* After all lists: list::save opens cache.p2b, which empties it.
SaveOpen ==
    /\ pc = "gen" /\ i = NLists + 1
    /\ pc' = "save"
    /\ cache' = [kind |-> "empty", of |-> Nothing]
    /\ UNCHANGED <<faults, file, conf, mem, dialog, i, work, driver, told, cut, owed>>

\* The exception ends the loading thread, or LoadLists if there is none.
SaveOpenFails ==
    /\ pc = "gen" /\ i = NLists + 1 /\ "open" \in faults
    /\ told' = told \cup {0}
    /\ \/ dialog # "none" /\ pc' = "send" /\ cut' = FALSE /\ UNCHANGED <<dialog, i, work>>
       \/ dialog = "none" /\ Return /\ cut' = cut
    /\ UNCHANGED <<faults, disk, mem, driver, owed>>

SaveSome ==
    /\ pc = "save" /\ cache.kind = "empty"
    /\ cache' = [cache EXCEPT !.kind = "torn"]
    /\ UNCHANGED <<faults, file, conf, mem, pc, dialog, i, work, driver, told, cut, owed>>

SaveDone ==
    /\ pc = "save"
    /\ pc' = "send"
    /\ \/ cache' = [kind |-> "whole", of |-> work]
       \/ cache' = cache /\ "full" \in faults
    /\ cut' = FALSE
    /\ UNCHANGED <<faults, file, conf, mem, dialog, i, work, driver, told, owed>>

\* Mutant of SetRanges: only if there is something to block.
SetRangesNonEmpty ==
    /\ pc = "send"
    /\ driver' = IF work = Nothing THEN driver ELSE work
    /\ Return
    /\ UNCHANGED <<faults, disk, mem, told, cut, owed>>

\* g_filter->setranges
SetRanges ==
    /\ pc = "send"
    /\ driver' = work
    /\ Return
    /\ UNCHANGED <<faults, disk, mem, told, cut, owed>>

LoadStep == \/ IsCacheValid \/ ReadCache \/ Process \/ ProcessFails
            \/ SaveOpen \/ SaveOpenFails \/ SaveSome \/ SaveDone \/ SetRanges

-----------------------------------------------------------------------------
(* Around it *)

\* The update thread moves a new file over a list, or another program writes one.
UpdateList ==
    /\ \E l \in Lists : /\ file[l] > 0 \/ "appear" \in faults
                        /\ file[l] < MaxVersion
                        /\ file' = [file EXCEPT ![l] = @ + 1]
    /\ UNCHANGED <<faults, cache, conf, mem, pc, dialog, i, work, driver, told, cut, owed>>

\* Configuration::Save: a temporary file is moved over the old one.  From the UI thread
\* between its messages; from the update thread, or when Windows ends the session, while
\* lists are loading.
SaveConfig ==
    /\ pc = "idle" \/ (pc \notin {"down", "idle"} /\ "midsave" \in faults)
    /\ conf' = [enabled |-> enabled, crc |-> crc]
    /\ UNCHANGED <<faults, file, cache, mem, pc, dialog, i, work, driver, told, cut, owed>>

Exit ==
    /\ pc = "idle"
    /\ conf' = [enabled |-> enabled, crc |-> crc]
    /\ Ended
    /\ UNCHANGED <<faults, file, cache, told, owed>>

Crash ==
    /\ pc # "down" /\ "crash" \in faults
    /\ Ended
    /\ UNCHANGED <<faults, disk, told, owed>>

Next == \/ Start \/ Reload \/ TempAllowExpired \/ Toggle \/ ReloadNested
        \/ LoadStep
        \/ UpdateList \/ SaveConfig \/ Exit \/ Crash

\* The threads of LoadLists are scheduled.
Spec == Init /\ [][Next]_vars /\ WF_vars(LoadStep)

-----------------------------------------------------------------------------
(* Properties *)

\* Every variable has its type; the lists are left when the last one is done; only a full
\* disk or an end of the program damages the cache.
TypeOK ==
    /\ faults \in FaultSets
    /\ file \in Contents
    /\ cache \in [kind : Kinds, of : Contents]
    /\ cache.kind # "whole" => cache.of = Nothing
    /\ conf \in [enabled : SUBSET Lists, crc : Contents]
    /\ enabled \subseteq Lists /\ crc \in Contents
    /\ pc \in {"down", "idle", "check", "read", "gen", "save", "send", "hung"}
    /\ dialog \in {"none", "start", "window"}
    /\ i \in 1 .. NLists + 1
    /\ work \in Contents /\ driver \in Contents
    /\ told \subseteq {0} \cup Lists
    /\ cut \in BOOLEAN
    /\ owed \in BOOLEAN

\* of has every enabled list as new as the files, but for what the user has been told, and
\* no other list.  (A list whose file appears between the checksum and its turn stays when
\* it is disabled: to the checksum it was missing, and that is all the same.)
Current(of, en) ==
    \/ 0 \in told
    \/ \A l \in Lists : IF l \in en THEN l \in told \/ of[l] >= file[l]
                       ELSE of[l] = 0 \/ "appear" \in faults

\* A whole cache that the next LoadLists, of this process or of the next, would accept has
\* the lists.
CacheHonest ==
    cache.kind = "whole" =>
        /\ pc = "idle" /\ crc = Checksum(enabled) => Current(cache.of, enabled)
        /\ pc = "down" /\ conf.crc = Checksum(conf.enabled) => Current(cache.of, conf.enabled)

\* When LoadLists is done and no file has been written since, the driver blocks what the
\* lists say, unless the user has been told or a full disk has damaged the cache.
DriverCurrent ==
    pc = "idle" /\ crc = Checksum(enabled) =>
        Current(driver, enabled) \/ (cut /\ "full" \in faults)

\* LoadLists returns, or hangs for a reload from within.
LoadEnds == pc = "check" ~> pc \in {"idle", "down", "hung"}

\* doc/hacking.txt: other programs can force a reload; the lists are then checked.
ReloadHonoured == owed ~> ~owed
=============================================================================
