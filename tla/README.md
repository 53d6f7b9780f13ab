# PeerBlock: a TLA+ verification project

PeerBlock blocks IPv4 traffic to and from the addresses of downloaded lists.  A kernel
driver (`src/src/pbfilter`) compares connections with sorted arrays of address ranges; a
Windows program (`src/src/peerblock`) loads and caches lists, updates them, hands them to
the driver and shows what the driver reports.  A library (`src/src/lib/libp2p`) reads and
writes the lists and computes with them.  Paths below are relative to `src/src/`.

This directory holds TLA+ modules translated from that code, TLC configurations that check
them on small instances, and TLAPS proofs that hold for every value of the constants.

## 1. Inventory

| Component | State | Operations | Module |
|---|---|---|---|
| Notification queue, `pbfilter/notifyqueue.c` | two linked lists (waiting requests, buffered notifications), a count, a spin lock; cancel routine and status of each IRP | `Notification_Send`, `Notification_Recieve`, `Notification_OnCancel`, `DestroyNotificationQueue` | `NotifyQueue`, `NotificationChannel` |
| Driver ranges and classification, `pbfilter/common.c`, `filter_wfp.c` | `g_internal`: `block`, blocked and allowed ranges with their label ids, port arrays, two spin locks | `SetRanges`, `CheckRanges`, classify callouts, `IOCTL_PEERBLOCK_HOOK/SETRANGES/SET*PORTS`, cleanup | `FilterClient`, `RangeSearch` |
| Driver for Windows XP, `pbfilter/filter.c` | the same, over the IP filter hook | the same | - |
| Filter client, `peerblock/pbfilter_base.cpp`, `pbfilter_wfp.cpp` | `m_block`, `m_blocklabels(id)`, `m_allowlabels(id)`, `m_onaction`, `m_runthread`, `m_exitevt`, `m_lock`, the notification being read | `setblock`, `setranges`, `setactionfunc`, `thread_func`, `start_thread`, `stop_thread` | `FilterClient` |
| Driver service, `peerblock/driver.cpp` | the service manager's state, `m_loaded`, `m_started`, `m_stoppable`, the device handle | `load`, `start`, `stop`, `close`, `rawio` | - |
| Range lists, `libp2p/list.cpp`, `compact_list.cpp`, `range.hpp` | lists of named ranges; sorted compact lists | `insert`, `erase`, `optimize`, compaction, lookup | `RangeLists` |
| List files, `libp2p/list_p2b.cpp`, `list_p2p.cpp` | files of P2B versions 1-3, text | `load`, `save` | `ListCache` (what a cut file loads as); rest not modelled |
| List cache, `peerblock/lists.cpp`, `loadingproc.cpp` | `cache.p2b`, `g_config.CacheCrc`, list files, `cacheLock` | `LoadLists`, `GenCache`, `IsCacheValid`, saving and reading the cache | `ListCache` |
| List updates, `peerblock/updatelists.cpp` | `g_updater`, `g_ut`, `g_lastupdatelock`, `LastUpdate`, the static thread handle, `aborted` | `UpdateLists`, `_Process`, window messages, `preconnect_func` | `ListUpdate` |
| Log window and temporary allows, `peerblock/logproc.cpp` | `g_log`, `g_tempallow`, `g_allowlist`, `g_tempblock`, `g_blocklist`, timers | `LogFilterAction`, `Log_On*` | `FilterClient` (callback, creation, destruction), `TempRules` (rules, timers), `HistoryLog` (what is queued) |
| History database, `peerblock/logproc.cpp` (`_Commit`), `mainproc.cpp` (`Main_ProcessDb`), `historyproc.cpp`, `threaded_sqlite3x.hpp` | `dbqueue`, `history.db`, the archive files, `g_con` with its lock and its one transaction, `LastArchived` | `operator()`, `_Commit`, rollback, halving, archiving, clearing, export | `HistoryLog` |
| Main window, `peerblock/mainproc.cpp`, `pb.cpp` | `g_filter`, `g_config.Block`, HTTP allow, the mutex of the single instance | `SetBlock`, `SetBlockHttp`, `Shutdown`, window messages | `FilterClient` (`SetBlock`, shutdown), `TempRules` (`SetBlockHttp`), `HistoryLog` (`Main_ProcessDb`) |
| Configuration, `peerblock/configuration.cpp` | `g_config`, `peerblock.conf` | `Load`, `Save` | `TempRules` (what `Save` does to HTTP), `ListCache` (the checksum) |
| WFP session, trace log, dialogs, `pbcore` | see `PROJECT.json` | | not modelled |

Interactions.  The program calls the driver with `DeviceIoControl`; one overlapped
`IOCTL_PEERBLOCK_GETNOTIFICATION` at a time waits for a notification in the queue, and is
cancelled with `CancelIo` when the program stops.  The driver keeps *pointers* to range
labels, strings of the program's memory, and returns them in notifications together with
the id the program gave when it set the ranges.  Three kinds of threads meet in
`pbfilter_base`: the UI thread (block list, window creation and destruction, shutdown), an
update thread (allow list, from curl's preconnect callback) and `thread_func` (reads
notifications, calls `LogFilterAction` under `m_lock`).  `LogFilterAction` sends ListView
messages, which only the UI thread can serve; what it queues the UI thread writes to the
history database, which it shares with a thread of its own making, `Main_ProcessDb`.  Update
threads send messages to their windows, save the configuration and replace list files, all
of which the UI thread reads.

Hard behaviours.  Two spin locks taken in opposite orders; requests cancelled while a
callout dequeues them; a cleanup that takes no lock; memory the driver points to and the
program frees; a lock held across a message to another thread; requests and allocations
that fail half way through an operation; modal dialogs that re-enter functions of the same
thread; updates that outlive their window; caches validated by a checksum saved elsewhere;
transactions that the database ends by itself; timers whose messages arrive after they were
killed.
`PROJECT.json` lists each hazard at its line, with the properties aimed at it.

What makes each component correct:

* queue: each request is completed exactly once; notifications arrive in order, at most
  once; a reader never sleeps beside data; at most 64 are queued; calls return; closing the
  device completes what waits;
* filter: an accepted label pointer is valid when compared and while it is copied (the
  callback gets the copy); the callback runs only on a live object; what the program says it blocks is blocked; the program can
  stop;
* range lists: the operations mean the set operations they are named for;
* cache: the driver ends up with the lists the configuration names, after any crash;
* updates: one at a time, as the lock is documented to ensure; what is downloaded gets to
  the driver; nothing half downloaded stays; an aborted update stops;
* temporary allows: what the user allowed passes until its time is over, and no longer;
* history: each row once, in order, none lost untold, none deleted before a younger one or
  before it was archived.

## 2. Plan

Order of the modules, the most important behaviour first:

1. `NotificationChannel`, `NotifyQueue`: the driver's queue and its abstract
   specification; proofs of type correctness, request ownership, no lost wakeup, the
   counter, and the refinement.  *Done.*
2. `FilterClient`: ranges, labels and shutdown, composed with the channel (one request);
   proofs of `TypeOK`, `CallbackAlive`, `BlockLabelsLive`, and that it implements the
   channel.  *Done.*
3. `RangeSearch`: the driver's binary search, with the proof of its verdict.  *Done.*
4. `RangeLists`: `erase`, `optimize`, compaction and lookup, turn by turn of their loops;
   proofs of all its safety properties, of what its lookup and `erase_pred` decide, and
   that what it sends is what `RangeSearch` takes.  *Done.*
5. `ListCache`: `LoadLists`, `GenCache`, `IsCacheValid` with failures and ends of the
   process; proofs of `TypeOK`, `CacheHonest` and `DriverCurrent`.  *Done.*
6. `ListUpdate`: window, timers and threads against the comment of `UpdateLists`; proofs of
   all its safety properties.  *Done.*
7. `TempRules`: temporary allows and blocks with their timers, temporary HTTP allows; proofs
   of all its safety properties.  *Done.*
8. `HistoryLog`: the history queue with its transactions and their rollback, the cleanup, the
   archive, ends of the process; proofs of all its safety properties.  *Done.*
9. Driver service: load, start, stop with a driver that a crash left running.
10. The port arrays and the port sets of the configuration.

Abstract specifications: the channel.  What the others promise is said by properties over
history variables (`Current` of `ListCache`, `asked` of `TempRules`, `logged` of
`HistoryLog`): each is one sentence about two sets, for which a second state machine would
be the longer text.

## 3. The modules and the code

`PROJECT.json` ("map") gives the lines of every definition.  Two conventions hold
everywhere: one action per handler or per critical section, with the name of its function;
and a mutant is an operator that stands in front of the definition it is a broken version
of (its comment begins with "Mutant of"), and is used by nothing else.

**`NotificationChannel`** is what the queue promises: a lossy first-in first-out channel of
at most `Capacity` notifications in which the oldest request is answered first.

**`NotifyQueue`** is `notifyqueue.c`.  `irp_list`, `notification_list` and `queued` are the
fields of `NOTIFICATION_QUEUE`; `status`, `routine`, `sysbuf` belong to each IRP.
`Notification_Send` is `SendBuffer` (nobody waits) or `SendHand` and then, after the lock is
released, `SendComplete`.  `Notification_Recieve` is `RecieveTooSmall`, `RecieveWait` or
`RecieveTake`; after the last two the code takes the cancel lock with `queue->lock` held,
so `SetCancelRoutine` and `RecieveComplete` are steps of their own.  `CancelIrp` is
`IoCancelIrp` up to the cancel routine, `OnCancelFind`/`OnCancelMiss`/`OnCancelReturn` are
`Notification_OnCancel`.  `Destroy*` are the turns of the two loops of
`DestroyNotificationQueue`, which takes no lock.  A list operation is atomic.

**`FilterClient`** is `pbfilter_base` against the driver.  `drv` is the driver's copy of the
ranges with the label buffer they point to and the id they came with; `labels` and `sid`
are the program's.  A call of `setranges` is `SetBuild`, `SetWrite` or `SetWriteFails`,
`SetLoad`, `SetStore`, `SetSwap`, `SetReturn`, because the id is incremented without a lock
and the label buffers are swapped, and the old one freed, only after the request.  (The
swap of the two vectors is one step.)  `thread_func` is `ReadNotification`, `ReadFails` (the
thread ends, or waits all the same), `WaitExit` (`CancelIo` withdraws a request that waits),
`Cancelled` (`getresult`, the thread ends), `LoopExit`, `GetResult` or `GetResultFails`,
`CheckLabel` (the ids are compared), `CopyLabel` (the label's characters are copied into
`action::label`, a `std::wstring`; whatever comes later reads the copy), the steps of
`LogFilterAction` (`ShowMessage`, `InsertMessage`, `StoreAction`, of which the two messages
need the UI thread in its message loop) and `ReleaseLock`.  The UI thread opens the log, sets
and clears `m_onaction` under `m_lock`, destroys the log, stops the thread and closes the
filter.  The queue is that of `NotificationChannel`, with one request and a completion that
is part of the step that dequeues: `NotifyQueue` is proved to implement that channel
(`ChannelRefinement`), and so are the steps of this module (`ClientChannel`), so that the two
modules agree on what goes on between callouts and `thread_func`.  `m_runthread` and the event are one variable: nothing runs between the
assignment and `SetEvent`.  `Classify` reads `block` and the ranges in one step.

**`RangeSearch`** is `CheckRanges` of `filter_wfp.c` with `inranges` of `common.c`: one step
per turn of the loop, arrays from index 0 as in the code.

**`RangeLists`** is the way of a list from the loaded files to `setranges`: `list::erase` of a
`compact_list` (the compaction, the lookup by binary search, `erase_pred`'s cases, the
rounds over the parts that were split off) and `list::optimize`.  A turn of a loop is a
step, in `setranges` too (`CopyRange`; `SetRanges` is the request).  A sort is one step, to
the permutation that orders by start and end (and keeps the order of equal ranges, as
`std::list::sort` does; of the pairs of a compact list equal ones are the same).  `use = "allow"` is
the shorter path of `preconnect_func`.  Sequences start at 1, so `low` and `high` are one
more than in the code.  The last `else` of `erase_pred` is not an action: one of the first
four cases always applies (`ErasePredDecides`).

**`ListCache`** is `lists.cpp` around `cache.p2b`.  A list's file is a version number, its
content and its time at once; `Checksum` stands for the CRC and is injective (two sets of
lists with the same CRC are out of scope), and is computed in one step.  `IsCacheValid`
notes the checksum in `g_config` *before* anything is loaded; `Process` is a turn of
`GenCacheFuncs::Process` for one list (static and dynamic lists are counted together), a
missing file being version 0; `SaveOpen`, `SaveSome`, `SaveDone` are the stages at which a
reader of the file could find it, were the process to end; `ReadCache` is the other
branch, in which a cache that cannot be parsed is removed and loaded again, as empty.
`SaveConfig`, `UpdateList`, `Exit`, `Crash` are what happens around it.  `ReloadNested` is
a second `LoadLists` inside the dialog of the first: `cacheLock` is a `std::mutex`, and
locking one's own is undefined, so the step either hangs or ends the program.

**`ListUpdate`** is `updatelists.cpp`.  An update is a number: a window (`win`) and its thread
(`pc`).  `updater` is `g_updater`, with -1 for the modal window's `INVALID_HANDLE_VALUE`; `ut` is
the one object `g_ut` that every thread works on.  `UpdateLists` (the user asks), `ShowUpdate`
(the user asks while a hidden update runs) and `AutoUpdate` (`TIMER_UPDATE`) are the branches of
`UpdateLists`; `OnInitDialog` assigns `g_ut` and starts the thread.  `OnClose`, `OnAbort`,
`OnTimer`, `OnDestroy`, `ModalEnds` (what `DialogBox` does once `EndDialog` was called) are
the window's handlers.  `Setup`, `Poll`, `Result`, `ReadAll`, `Cleanup`, `Enable`,
`Finish*` are `_Process` between two points at which it sends a message to the window, which
returns only when the UI thread serves messages (`Answered`, `Pumps`).  `LoadLists` is here what
matters to an update: it reads each list's file at some moment, and it serves messages in a
dialog if it was given a window.  `temp` is who has a list's temporary file open, `left` whether it
is on the disk, `stale` which lists' files are newer than the driver's ranges.  `cut` is history:
what has happened that properties except.  When two threads are at work at once they delete
each other's `HandleData`, which is undefined behaviour: the model stops in that state
(`Overlap`).

**`TempRules`** is what is allowed for a time.  A rule of `g_allowlist` or `g_blocklist` is an
address with its end; `passes` is what the last `setranges` left out.  `LoadLists` subtracts
`g_tempallow` at once or, when the cache has to be made, at the end of its dialog (`Loaded`), in
which timers are served.  `TempAllowTimer` is `TIMER_TEMPALLOW` with the two `remove_if`s;
the destructor of the predicate reloads the lists (`TimerLoads`), inside the dialog a second
time under `cacheLock` (`ui = "stopped"`, see `ListCache`).  For HTTP, `SetBlockHttp` is the whole
function; the menu's cases, the log's button, the timer, which *toggles*, and
`Configuration::Save` call it.  `due` is the timer's message in the queue.  An update
thread's `Save` runs beside the UI thread, in the steps `SaveStarts` to `SaveWrites`.

**`HistoryLog`** is the way of a logged action: `Log` is `operator()`, which queues it; `Commit`
and `ForceCommit` are the two entries of `_Commit`, `Insert` a turn of its loop, `Inserted` the
check of the file's size, `ArchiveHalf` and `DeleteHalf` (of the rows before `MidRowid`) the
halving, `CommitTrans` the commit.
`con` is who holds `g_con`, `trans` whose transaction is open, `work` the table as that
transaction sees it, `db` as it is committed.  `InsertFails` shows a box, which serves
messages; `BoxClosed` is the lock's destructor: it rolls back, and where sqlite has already
done so (`SQLITE_FULL` and some others) the rollback throws and `con.leave()` is skipped
(`stuck`).  `TryClean`, `ArchiveOld`, `DeleteOld`, `DeleteFails` are `Main_ProcessDb` in its own
thread.  Both threads show what is thrown in a modal `ExceptionBox` with `g_con` still held,
and go on when the user closes it: the UI thread at a failed insert (`box`), while it archives
or deletes (`archivebox`, `deletebox`: `HalfBoxClosed`), and, with `g_con` left, after what
`_Commit` has thrown while the log is destroyed (`told`: `ToldClosed`; otherwise that box is as
good as the main window); `Main_ProcessDb` while it archives or deletes, and at a vacuum or
removal of `peerblock.log` that fails behind the commit (`archivebox`, `deletebox`, `donebox`:
`CleanerBoxClosed`).  `Log_OnDestroy`, `Exit`, `Crash`, `Start` are the ends and starts of the
process; `Log_OnDestroyInBox` is the first within a box, whose `Commit(true)` runs inside
`_Commit`.  (That it also destroys the mutex which the outer `_Commit` will release is undefined
and not modelled.)  A row is
its number; archives hold days, so time is counted in half days.

## 4. Runs

| Run | Module | What it shows | Bounds |
|---|---|---|---|
| `notify_queue` | `MCNotifyQueue` | requests are completed once, no request sleeps beside data, the counter, the refinement of the channel, calls return, cleanup answers every request; no deadlock | 2 processors, 1 reading thread, 2 requests, 2 notifications, capacity 2 |
| `filter_labels` | `MCFilterClient` | an accepted block label exists; no callback on a destroyed log; `stop_thread` ends | 1 processor, 1 update thread, 1 address, 2 calls of `setranges`, capacity 1 |
| `range_search` | `RangeSearch` | the verdict, the bounds of the reads, the end of the search | addresses 0..4, up to 4 ranges a list, all sorted disjoint arrays |
| `range_lists` | `MCRangeLists` | the driver gets sorted disjoint ranges of exactly the addresses blocked and not allowed, under names they had; the loops end | addresses 0..6; all lists of up to 2 ranges with ends in {0, 1, 2, 6}, up to 3 holes in one range, 2 names |
| `list_cache` | `ListCache` | an accepted cache has the lists; the driver has what they say; `LoadLists` ends | 2 lists, 2 versions, four sets of faults |
| `list_update` | `ListUpdate` | until a window is closed early one thread works; what is downloaded gets to the driver; temporary files and hidden windows go; an aborted thread stops | 1 list, 3 updates |
| `temp_rules` | `TempRules` | what is allowed is what was asked for, and it ends | 1 address, 2 rules at once, time 0..3 with allows of 1 and 2, both mishaps |
| `history_log` | `HistoryLog` | rows in order, once, none lost untold; archived before they are removed; the oldest first, and never all of them by halving; the queue drains | 3 rows, time 0..4 in half days, interval 2, two sets of faults |
| `label_read`, `close_terminates`, `list_reload`, `update_overlap` | | the findings of section 7 | |

Why these are enough.  In the queue two requests and two senders give every pair of racing
parties; capacity 2 is full, half full and empty.  One reading thread is what the program
has: only `thread_func` issues `IOCTL_PEERBLOCK_GETNOTIFICATION` and `CancelIo`.  (With two
such threads the opposite lock orders of `Notification_Recieve` and `Notification_OnCancel`
do deadlock.)  In `FilterClient` two calls of `setranges` give a notification of an older
list, of the current one and of one being set; more addresses or processors only repeat a
callout.  In `RangeLists` the ends {0, 1, 2, 6} meet every case of `erase_pred` at both ends of
the address space, with neighbours and gaps; three holes need the second round.  Versions
0 to 2 in `ListCache` are a missing, an old and a new file.

A behaviour of `list_cache` has one of the sets of faults of the `.cfg`: the process may end
at any step while files are missing, unreadable or cut off; or lists are enabled and
disabled, with the configuration saved at any step.  Section 6 says why not both.

Three updates are what it takes for a thread of a closed window, the update that takes its
object over, and a third one; one list is enough, because threads meet at a list's file and not
between lists (with two lists and three updates, 888,076 states, the invariants hold too, but
the liveness properties take too long for a run).  In `TempRules` one address can have
two rules, which is where they meet; with two lengths of time a rule can outlast a later
one.  In `HistoryLog` three rows can be in the queue, in the table's older and in its newer half;
half days make a day whose rows are partly old; four of them leave time for a second
cleanup.  A behaviour has one of two sets of faults, {crash, full} and {insert, archive}: each
pair has one fault of the transaction and one outside it.  The proofs of section 8 cover the
safety properties of these three modules for all bounds and all sets of faults.

Deadlock is checked in `notify_queue`.  The other configurations switch it off: there the
program has come to its end, the model to a bound or to `Overlap`, or the program hangs: as
a finding says, or, in `HistoryLog`, when it is left within the dialog of an export, where
`Log_OnDestroy` waits for a `g_con` that only the frames below it would leave.

## 5. Fairness

A thread or processor that is inside a function goes on with it: weak fairness of every
step that follows an entry, none of the entries (nobody has to send, cancel, classify or
reload).  In `FilterClient`, `ReaderStops` needs no more than that `thread_func` goes on (`Spec`);
the finding `close_terminates` is made under everything the scheduler and the message loop
can be asked for (`FairSpec`): the other threads go on too, and strong fairness where a step can
be switched on and off for ever by others: entering `m_lock`, a critical section, which wakes
its waiters, and a message to the UI thread, which it serves each time it comes back to its
message loop.
`DeviceIoControl` never waits.  `RangeSearch` and `RangeLists` are sequential:
`WF_vars(Next)`.  `ListCache`: weak fairness of the steps of `LoadLists`, whose loading thread
and message boxes are assumed to go on.  `ListUpdate`: weak fairness of every thread's own
steps (`select` returns within two seconds) and of what the UI thread does by itself; a
transfer need never end, nor a window be closed.  `TempRules`: timers fire and are served, a
loading dialog ends.  `HistoryLog`: `TIMER_COMMITLOG` comes again and again and threads go on; the
user need not close a box of either thread (`CloseBox` has no fairness), nor an export end, and
`QueueDrains` excepts both.

## 6. What the properties leave out

* `BlockLabelsLive` is about the block list, which one thread sets.  For the allow list,
  which two update threads (an aborted one and the next) can set at once, the same formula
  does not hold: both can store the same id.
* The startup "Auto-allow hack" (`mainproc.cpp:661`) and the update thread's life after
  `stop_thread` are not modelled: `StopThread` waits for calls of `setranges`.
* `CacheHonest` and `DriverCurrent` except what the user has been told (a list or the cache
  that failed, with a message box), and `DriverCurrent` a cache damaged by a full disk:
  `_save_p2b` does not look at the stream's errors, and a `cache.p2b` of size 0 loads as an
  empty list for as long as the checksum holds.  Where *crash* (or
  *nested*, which may end the program) meets *toggle* or *midsave*, the properties fail:
  - *crash* with *midsave*: the update thread (`updatelists.cpp:493`) or `WM_ENDSESSION` saves the
    configuration with the new checksum while the old `cache.p2b` is still there; the
    process ends; the next one accepts the old cache;
  - *crash* with *toggle*: lists are enabled or disabled, the cache is written, and the process
    ends before the configuration is saved; the next one accepts the cache for other
    lists; or it ends while the cache is written, and the torn cache is accepted, found
    unreadable, removed and, in spite of the trace message of `lists.cpp:550` ("will blow
    away cache.p2b and try again"), not generated again: nothing is blocked until the next
    change.

  And where *appear* meets *toggle*: a list's file that is missing when the checksum is taken
  and there when its turn comes stays in the cache after the list is disabled, since to the
  checksum it was never there.  (`Current` excepts this for sets with *appear*.)
* In `ListCache`, expired temporary allows reload lists only between other calls.  The timer's
  message can also be served inside the loading dialog, with the same effect as
  `ReloadNested`.

* `OneUpdate` and `ChangesLoaded` say nothing once a window was closed over a busy thread
  (`ChangesLoaded`: or once `g_ut` was taken over).  `UpdateCountdown` is 10 by default
  (`configuration.cpp:54`), and `OnTimer` sets `g_updater` to `NULL` before `OnDestroy` has loaded
  the lists, in a dialog that serves `TIMER_UPDATE`: `OneUpdate` excepts closing by the
  countdown too.  An exception while the transfers are set up leaves a hidden window, for which
  `g_updater` keeps every later automatic update out; `HiddenGoes` starts after it.
* In `ListUpdate`, a modal update's window that is destroyed within another `LoadLists` makes the
  UI thread hang (`load = "hung"`, `updatelists.cpp:1256`, the lock of `list_reload`).  That the
  list manager may change `g_config.DynamicLists` under the pointers of a running thread's
  transfers is not modelled.
* `AllowLasts` excepts an address allowed a second time while the first rule was there: the
  first one's end takes it out of `g_tempallow` and out of the driver's list, and the longer
  allow is lost.  That `g_tempblock` is never read, so that "Block for 15 minutes" blocks nothing,
  is in the model (`BlockFor` loads lists that say nothing of it) and in no property.
* `HttpAsAsked` excepts a message of the timer that was in the queue when the timer was
  killed, and a save in an update thread (`updatelists.cpp:493`) beside a change in the UI
  thread: then the toggle opens HTTP for good, or the file says that it is allowed, in spite of
  `configuration.cpp:873` ("make sure we don't accidentally startup allowed").
* `Accounted` counts as told the rows of a batch that had left the queue when a later insert
  failed: they are rolled back with the transaction, after a box.
* `ArchivedFirst` excepts time that passes between archiving and deleting: `now` is evaluated in
  each (`mainproc.cpp:746`, `:826`), and around midnight the rows of a new day are deleted
  unarchived.  It excepts a file that could not be opened, which the code passes over in
  silence.  A day at the boundary is archived twice; a database between
  `MaxHistorySize` and the size its pages have after a halving without vacuum is halved again
  at the next check; neither breaks a property.
* `QueueDrains` excepts a box of either thread that is shown with `g_con` held: as long as
  nobody closes the one of `Main_ProcessDb` (`mainproc.cpp:813`, `:852`, `:856`), every commit's
  try-lock fails and the queue grows; a box of `_Commit` itself (`logproc.cpp:347`) also holds the
  lock of the queue, which the filter's thread waits for with `m_lock` held (so that the log
  cannot be destroyed within it: `close_terminates`).  It excepts a
  running export, and a connection held by a thread that ended without leaving it
  (`threaded_sqlite3x.hpp:82`): after a rollback that threw in `Main_ProcessDb` nothing is
  written any more, and leaving the program waits for the lock.  When it is the UI thread's
  own, it goes on, since the lock is recursive, but no cleanup or export runs again.
* The export's loading thread holds `g_con` while it sends messages to the UI thread, which may
  be waiting for `g_con` to paint the history (`historyproc.cpp:599`): painting is not
  modelled.

## 7. Findings

* `label_read` (`pbfilter_base.cpp:202`): `setranges` frees the old labels without `m_lock`,
  while `thread_func` has compared the id of one (`:359`) and is about to copy its characters
  (`:360`).
* `close_terminates` (`logproc.cpp:713`): closing the log window waits for `m_lock`, whose
  holder waits for a message to be served by the thread that is closing it.
* `list_reload` (`lists.cpp:543`): the documented reload request (`doc/hacking.txt:15`) during the
  loading dialog locks a mutex its own thread holds.
* `update_overlap` (`updatelists.cpp:1222`): closing the update window sets `g_updater` to `NULL`
  while its thread works, and the next update starts a second one on the same `g_ut`; the
  comment at `updatelists.cpp:1444` says that `g_lastupdatelock` is to ensure that nobody else
  is updating, and it does not.

## 8. Proofs

All are checked by TLAPS for every value of the constants under the modules' `ASSUME`s.

* `NotifyQueueProofs`.  `TypeCorrect`, `NoLostWakeupInvariant` and `CounterDriftProperty` are
  inductive over the types.  `IrpOwnership` is not: that a request has one completer says
  nothing of what the next step of that completer does.  `Ownership` adds, for each party
  that can hold a request (the waiting list, a sender's hand, a thread in `Recieve` or in the
  cancel routine, the cleanup), that what it holds is pending (`HeldArePending`), that two
  parties hold different requests (`HeldOnce`) and that a pending request is held
  (`PendingAreHeld`); `CleanupShape` says which requests the cleanup can meet.
  `SameHolders` is the frame: a step that moves no request keeps all three.
  `ChannelRefinement`: a request counts as decided when it is dequeued, before
  `IoCompleteRequest`; with that mapping `SendHand` is the channel's answer and
  `SendComplete` a stuttering step.  The proof needs `Ownership` to know that a request
  that is dequeued was waiting.
* `FilterClientProofs`.  `TypeCorrect` needs `Delivered` (a request that has been answered has filled
  `pbn`) and, for the ids, `IdsInv`: an id and the calls of `setranges` that may still increment
  it are together no more than the calls made, an induction over the set of those calls.  `CallbackSafe`: `LockHeld` (the copy and the callback are under `m_lock`) and `ActionLives`
  (`m_onaction` is set only while the log is alive).  `LabelsSafe`: every place a notification
  can be in (driver, callout, queue, `pbn`, reader) obeys `NoteNamed`: if it carries the id
  the program has now, or the one it is about to have, its label is in the buffer the
  program has now, or is about to have (`Current`).  `ClientChannel`: the one request waits only while `thread_func` waits for it, and
  is idle when it asks again (`OneRequest`); then each of its steps and of the callouts is
  an offer, a question, a withdrawal or a collection of the channel, and closing the device
  discards what is queued.
* `RangeSearchProofs`.  `Split`: what lies in front of the interval starts before the address and what
  lies behind it does not, and the allowed list has been searched before the blocked one.
  `SearchNarrows`: with that and the types, the interval of a turn is smaller than the one
  before and never below empty, which is why the search ends.
* `RangeListsProofs`.  The properties are about the end of the way or about arrays that are
  complete; `ListInv` says what holds in the middle of each loop.  `Unique`: what is kept is
  disjoint and in order, what is to come is sorted and starts no earlier than the last
  range kept, and the two have together the addresses there were.  `SearchInv`: the ranges
  up to `low` start no later than the range in work ends, those from `high` on do.  `EraseInv`: the
  parts of the list (kept, made, still to do) have together the addresses that are listed
  and not allowed, once those still to do have lost theirs, and each part lies in a loaded
  range of its name.  `SendInv`: `ipcount` is the number of addresses copied, modulo its width,
  which needs the ranges disjoint.  `ListInv` was checked by TLC on the instance of
  `range_lists` before it was proved.  `LookupDecides` is why the lookup may look at one range
  only; `ErasePredDecides` and `EraseShrinks` are the reasons for which `erase` ends (that it does,
  under fairness, is `SetRangesReached`, which TLC checks).  `SentIsSearchable` composes the module
  with `RangeSearch`: what is sent is in its `Arrays`, the only thing it takes for granted.
* `ListUpdateProofs`.  `OneAtOnce`: `OneUpdate` says nothing of the step before; `AloneInv` says that as long as no
  window was closed early (`Quiet`) there is at most one window that is not gone, `updater`
  or `modal` knows it, and only its thread is busy, so that whoever opens a window finds
  none.  `AllLoaded`: `PendingInv` follows a downloaded list, which makes `stale` non-empty, to the
  `LoadLists` that reads it: `changes` is set as long as its window lives, the window is
  destroyed before `updater` is 0, and what `LoadLists` has still to read covers what is
  stale.  `TempsGo` is inductive over the types.
* `TempRulesProofs`.  `AllowedLast`: `RulesInv` relates `passes`, `tempallow` and the rules in
  each state of the UI thread, because between a change and the end of the dialog the driver
  has older ranges.  `HttpAgrees`: `HttpInv` adds to `HttpAsAsked` the message in the queue (it is
  there only for a timer that runs) and every point of a save in an update thread.
* `HistoryLogProofs`.  All rest on `Flow`, the stages of a commit: nothing is removed before the
  queue is empty, the cleaner's transaction reads the table as it is, at a box too.  (`Locked`, which comes before
  it, says whose `g_con` and transaction are at each box.)  `RowsAccounted` is then
  inductive.  `ArchivedBefore`: `ArchiveInv` says of each stage between archiving and deleting that
  what will be deleted is in the archive.  `RowsInOrder`: `OrderInv` says that table and queue each
  increase and that all of the table comes before all of the queue, both for the committed
  table, to which a failure returns, and for the transaction's, and that what the transaction has
  deleted comes before what it keeps, which is at least one row; `OldestFirst` follows.  The lemmas in front of them say
  what `Append`, `Tail` and `SubSeq` do to the set of a sequence's elements and to its order.
* `ListCacheProofs`.  `CacheIsHonest` and `DriverIsCurrent` assume `FaultsApart`: no behaviour has
  both an abrupt end of the process and lists toggled or a configuration saved while lists load
  (section 6 tells why not).  `CacheInv` says what matches what in each step of `LoadLists`: a
  content *matches* a checksum when it has each list the checksum counts, as new as then,
  and no other.  The cache matches the checksum in memory from the end of one `LoadLists` to the
  check of the next; what is being generated matches the new one up to `i`; and, since the
  process may end, the cache matches the checksum in `peerblock.conf`, or some file is newer than
  that, so that it will not be accepted.  `SetUp` and `Versions` say that checksums and
  files only get newer.

Assumptions: `None` is none of the other values; capacities, bounds and addresses are
naturals; the UI thread is no update thread, and update threads are finitely many; the two lengths of time of an allow differ;
where a theorem says so, `FaultsApart`.  No theorem assumes fairness.

Only model-checked: every liveness property (`CallsReturn`, `CleanupAnswers`,
`ReaderStops`, `SearchEnds`, `SetRangesReached`, `LoadEnds`, `AbortEnds`, `HiddenGoes`,
`QueueDrains`, `TempEnds`), which is out of the prover's reach, since it is about fairness
and `ENABLED`.  Every invariant and every action property of the runs, and the
refinement by `NotifyQueue`, are theorems; the one by `FilterClient` is a theorem that no run
checks.  The findings of section 7 are counterexamples
of TLC.

## 9. Not modelled

The driver for Windows XP (an older front end of the same ranges and queue); IPv6 (which
has the same callouts after an address is taken out of its tunnel); the port arrays, whose
race is between single words; the service manager, whose behaviour is the system's and not
in the repository; `preconnect_func`'s downloads of the program's own update; permanent allows and
blocks, which edit a list's file; painting and reading of the history; dialogs and
controls; the trace log; the text format of lists, XML, archives.  The vendored libraries
(`thirdparty`: sqlite, curl, boost and others) are no part of the program's logic: what the
modules need of them (a transaction, a transfer, a recursive lock) is modelled from how
the code uses them.  `PROJECT.json` ("components") says why for each, and "hazards" which
hazards no property covers, and why.
