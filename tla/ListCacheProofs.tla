--------------------------- MODULE ListCacheProofs ---------------------------
(***************************************************************************)
(* Theorems about ListCache for any number of lists and versions: types,   *)
(* and, where an abrupt end of the process does not meet a change of the   *)
(* enabled lists or a save of the configuration in the middle, that an     *)
(* accepted cache has the lists and the driver blocks what they say.       *)
(***************************************************************************)
EXTENDS ListCache, TLAPS

-----------------------------------------------------------------------------
(* Types *)

LEMMA ContentsOK ==
    ASSUME file \in Contents, NEW en
    PROVE  Nothing \in Contents /\ Checksum(en) \in Contents
<1>1. 0 \in 0 .. MaxVersion
  BY ListsAssumption
<1>2. QED
  BY <1>1 DEF Contents, Nothing, Checksum

LEMMA TypeInit == Init => TypeOK
<1> SUFFICES ASSUME Init PROVE TypeOK
  OBVIOUS
<1>1. file \in Contents
  BY ListsAssumption DEF Init, Contents
<1>2. Nothing \in Contents
  BY <1>1, ContentsOK
<1>3. NoCache \in [kind : Kinds, of : Contents] /\ NoCache.of = Nothing
  BY <1>2 DEF NoCache, Kinds
<1>4. 1 \in 1 .. NLists + 1
  BY ListsAssumption
<1>5. QED
  BY <1>1, <1>2, <1>3, <1>4 DEF Init, TypeOK

LEMMA TypeNext == TypeOK /\ [Next]_vars => TypeOK'
<1> SUFFICES ASSUME TypeOK, [Next]_vars PROVE TypeOK'
  OBVIOUS
<1> USE DEF disk, mem
<1>0. /\ file \in Contents /\ cache \in [kind : Kinds, of : Contents]
      /\ cache.kind # "whole" => cache.of = Nothing
      /\ work \in Contents /\ i \in 1 .. NLists + 1
      /\ Nothing \in Contents /\ 1 \in 1 .. NLists + 1
      /\ NoCache \in [kind : Kinds, of : Contents] /\ NoCache.of = Nothing
  BY ContentsOK, ListsAssumption DEF TypeOK, NoCache, Kinds
<1>1. CASE Start
  BY <1>1 DEF Start, TypeOK
<1>2. CASE Reload \/ TempAllowExpired \/ Toggle
  BY <1>2 DEF Reload, TempAllowExpired, Toggle, TypeOK
<1>3. CASE ReloadNested
  BY <1>0, <1>3 DEF ReloadNested, Ended, TypeOK
<1>4. CASE IsCacheValid
  BY <1>0, <1>4, ContentsOK DEF IsCacheValid, TypeOK
<1>5. CASE ReadCache
  BY <1>0, <1>5 DEF ReadCache, TypeOK
<1>6. CASE Process
  <2>1. i \in Lists /\ i + 1 \in 1 .. NLists + 1
    BY <1>0, <1>6, ListsAssumption DEF Process, Lists
  <2>2. work' \in Contents
    BY <1>0, <1>6, <2>1 DEF Process, Contents
  <2>3. QED
    BY <1>6, <2>1, <2>2 DEF Process, TypeOK
<1>7. CASE ProcessFails
  <2>1. i \in Lists /\ i + 1 \in 1 .. NLists + 1
    BY <1>0, <1>7, ListsAssumption DEF ProcessFails, Lists
  <2>2. QED
    BY <1>7, <2>1 DEF ProcessFails, TypeOK
<1>8. CASE SaveOpen
  BY <1>0, <1>8 DEF SaveOpen, TypeOK, Kinds
<1>9. CASE SaveOpenFails
  BY <1>0, <1>9 DEF SaveOpenFails, Return, TypeOK
<1>10. CASE SaveSome
  <2>1. cache' \in [kind : Kinds, of : Contents] /\ cache'.of = Nothing
    BY <1>0, <1>10 DEF SaveSome, Kinds
  <2>2. QED
    BY <1>10, <2>1 DEF SaveSome, TypeOK
<1>11. CASE SaveDone
  <2>1. cache' \in [kind : Kinds, of : Contents] /\ (cache'.kind # "whole" => cache'.of = Nothing)
    BY <1>0, <1>11 DEF SaveDone, Kinds
  <2>2. QED
    BY <1>11, <2>1 DEF SaveDone, TypeOK
<1>12. CASE SetRanges
  BY <1>0, <1>12 DEF SetRanges, Return, TypeOK
<1>13. CASE UpdateList
  <2>1. file' \in Contents
    <3>1. PICK l \in Lists : file[l] < MaxVersion /\ file' = [file EXCEPT ![l] = file[l] + 1]
      BY <1>13 DEF UpdateList
    <3>2. file[l] \in 0 .. MaxVersion
      BY <1>0 DEF Contents
    <3>3. file[l] + 1 \in 0 .. MaxVersion
      BY <3>1, <3>2, ListsAssumption
    <3>4. QED
      BY <1>0, <3>1, <3>3 DEF Contents
  <2>2. QED
    BY <1>13, <2>1 DEF UpdateList, TypeOK
<1>14. CASE SaveConfig
  BY <1>14 DEF SaveConfig, TypeOK
<1>15. CASE Exit
  BY <1>0, <1>15 DEF Exit, Ended, TypeOK
<1>16. CASE Crash
  BY <1>0, <1>16 DEF Crash, Ended, TypeOK
<1>17. CASE UNCHANGED vars
  BY <1>17 DEF vars, TypeOK
<1>18. QED
  BY <1>1, <1>2, <1>3, <1>4, <1>5, <1>6, <1>7, <1>8, <1>9, <1>10, <1>11, <1>12, <1>13, <1>14,
     <1>15, <1>16, <1>17 DEF Next, LoadStep

\* Whatever fails while lists are loaded: GenCacheFuncs' index stays inside the lists, and a
\* cache that is not whole has nothing of them (lists.cpp:385).
THEOREM CacheTyped == Spec => []TypeOK
  BY TypeInit, TypeNext, PTL DEF Spec

-----------------------------------------------------------------------------
(***************************************************************************)
(* What fits together.  A content matches a checksum when it has each list *)
(* that the checksum counts, as new as then, and no other.  The cache has  *)
(* to match the checksum in memory while that is what it will be compared  *)
(* with; and the one in peerblock.conf, which takes its place after an     *)
(* end of the process.  It need not, if some file is newer than that       *)
(* checksum: then the cache will not be accepted.                          *)
(***************************************************************************)

\* The process may end without saving the configuration.
Abrupt == "crash" \in faults \/ "nested" \in faults

OkAt(of, c, l) ==
    IF c[l] # 0 THEN l \in told \/ of[l] >= c[l]
    ELSE of[l] = 0 \/ "appear" \in faults \/ Abrupt

Match(of, c) == \A l \in Lists : OkAt(of, c, l)

Below(c, d) == \A l \in Lists : c[l] <= d[l]

Full == "full" \in faults

Good(c) == Match(cache.of, c) \/ (Full /\ cache.kind # "whole")

Stale(c) == Abrupt /\ \E l \in Lists : c[l] < file[l]

SetUp ==
    /\ Abrupt => "toggle" \notin faults /\ "midsave" \notin faults
    /\ Abrupt => conf.enabled = Lists /\ (pc # "down" => enabled = Lists)
    /\ pc = "hung" => Abrupt
    /\ pc \in {"down", "idle", "check", "read"} => i = 1 /\ work = Nothing

Versions ==
    /\ Below(conf.crc, file)
    /\ pc # "down" => Below(crc, file)
    /\ Abrupt /\ pc # "down" => Below(conf.crc, crc)

Saved == pc = "down" \/ Abrupt => Good(conf.crc) \/ Stale(conf.crc)

Noted ==
    /\ pc \in {"idle", "read", "send"} => Good(crc)
    /\ pc = "check" => Good(crc) \/ Stale(crc)

\* While the cache is generated: what the new checksum does not count is not there, the
\* lists before i are done, and whatever becomes of the old cache, no end of the process
\* makes it accepted.
Generating ==
    /\ pc = "gen" =>
          /\ \A l \in Lists : crc[l] = 0 => l \notin enabled \/ file[l] = 0 \/ "appear" \in faults
          /\ \A l \in Lists : l \notin enabled => crc[l] = 0
          /\ \A l \in Lists : IF l < i THEN OkAt(work, crc, l) ELSE work[l] = 0
          /\ Abrupt => Stale(conf.crc) \/ cache.kind = "none"
    /\ pc = "save" => cache.kind # "whole" /\ Match(work, crc)

Sent ==
    /\ pc = "send" => Match(work, crc) \/ (cut /\ Full)
    /\ pc = "idle" => Match(driver, crc) \/ (cut /\ Full)

CacheInv == 0 \in told \/ (Saved /\ Noted /\ Generating /\ Sent)

\* An abrupt end of the process, and lists that change or a configuration that is saved while
\* lists are loading, are not in the same behaviour (see the README for why not).
FaultsApart ==
    \A f \in FaultSets :
        "crash" \in f \/ "nested" \in f => "toggle" \notin f /\ "midsave" \notin f

LEMMA SetUpInit == ASSUME FaultsApart, Init PROVE SetUp
  BY DEF FaultsApart, Init, SetUp, Abrupt

LEMMA SetUpNext == SetUp /\ [Next]_vars => SetUp'
<1> SUFFICES ASSUME SetUp, [Next]_vars PROVE SetUp'
  OBVIOUS
<1> USE DEF SetUp, Abrupt, disk, mem
<1>1. CASE Start
  BY <1>1 DEF Start
<1>2. CASE Reload \/ TempAllowExpired \/ Toggle
  BY <1>2 DEF Reload, TempAllowExpired, Toggle
<1>3. CASE ReloadNested
  BY <1>3 DEF ReloadNested, Ended
<1>4. CASE IsCacheValid
  BY <1>4 DEF IsCacheValid
<1>5. CASE ReadCache
  BY <1>5 DEF ReadCache
<1>6. CASE Process \/ ProcessFails
  BY <1>6 DEF Process, ProcessFails
<1>7. CASE SaveOpen
  BY <1>7 DEF SaveOpen
<1>8. CASE SaveOpenFails
  BY <1>8 DEF SaveOpenFails, Return
<1>9. CASE SaveSome \/ SaveDone
  BY <1>9 DEF SaveSome, SaveDone
<1>10. CASE SetRanges
  BY <1>10 DEF SetRanges, Return
<1>11. CASE UpdateList
  BY <1>11 DEF UpdateList
<1>12. CASE SaveConfig
  BY <1>12 DEF SaveConfig
<1>13. CASE Exit
  BY <1>13 DEF Exit, Ended
<1>14. CASE Crash
  BY <1>14 DEF Crash, Ended
<1>15. CASE UNCHANGED vars
  BY <1>15 DEF vars
<1>16. QED
  BY <1>1, <1>2, <1>3, <1>4, <1>5, <1>6, <1>7, <1>8, <1>9, <1>10, <1>11, <1>12, <1>13, <1>14,
     <1>15 DEF Next, LoadStep

\* Versions are natural numbers.
LEMMA NatVersions ==
    ASSUME TypeOK, NEW l \in Lists
    PROVE  /\ file[l] \in Nat /\ crc[l] \in Nat /\ conf.crc[l] \in Nat
           /\ work[l] \in Nat /\ driver[l] \in Nat /\ cache.of[l] \in Nat /\ Nothing[l] = 0
<1>1. \A c \in Contents : c[l] \in Nat
  BY ListsAssumption DEF Contents
<1>2. QED
  BY <1>1 DEF TypeOK, Nothing

LEMMA ChecksumIs ==
    ASSUME NEW en, NEW l \in Lists
    PROVE  Checksum(en)[l] = IF l \in en THEN file[l] ELSE 0
  BY DEF Checksum

\* Files only get newer.
LEMMA FilesGrow ==
    ASSUME TypeOK, UpdateList, NEW l \in Lists
    PROVE  /\ file'[l] \in Nat /\ file[l] <= file'[l]
           /\ file'[l] # file[l] => file[l] > 0 \/ "appear" \in faults
<1>1. PICK m \in Lists : /\ file[m] > 0 \/ "appear" \in faults
                         /\ file' = [file EXCEPT ![m] = file[m] + 1]
  BY DEF UpdateList
<1>2. file[l] \in Nat /\ file \in [Lists -> 0 .. MaxVersion]
  BY NatVersions DEF TypeOK, Contents
<1>3. file'[l] = IF l = m THEN file[l] + 1 ELSE file[l]
  BY <1>1, <1>2
<1>4. QED
  BY <1>1, <1>2, <1>3

LEMMA VersionsInit == Init => Versions
<1> SUFFICES ASSUME Init PROVE Versions
  OBVIOUS
<1>1. TypeOK /\ conf.crc = Nothing /\ pc = "down"
  BY TypeInit DEF Init
<1>2. \A l \in Lists : conf.crc[l] <= file[l]
  BY <1>1, NatVersions
<1>3. QED
  BY <1>1, <1>2 DEF Versions, Below

LEMMA VersionsNext == TypeOK /\ SetUp /\ Versions /\ [Next]_vars => Versions'
<1> SUFFICES ASSUME TypeOK, SetUp, Versions, [Next]_vars PROVE Versions'
  OBVIOUS
<1> USE DEF Versions, Below, Abrupt, disk, mem
<1>1. CASE Start
  BY <1>1, NatVersions DEF Start
<1>2. CASE Reload \/ TempAllowExpired \/ Toggle
  BY <1>2 DEF Reload, TempAllowExpired, Toggle
<1>3. CASE ReloadNested
  BY <1>3 DEF ReloadNested, Ended
<1>4. CASE IsCacheValid
  <2>1. crc' = Checksum(enabled) /\ UNCHANGED <<faults, file, conf>> /\ pc # "down"
    BY <1>4 DEF IsCacheValid
  <2>2. ASSUME NEW l \in Lists
        PROVE  crc'[l] <= file[l] /\ (Abrupt => conf.crc[l] <= crc'[l])
    <3>1. crc'[l] = IF l \in enabled THEN file[l] ELSE 0
      BY <2>1, ChecksumIs
    <3>2. Abrupt => l \in enabled
      BY <2>1 DEF SetUp
    <3>3. file[l] \in Nat /\ conf.crc[l] <= file[l]
      BY NatVersions
    <3>4. QED
      BY <3>1, <3>2, <3>3
  <2>3. QED
    BY <2>1, <2>2
<1>5. CASE ReadCache \/ Process \/ ProcessFails \/ SaveOpen \/ SaveSome \/ SaveDone
  BY <1>5 DEF ReadCache, Process, ProcessFails, SaveOpen, SaveSome, SaveDone
<1>6. CASE SaveOpenFails \/ SetRanges
  BY <1>6 DEF SaveOpenFails, SetRanges, Return
<1>7. CASE UpdateList
  <2>1. UNCHANGED <<faults, conf, crc, pc>>
    BY <1>7 DEF UpdateList
  <2>2. ASSUME NEW l \in Lists, NEW n \in Nat, n <= file[l] PROVE n <= file'[l]
    BY <1>7, <2>2, FilesGrow, NatVersions
  <2>3. (\A l \in Lists : conf.crc[l] <= file'[l]) /\ (pc # "down" => \A l \in Lists : crc[l] <= file'[l])
    BY <2>2, NatVersions
  <2>4. QED
    BY <2>1, <2>3
<1>8. CASE SaveConfig
  <2>1. /\ conf'.crc = crc /\ UNCHANGED <<faults, file, crc, pc>> /\ pc # "down"
    BY <1>8 DEF SaveConfig
  <2>2. \A l \in Lists : crc[l] <= crc[l]
    BY NatVersions
  <2>3. QED
    BY <2>1, <2>2
<1>9. CASE Exit
  BY <1>9 DEF Exit, Ended
<1>10. CASE Crash
  BY <1>10 DEF Crash, Ended
<1>11. CASE UNCHANGED vars
  BY <1>11 DEF vars
<1>12. QED
  BY <1>1, <1>2, <1>3, <1>4, <1>5, <1>6, <1>7, <1>8, <1>9, <1>10, <1>11 DEF Next, LoadStep

LEMMA CacheInit == Init => CacheInv
<1> SUFFICES ASSUME Init PROVE CacheInv
  OBVIOUS
<1>1. TypeOK /\ conf.crc = Nothing /\ cache.of = Nothing /\ pc = "down"
  BY TypeInit DEF Init, NoCache
<1>2. \A l \in Lists : Nothing[l] = 0
  BY <1>1, NatVersions
<1>3. Match(Nothing, Nothing)
  BY <1>2 DEF Match, OkAt
<1>4. QED
  BY <1>1, <1>3 DEF CacheInv, Saved, Good, Noted, Generating, Sent

LEMMA ToldGrows == [Next]_vars => told \subseteq told' /\ faults' = faults
  BY DEF Next, LoadStep, vars, Start, Reload, TempAllowExpired, Toggle, ReloadNested, Ended, IsCacheValid,
     ReadCache, Process, ProcessFails, SaveOpen, SaveOpenFails, Return, SaveSome, SaveDone, SetRanges,
     UpdateList, SaveConfig, Exit, Crash

LEMMA CacheNext ==
    TypeOK /\ SetUp /\ Versions /\ CacheInv /\ [Next]_vars => CacheInv'
<1> SUFFICES ASSUME TypeOK, SetUp, Versions, CacheInv, [Next]_vars, 0 \notin told'
             PROVE  (Saved /\ Noted /\ Generating /\ Sent)'
  BY DEF CacheInv
<1>0. told \subseteq told' /\ faults' = faults /\ Saved /\ Noted /\ Generating /\ Sent
  BY ToldGrows DEF CacheInv
<1> USE DEF Saved, Noted, Good, Match, OkAt, Stale, Full, Abrupt, disk, mem
<1>1. CASE Start
  BY <1>0, <1>1 DEF Start, Generating, Sent
<1>2. CASE Reload \/ TempAllowExpired
  BY <1>0, <1>2 DEF Reload, TempAllowExpired, Generating, Sent
<1>3. CASE Toggle
  BY <1>0, <1>3 DEF Toggle, SetUp, Generating, Sent
<1>4. CASE ReloadNested
  BY <1>0, <1>4 DEF ReloadNested, Ended, Generating, Sent
<1>5. CASE IsCacheValid
  <2>1. /\ pc = "check" /\ crc' = Checksum(enabled) /\ UNCHANGED <<disk, enabled, i, work, told>>
        /\ pc' = IF crc' # crc \/ cache.kind = "none" THEN "gen" ELSE "read"
    BY <1>5 DEF IsCacheValid
  <2>2. \A l \in Lists : crc'[l] = IF l \in enabled THEN file[l] ELSE 0
    BY <2>1, ChecksumIs
  <2>3. Abrupt => enabled = Lists
    BY <2>1 DEF SetUp
  <2>4. ASSUME Abrupt, crc' # crc PROVE Stale(conf.crc)
    <3>1. crc \in Contents /\ crc' \in Contents
      BY <2>1, ContentsOK DEF TypeOK
    <3>2. PICK l \in Lists : crc'[l] # crc[l]
      BY <2>4, <3>1 DEF Contents
    <3>3. crc'[l] = file[l] /\ conf.crc[l] <= crc[l] /\ crc[l] <= file[l]
      BY <2>1, <2>2, <2>3, <2>4 DEF Versions, Below
    <3>4. conf.crc[l] < file[l]
      BY <3>2, <3>3, NatVersions
    <3>5. QED
      BY <2>4, <3>4
  <2>5. CASE pc' = "gen"
    <3>1. i = 1 /\ \A l \in Lists : work[l] = 0
      BY <2>1, NatVersions DEF SetUp
    <3>2. \A l \in Lists : ~(l < 1)
      BY DEF Lists
    <3>3. Generating'
      BY <1>0, <2>1, <2>2, <2>4, <2>5, <3>1, <3>2 DEF Generating
    <3>4. QED
      BY <1>0, <2>1, <2>5, <3>3 DEF Sent
  <2>6. CASE pc' = "read"
    <3>1. crc' = crc
      BY <2>1, <2>6
    <3>2. ~Stale(crc)
      BY <2>2, <2>3, <3>1, NatVersions
    <3>3. QED
      BY <1>0, <2>1, <2>6, <3>1, <3>2 DEF Generating, Sent
  <2>7. QED
    BY <2>1, <2>5, <2>6
<1>6. CASE ReadCache
  <2>1. /\ pc = "read" /\ pc' = "send" /\ work' = cache.of /\ cut' = (cache.kind # "whole")
        /\ UNCHANGED <<file, conf, mem, told>>
        /\ cache' = IF cache.kind = "torn" THEN NoCache ELSE cache
    BY <1>6 DEF ReadCache
  <2>2. cache'.of = cache.of /\ (cache.kind # "whole" => cache'.kind # "whole")
    BY <2>1 DEF NoCache, TypeOK
  <2>3. QED
    BY <1>0, <2>1, <2>2 DEF Generating, Sent
<1>7. CASE Process \/ ProcessFails
  <2>1. /\ pc = "gen" /\ pc' = "gen" /\ i' = i + 1 /\ UNCHANGED <<disk, mem>>
        /\ i \in Lists /\ i \in Nat
    BY <1>7, ListsAssumption DEF Process, ProcessFails, Lists, TypeOK
  <2>2. IF crc[i] # 0 THEN i \in told' \/ work'[i] >= crc[i]
        ELSE work'[i] = 0 \/ "appear" \in faults \/ Abrupt
    <3>1. /\ crc[i] \in Nat /\ file[i] \in Nat /\ crc[i] <= file[i] /\ work[i] = 0
          /\ i \notin enabled => crc[i] = 0
          /\ crc[i] = 0 => i \notin enabled \/ file[i] = 0 \/ "appear" \in faults
      BY <1>0, <2>1, NatVersions DEF Generating, Versions, Below
    <3>2. CASE Process
      <4>1. work'[i] = IF i \in enabled THEN file[i] ELSE 0
        BY <2>1, <3>1, <3>2 DEF Process, TypeOK, Contents
      <4>2. QED
        BY <1>0, <2>1, <3>1, <4>1
    <3>3. CASE ProcessFails
      BY <1>0, <2>1, <3>1, <3>3 DEF ProcessFails
    <3>4. QED
      BY <1>7, <3>2, <3>3
  <2>3. \A l \in Lists : l # i => work'[l] = work[l]
    BY <1>7, <2>1 DEF Process, ProcessFails, TypeOK, Contents
  <2>4. ASSUME NEW l \in Lists
        PROVE  IF l < i' THEN OkAt(work, crc, l)' ELSE work'[l] = 0
    <3>1. CASE l = i
      BY <1>0, <2>1, <2>2, <3>1
    <3>2. CASE l # i
      <4>1. l < i' <=> l < i
        BY <2>1, <3>2 DEF Lists
      <4>2. work'[l] = work[l] /\ crc'[l] = crc[l]
        BY <2>1, <2>3, <3>2
      <4>3. QED
        BY <1>0, <2>1, <4>1, <4>2 DEF Generating
    <3>3. QED
      BY <3>1, <3>2
  <2>5. Generating'
    BY <1>0, <2>1, <2>4 DEF Generating
  <2>6. QED
    BY <1>0, <2>1, <2>5 DEF Sent
<1>8. CASE SaveOpen
  <2>1. /\ pc = "gen" /\ i = NLists + 1 /\ pc' = "save"
        /\ cache'.kind = "empty" /\ cache'.of = Nothing
        /\ UNCHANGED <<file, conf, mem, work, told>>
    BY <1>8 DEF SaveOpen
  <2>2. \A l \in Lists : l < i
    BY <2>1, ListsAssumption DEF Lists
  <2>3. cache.kind = "none" => cache'.of = cache.of
    BY <2>1 DEF TypeOK
  <2>4. Saved'
    BY <1>0, <2>1, <2>3 DEF Generating
  <2>5. Generating'
    BY <1>0, <2>1, <2>2 DEF Generating
  <2>6. QED
    BY <2>1, <2>4, <2>5 DEF Sent
<1>9. CASE SaveOpenFails
  BY <1>9 DEF SaveOpenFails
<1>10. CASE SaveSome
  <2>1. /\ pc = "save" /\ pc' = "save" /\ UNCHANGED <<file, conf, mem, work, told>>
        /\ cache'.kind = "torn" /\ cache'.of = cache.of
    BY <1>10 DEF SaveSome, TypeOK
  <2>2. QED
    BY <1>0, <2>1 DEF Generating, Sent
<1>11. CASE SaveDone
  <2>1. /\ pc = "save" /\ pc' = "send" /\ UNCHANGED <<file, conf, mem, work, told>>
        /\ cache.kind # "whole" /\ Match(work, crc)
        /\ \/ cache'.of = work
           \/ cache' = cache /\ Full
    BY <1>0, <1>11 DEF SaveDone, Generating
  <2>2. Abrupt => Match(work, conf.crc)
    <3> SUFFICES ASSUME Abrupt, NEW l \in Lists, conf.crc[l] # 0 PROVE l \in told \/ work[l] >= conf.crc[l]
      OBVIOUS
    <3>1. crc[l] # 0 /\ conf.crc[l] <= crc[l]
      BY <2>1, NatVersions DEF Versions, Below
    <3>2. l \in told \/ work[l] >= crc[l]
      BY <2>1, <3>1
    <3>3. QED
      BY <3>1, <3>2, NatVersions
  <2>3. QED
    BY <1>0, <2>1, <2>2 DEF Generating, Sent
<1>12. CASE SetRanges
  BY <1>0, <1>12 DEF SetRanges, Return, Generating, Sent
<1>13. CASE UpdateList
  <2>1. UNCHANGED <<cache, conf, mem, pc, i, work, driver, told, cut>>
    BY <1>13 DEF UpdateList
  <2>2. \A l \in Lists : /\ file[l] \in Nat /\ file'[l] \in Nat /\ file[l] <= file'[l]
                         /\ file'[l] # file[l] => file[l] > 0 \/ "appear" \in faults
    BY <1>13, FilesGrow, NatVersions
  <2>3. (Stale(conf.crc) => Stale(conf.crc)') /\ (Stale(crc) => Stale(crc)')
    BY <1>0, <2>1, <2>2, NatVersions
  <2>4. \A l \in Lists : file[l] = 0 => file'[l] = 0 \/ "appear" \in faults
    BY <2>2
  <2>5. Saved' /\ Noted'
    BY <1>0, <2>1, <2>3
  <2>6. Generating'
    BY <1>0, <2>1, <2>3, <2>4 DEF Generating
  <2>7. QED
    BY <1>0, <2>1, <2>5, <2>6 DEF Sent
<1>14. CASE SaveConfig
  <2>1. /\ conf'.crc = crc /\ pc # "down" /\ (Abrupt => pc = "idle")
        /\ UNCHANGED <<file, cache, mem, pc, i, work, driver, told, cut>>
    BY <1>14 DEF SaveConfig, SetUp
  <2>2. QED
    BY <1>0, <2>1 DEF Generating, Sent
<1>15. CASE Exit
  BY <1>0, <1>15 DEF Exit, Ended, Generating, Sent
<1>16. CASE Crash
  BY <1>0, <1>16 DEF Crash, Ended, Generating, Sent
<1>17. CASE UNCHANGED vars
  BY <1>0, <1>17 DEF vars, Generating, Sent
<1>18. QED
  BY <1>1, <1>2, <1>3, <1>4, <1>5, <1>6, <1>7, <1>8, <1>9, <1>10, <1>11, <1>12, <1>13, <1>14,
     <1>15, <1>16, <1>17 DEF Next, LoadStep

LEMMA CacheAlways ==
    ASSUME FaultsApart
    PROVE  Spec => [](TypeOK /\ SetUp /\ Versions /\ CacheInv)
<1>1. Init => TypeOK /\ SetUp /\ Versions /\ CacheInv
  BY TypeInit, SetUpInit, VersionsInit, CacheInit
<1>2. TypeOK /\ SetUp /\ Versions /\ CacheInv /\ [Next]_vars
      => (TypeOK /\ SetUp /\ Versions /\ CacheInv)'
  BY TypeNext, SetUpNext, VersionsNext, CacheNext
<1>3. QED
  BY <1>1, <1>2, PTL DEF Spec

\* What matches the files as they are is current.
LEMMA MatchCurrent ==
    ASSUME TypeOK, NEW of \in Contents, NEW en, Match(of, Checksum(en)), Abrupt => en = Lists
    PROVE  Current(of, en)
<1>1. \A l \in Lists : of[l] \in Nat /\ file[l] \in Nat
  BY ListsAssumption, NatVersions DEF Contents
<1>2. QED
  BY <1>1, ChecksumIs DEF Match, OkAt, Current

\* A checksum that is equal to that of the files is not older than them.
LEMMA NotStale ==
    ASSUME TypeOK, NEW en, Abrupt => en = Lists
    PROVE  ~Stale(Checksum(en))
  BY ChecksumIs, NatVersions DEF Stale

\* Lists are written, fail to load, go missing or appear, the disk fills up, and either the
\* process ends at any step or lists are enabled and disabled and the configuration is saved
\* at any step: a whole cache whose checksum is accepted, by this process or the next, has
\* the enabled lists as they are (IsCacheValid, lists.cpp:487).
THEOREM CacheIsHonest == ASSUME FaultsApart PROVE Spec => []CacheHonest
<1>1. TypeOK /\ SetUp /\ CacheInv => CacheHonest
  <2> SUFFICES ASSUME TypeOK, SetUp, CacheInv, cache.kind = "whole"
               PROVE  /\ pc = "idle" /\ crc = Checksum(enabled) => Current(cache.of, enabled)
                      /\ pc = "down" /\ conf.crc = Checksum(conf.enabled)
                            => Current(cache.of, conf.enabled)
    BY DEF CacheHonest
  <2>1. CASE 0 \in told
    BY <2>1 DEF Current
  <2>2. CASE 0 \notin told /\ pc = "idle" /\ crc = Checksum(enabled)
    <3>1. Match(cache.of, crc) /\ cache.of \in Contents /\ (Abrupt => enabled = Lists)
      BY <2>2 DEF CacheInv, Noted, Good, SetUp, TypeOK
    <3>2. QED
      BY <2>2, <3>1, MatchCurrent
  <2>3. CASE 0 \notin told /\ pc = "down" /\ conf.crc = Checksum(conf.enabled)
    <3>1. cache.of \in Contents /\ (Abrupt => conf.enabled = Lists)
      BY <2>3 DEF SetUp, TypeOK
    <3>2. ~Stale(conf.crc)
      BY <2>3, <3>1, NotStale
    <3>3. Match(cache.of, conf.crc)
      BY <2>3, <3>2 DEF CacheInv, Saved, Good
    <3>4. QED
      BY <2>3, <3>1, <3>3, MatchCurrent
  <2>4. QED
    BY <2>1, <2>2, <2>3
<1>2. QED
  BY <1>1, CacheAlways, PTL

\* Under the same faults: when LoadLists is done and no file was written since, the driver
\* blocks what the enabled lists say, unless the user was told or a full disk damaged the cache
\* (LoadLists, lists.cpp:541).
THEOREM DriverIsCurrent == ASSUME FaultsApart PROVE Spec => []DriverCurrent
<1>1. TypeOK /\ SetUp /\ CacheInv => DriverCurrent
  <2> SUFFICES ASSUME TypeOK, SetUp, CacheInv, pc = "idle", crc = Checksum(enabled)
               PROVE  Current(driver, enabled) \/ (cut /\ "full" \in faults)
    BY DEF DriverCurrent
  <2>1. CASE 0 \in told
    BY <2>1 DEF Current
  <2>2. CASE 0 \notin told
    <3>1. driver \in Contents /\ (Abrupt => enabled = Lists)
      BY DEF SetUp, TypeOK
    <3>2. Match(driver, crc) \/ (cut /\ Full)
      BY <2>2 DEF CacheInv, Sent
    <3>3. QED
      BY <3>1, <3>2, MatchCurrent DEF Full
  <2>3. QED
    BY <2>1, <2>2
<1>2. QED
  BY <1>1, CacheAlways, PTL
=============================================================================
