---------------------------- MODULE RangeLists -----------------------------
(***************************************************************************)
(* From the ranges of the list files to the ranges of the driver:          *)
(* LoadLists (peerblock/lists.cpp) takes the allowed ranges out of the     *)
(* blocked ones, sorts and merges what is left (p2p::list and              *)
(* p2p::compact_list) and sends it with setranges; preconnect_func         *)
(* (peerblock/updatelists.cpp) does the last two for the allow list.       *)
(*                                                                         *)
(* The loops are what can go wrong here, so one turn of a loop is a step:  *)
(* of the predicate of remove_if with its binary search, of unique and of  *)
(* setranges.  sort is one step.  Addresses are as wide as MaxIp and wrap around.      *)
(***************************************************************************)
EXTENDS Integers, SequencesExt

CONSTANTS MaxIp,  \* the last address, 2^32 - 1 in the code
          Names,  \* names of ranges
          Inputs  \* what may be loaded: records of the first three variables

VARIABLES use,       \* the list in work: "block" (LoadLists) or "allow" (preconnect_func)
          file,      \* what was loaded, in the files' order
          allow,     \* LoadLists' allow: local addresses and temporary allows
          pc,        \* what is running
          ranges,    \* list::_ranges
          compact,   \* compact_list::_ranges, made of allow (from index 1 here)
          low, high, \* compact_list::operator()'s interval (one more than in the code)
          todo,      \* the ranges a loop has before it
          kept,      \* the ranges it leaves in the list, or has copied
          made,      \* nr and, in later rounds, nnr: the ranges erase_pred adds
          driver, ipcount \* what setranges sends and counts

vars == <<use, file, allow, pc, ranges, compact, low, high, todo, kept, made, driver, ipcount>>
search == <<low, high>>

Ips    == 0 .. MaxIp
Plus1(x)  == (x + 1) % (MaxIp + 1)
Minus1(x) == (x - 1) % (MaxIp + 1)

\* The loaders order the two ends of a range.
NamedRange == {r \in [name : Names, start : Ips, end : Ips] : r.start <= r.end}
Pair  == {r \in [start : Ips, end : Ips] : r.start <= r.end}

\* preconnect_func's list: a set of addresses, in order, all under one name.
SingleIps(s) ==
    /\ s # <<>>
    /\ \A i \in DOMAIN s : s[i].start = s[i].end /\ s[i].name = s[1].name
    /\ \A i, j \in DOMAIN s : i < j => s[i].start < s[j].start

ASSUME MaxIpAssumption == MaxIp \in Nat
ASSUME InputsAssumption ==
    \A in \in Inputs : /\ in.file \in Seq(NamedRange)
                       /\ \/ in.use = "block" /\ in.allow \in Seq(Pair)
                          \/ in.use = "allow" /\ in.allow = <<>> /\ SingleIps(in.file)

Init ==
    /\ \E in \in Inputs : use = in.use /\ file = in.file /\ allow = in.allow
    /\ pc = "start"
    /\ ranges = file
    /\ compact = <<>>
    /\ low = 0 /\ high = 0
    /\ todo = <<>> /\ kept = <<>> /\ made = <<>>
    /\ driver = <<>> /\ ipcount = 0

\* By start, then end; sort keeps the order of the rest.
Before(s, i, j) ==
    \/ s[i].start < s[j].start
    \/ s[i].start = s[j].start /\ s[i].end < s[j].end
    \/ s[i].start = s[j].start /\ s[i].end = s[j].end /\ i < j

Sort(s) == {[k \in DOMAIN s |-> s[p[k]]] :
               p \in {p \in Bijection(DOMAIN s, DOMAIN s) :
                         \A k, l \in DOMAIN s : k < l => Before(s, p[k], p[l])}}

\* Nothing to erase, or the allowed ranges are sorted for the compact list.
Start ==
    /\ pc = "start"
    /\ IF use = "allow" \/ (file # <<>> /\ allow = <<>>) THEN pc' = "sort" /\ todo' = <<>>
       ELSE IF file = <<>> THEN pc' = "send" /\ todo' = <<>>
       ELSE pc' = "compact" /\ todo' \in Sort(allow)
    /\ UNCHANGED <<use, file, allow, ranges, compact, search, kept, made, driver, ipcount>>

Sorting ==
    /\ pc = "sort"
    /\ pc' = "merge"
    /\ todo' \in Sort(ranges)
    /\ UNCHANGED <<use, file, allow, ranges, compact, search, kept, made, driver, ipcount>>

-----------------------------------------------------------------------------
(* unique: mergepred of the compact list, merge_pred of the list *)

\* Mutant of Merges: ranges with the same start are not taken for overlapping ones.
MergesLaterOnly(left, right) ==
    \/ left.start < right.start /\ right.start <= left.end
    \/ /\ pc = "merge"
       /\ left.end = Minus1(right.start)
       /\ use = "allow" \/ left.name = right.name

Merges(left, right) ==
    \/ left.start <= right.start /\ right.start <= left.end
    \/ /\ pc = "merge"
       /\ left.end = Minus1(right.start)
       /\ use = "allow" \/ left.name = right.name

\* Mutant of Merged: the right range is the one that stays.
MergedIntoRight(left, right) ==
    [right EXCEPT !.start = IF left.start < right.start THEN left.start ELSE right.start,
                  !.end   = IF left.end > right.end THEN left.end ELSE right.end]

Merged(left, right) ==
    [left EXCEPT !.start = IF right.start < left.start THEN right.start ELSE left.start,
                 !.end   = IF right.end > left.end THEN right.end ELSE left.end]

UniqueTurn ==
    /\ pc \in {"compact", "merge"} /\ todo # <<>>
    /\ todo' = Tail(todo)
    /\ kept' = IF kept # <<>> /\ Merges(Last(kept), Head(todo))
               THEN Front(kept) \o <<Merged(Last(kept), Head(todo))>>
               ELSE Append(kept, Head(todo))
    /\ UNCHANGED <<use, file, allow, pc, ranges, compact, search, made, driver, ipcount>>

\* compact_list's constructor ends: erase's first pass is over the list itself.
CompactDone ==
    /\ pc = "compact" /\ todo = <<>>
    /\ compact' = kept
    /\ pc' = "erase"
    /\ todo' = ranges
    /\ kept' = <<>>
    /\ low' = 0 /\ high' = Len(kept) + 1
    /\ UNCHANGED <<use, file, allow, ranges, made, driver, ipcount>>

OptimizeDone ==
    /\ pc = "merge" /\ todo = <<>>
    /\ ranges' = kept
    /\ pc' = "send"
    /\ kept' = <<>>
    /\ UNCHANGED <<use, file, allow, compact, search, todo, made, driver, ipcount>>

-----------------------------------------------------------------------------
(* list::erase(compact_list): the turns of masserase_pred's loop *)

Erasing == pc \in {"erase", "again"} /\ todo # <<>>
R == Head(todo)

NewSearch == low' = 0 /\ high' = Len(compact) + 1

\* A turn of compact_list::operator()'s loop.
Probe ==
    /\ Erasing /\ high - low > 1
    /\ LET probe == (high + low) \div 2
       IN  IF compact[probe].start > R.end THEN high' = probe /\ low' = low
           ELSE low' = probe /\ high' = high
    /\ UNCHANGED <<use, file, allow, pc, ranges, compact, todo, kept, made, driver, ipcount>>

A == compact[low]
Looked == Erasing /\ high - low <= 1

Hit == low # 0 /\ A.start <= R.end /\ R.start <= A.end

\* remove_if's result for this range, and the search for the next one.
KeepRange ==
    /\ Looked /\ ~Hit
    /\ kept' = Append(kept, R)
    /\ todo' = Tail(todo)
    /\ NewSearch
    /\ UNCHANGED <<use, file, allow, pc, ranges, compact, made, driver, ipcount>>

\* erase_pred, in the order of its tests.  The last branch, which changes nothing, would
\* be tried for ever: some other one always applies (ErasePredDecides of RangeListsProofs).
Whole == A.start <= R.start /\ R.end <= A.end

\* Mutant of Inside: a part in front or behind may be empty.
InsideOrBeside == ~Whole /\ R.start <= A.start /\ A.end <= R.end

Inside == ~Whole /\ R.start # A.start /\ R.end # A.end /\ R.start <= A.start /\ A.end <= R.end

AtStart == ~Whole /\ ~Inside /\ A.start <= R.start /\ R.start <= A.end
AtEnd == ~Whole /\ ~Inside /\ ~AtStart /\ A.start <= R.end /\ R.end <= A.end

EraseWhole ==
    /\ Looked /\ Hit /\ Whole
    /\ todo' = Tail(todo)
    /\ NewSearch
    /\ UNCHANGED <<use, file, allow, pc, ranges, compact, kept, made, driver, ipcount>>

EraseInside ==
    /\ Looked /\ Hit /\ Inside
    /\ made' = Append(made, [R EXCEPT !.end = Minus1(A.start)])
    /\ todo' = [todo EXCEPT ![1].start = Plus1(A.end)]
    /\ NewSearch
    /\ UNCHANGED <<use, file, allow, pc, ranges, compact, kept, driver, ipcount>>

\* Mutant of EraseAtStart: off by one.
EraseAtStartShort ==
    /\ Looked /\ Hit /\ AtStart
    /\ todo' = [todo EXCEPT ![1].start = A.end]
    /\ NewSearch
    /\ UNCHANGED <<use, file, allow, pc, ranges, compact, kept, made, driver, ipcount>>

EraseAtStart ==
    /\ Looked /\ Hit /\ AtStart
    /\ todo' = [todo EXCEPT ![1].start = Plus1(A.end)]
    /\ NewSearch
    /\ UNCHANGED <<use, file, allow, pc, ranges, compact, kept, made, driver, ipcount>>

EraseAtEnd ==
    /\ Looked /\ Hit /\ AtEnd
    /\ todo' = [todo EXCEPT ![1].end = Minus1(A.start)]
    /\ NewSearch
    /\ UNCHANGED <<use, file, allow, pc, ranges, compact, kept, made, driver, ipcount>>

\* The first pass is over: the ranges it made are erased from in turn.
FirstPassDone ==
    /\ pc = "erase" /\ todo = <<>>
    /\ ranges' = kept
    /\ pc' = "again"
    /\ todo' = made
    /\ kept' = <<>> /\ made' = <<>>
    /\ UNCHANGED <<use, file, allow, compact, search, driver, ipcount>>

\* Mutant of RoundDone: a second round is never made.
RoundDoneOnce ==
    /\ pc = "again" /\ todo = <<>>
    /\ ranges' = ranges \o kept \o made
    /\ pc' = IF ranges' = <<>> THEN "send" ELSE "sort"
    /\ todo' = <<>>
    /\ kept' = <<>> /\ made' = <<>>
    /\ UNCHANGED <<use, file, allow, compact, search, driver, ipcount>>

\* A round that made no range is the last one; LoadLists optimizes what is left, if any.
RoundDone ==
    /\ pc = "again" /\ todo = <<>>
    /\ IF made = <<>>
       THEN /\ ranges' = ranges \o kept
            /\ pc' = IF ranges' = <<>> THEN "send" ELSE "sort"
            /\ todo' = <<>>
       ELSE /\ todo' = kept \o made
            /\ UNCHANGED <<pc, ranges>>
    /\ kept' = <<>> /\ made' = <<>>
    /\ UNCHANGED <<use, file, allow, compact, search, driver, ipcount>>

-----------------------------------------------------------------------------

(* pbfilter_base::setranges *)

\* A turn of its loop; ipcount is as wide as an address.
CopyRange ==
    /\ pc = "send" /\ Len(kept) < Len(ranges)
    /\ LET r == ranges[Len(kept) + 1]
       IN  /\ kept' = Append(kept, r)
           /\ ipcount' = (ipcount + r.end - r.start + 1) % (MaxIp + 1)
    /\ UNCHANGED <<use, file, allow, pc, ranges, compact, search, todo, made, driver>>

SetRanges ==
    /\ pc = "send" /\ Len(kept) = Len(ranges)
    /\ pc' = "done"
    /\ driver' = kept
    /\ UNCHANGED <<use, file, allow, ranges, compact, search, todo, kept, made, ipcount>>

Next ==
    \/ Start \/ Sorting
    \/ UniqueTurn \/ CompactDone \/ OptimizeDone
    \/ Probe \/ KeepRange \/ EraseWhole \/ EraseInside \/ EraseAtStart \/ EraseAtEnd
    \/ FirstPassDone \/ RoundDone
    \/ CopyRange \/ SetRanges

Spec == Init /\ [][Next]_vars /\ WF_vars(Next)

-----------------------------------------------------------------------------
(* Properties *)

\* Every range in work has its ends in order, and the search stays inside the array.
TypeOK ==
    /\ use \in {"block", "allow"}
    /\ pc \in {"start", "compact", "erase", "again", "sort", "merge", "send", "done"}
    /\ file \in Seq(NamedRange) /\ allow \in Seq(Pair) /\ compact \in Seq(Pair)
    /\ ranges \in Seq(NamedRange) /\ made \in Seq(NamedRange) /\ driver \in Seq(NamedRange)
    /\ todo \in Seq(IF pc = "compact" THEN Pair ELSE NamedRange)
    /\ kept \in Seq(IF pc = "compact" THEN Pair ELSE NamedRange)
    /\ low \in 0 .. Len(compact) /\ high \in 0 .. Len(compact) + 1
    /\ ipcount \in Ips

Covered(s) == UNION {s[i].start .. s[i].end : i \in DOMAIN s}

\* What the driver's binary search needs of its array (RangeSearch's Sorted), and what the
\* search of the compact list needs of its own.
DriverSorted ==
    /\ \A i, j \in DOMAIN driver : i < j => driver[i].end < driver[j].start
    /\ \A i, j \in DOMAIN compact : i < j => compact[i].end < compact[j].start

\* The driver blocks the addresses of the block lists that are not allowed, and the number
\* the program shows is theirs, but for the width of the counter.
ExactlyBlocked ==
    pc = "done" => /\ Covered(driver) = Covered(file) \ Covered(allow)
                   /\ ipcount = Cardinality(Covered(driver)) % (MaxIp + 1)

\* No merge and no cut gives a range a name that no loaded range of that name justifies: the
\* address it begins with is in one.
NamesKept ==
    pc = "done" =>
        \A i \in DOMAIN driver : \E j \in DOMAIN file :
            /\ file[j].name = driver[i].name
            /\ driver[i].start \in file[j].start .. file[j].end

\* The rounds of erase end: the ranges reach the driver.
SetRangesReached == <>(pc = "done")
=============================================================================
