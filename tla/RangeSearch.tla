---------------------------- MODULE RangeSearch ----------------------------
(***************************************************************************)
(* How the driver looks an address up: CheckRanges (pbfilter/filter_wfp.c) *)
(* searches the allowed ranges and then the blocked ones with inranges     *)
(* (pbfilter/common.c), a binary search over an array.  One turn of its    *)
(* loop is a step.  rangeslock is held meanwhile: the arrays do not change.*)
(*                                                                         *)
(* The arrays are what SetRanges copied from the program: sorted by their  *)
(* starts and disjoint, as RangeLists shows of the lists it sends.         *)
(***************************************************************************)
EXTENDS Integers

CONSTANTS MaxIp,   \* the last address, 2^32 - 1 in the code
          MaxCount \* bound on the ranges of a list

ASSUME MaxIpAssumption == MaxIp \in Nat
ASSUME MaxCountAssumption == MaxCount \in Nat

VARIABLES ranges, \* g_internal->{allowed,blocked}ranges, from index 0
          counts, \* g_internal->{allowed,blocked}count
          ip,     \* the address looked up
          pc,     \* which list is searched, if any
          iter, count, \* the search's interval: ranges[iter .. iter + count - 1]
          found   \* the list and the index of the range found, if any

vars == <<ranges, counts, ip, pc, iter, count, found>>

Lists == {"allow", "block"}
Ips   == 0 .. MaxIp
Range == {r \in [start : Ips, end : Ips] : r.start <= r.end}

None == [list |-> "none", at |-> -1]

\* No range starts before the one in front of it ends.
Sorted(a, n) == \A i, j \in 0 .. n - 1 : i < j => a[i].end < a[j].start

Arrays(n) == {a \in [0 .. n - 1 -> Range] : Sorted(a, n)}

Init ==
    /\ \E n, m \in 0 .. MaxCount :
          /\ counts = [l \in Lists |-> IF l = "allow" THEN n ELSE m]
          /\ \E a \in Arrays(n), b \in Arrays(m) :
                ranges = [l \in Lists |-> IF l = "allow" THEN a ELSE b]
    /\ ip \in Ips
    /\ pc = "idle"
    /\ iter = 0
    /\ count = 0
    /\ found = None

\* inranges is called for a list that has ranges only.
Search(l) == pc' = l /\ iter' = 0 /\ count' = counts[l]
Return    == pc' = "done" /\ UNCHANGED <<iter, count>>

SearchBlock == IF counts["block"] > 0 THEN Search("block") ELSE Return

\* CheckRanges(pbn, ip)
CheckRanges ==
    /\ pc = "idle"
    /\ IF counts["allow"] > 0 THEN Search("allow") ELSE SearchBlock
    /\ UNCHANGED <<ranges, counts, ip, found>>

Half == count \div 2
Mid  == ranges[pc][iter + Half]

\* Mutant of GoRight: leaves the middle in the interval's count.
GoRightLong ==
    /\ pc \in Lists /\ count > 0
    /\ Mid.start < ip
    /\ iter' = iter + Half + 1
    /\ count' = count - Half
    /\ UNCHANGED <<ranges, counts, ip, pc, found>>

\* Mutant of GoRight: takes one range too many off the interval.
GoRightShort ==
    /\ pc \in Lists /\ count > 0
    /\ Mid.start < ip
    /\ iter' = iter + Half + 1
    /\ count' = count - Half - 2
    /\ UNCHANGED <<ranges, counts, ip, pc, found>>

GoRight ==
    /\ pc \in Lists /\ count > 0
    /\ Mid.start < ip
    /\ iter' = iter + Half + 1
    /\ count' = count - Half - 1
    /\ UNCHANGED <<ranges, counts, ip, pc, found>>

\* Mutant of GoLeft: does not shrink the interval to one of a single range.
GoLeftStuck ==
    /\ pc \in Lists /\ count > 0
    /\ Mid.start >= ip
    /\ count' = (count + 1) \div 2
    /\ UNCHANGED <<ranges, counts, ip, pc, iter, found>>

GoLeft ==
    /\ pc \in Lists /\ count > 0
    /\ Mid.start >= ip
    /\ count' = Half
    /\ UNCHANGED <<ranges, counts, ip, pc, iter, found>>

\* Mutant of Candidate: always steps back.
CandidateBefore == iter - 1

\* After the loop: the range that starts at ip, or else the one before.
Candidate == IF iter # counts[pc] /\ ranges[pc][iter].start = ip THEN iter ELSE iter - 1

Hit == /\ Candidate >= 0
       /\ ranges[pc][Candidate].start <= ip /\ ip <= ranges[pc][Candidate].end

Finish ==
    /\ pc \in Lists /\ count = 0
    /\ IF Hit THEN found' = [list |-> pc, at |-> Candidate] /\ Return
       ELSE found' = found /\ IF pc = "allow" THEN SearchBlock ELSE Return
    /\ UNCHANGED <<ranges, counts, ip>>

Next == CheckRanges \/ GoRight \/ GoLeft \/ Finish

Spec == Init /\ [][Next]_vars /\ WF_vars(Next)

-----------------------------------------------------------------------------
(* Properties *)

\* Every variable has its type.
TypeOK ==
    /\ counts \in [Lists -> 0 .. MaxCount]
    /\ \A l \in Lists : ranges[l] \in [0 .. counts[l] - 1 -> Range]
    /\ ip \in Ips
    /\ pc \in Lists \cup {"idle", "done"}
    /\ iter \in Nat
    /\ count \in Nat
    /\ found \in [list : Lists \cup {"none"}, at : Nat \cup {-1}]

\* The loop reads the array where it has elements, and so does the test after it.
InBounds ==
    pc \in Lists => /\ iter + count <= counts[pc]
                    /\ count > 0 => iter + Half \in 0 .. counts[pc] - 1
                    /\ count = 0 => Candidate \in -1 .. counts[pc] - 1

Covers(l, i) == ranges[l][i].start <= ip /\ ip <= ranges[l][i].end

Within(l) == \E i \in 0 .. counts[l] - 1 : Covers(l, i)

\* CheckRanges decides as the lists say: allowed if an allowed range has the address,
\* blocked if only a blocked one has; and the range it takes the label from is the one
\* that has the address.
Verdict ==
    pc = "done" =>
        /\ found.list = IF Within("allow") THEN "allow"
                        ELSE IF Within("block") THEN "block" ELSE "none"
        /\ found.list # "none" => /\ found.at \in 0 .. counts[found.list] - 1
                                  /\ Covers(found.list, found.at)

\* The search ends, with the lock held.
SearchEnds == <>(pc = "done")
=============================================================================
