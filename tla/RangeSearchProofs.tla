------------------------- MODULE RangeSearchProofs -------------------------
(***************************************************************************)
(* Proofs about RangeSearch: the driver's lookup is right for sorted lists *)
(* of any length over addresses of any width.                              *)
(***************************************************************************)
EXTENDS RangeSearch, TLAPS

\* What the binary search has established: ranges before iter start below ip, ranges from
\* iter + count on do not.
Split == /\ \A i \in 0 .. counts[pc] - 1 : i < iter => ranges[pc][i].start < ip
         /\ \A i \in 0 .. counts[pc] - 1 : i >= iter + count => ranges[pc][i].start >= ip

SearchInv == /\ TypeOK
             /\ \A l \in Lists : Sorted(ranges[l], counts[l])
             /\ pc # "done" => found = None
             /\ pc = "block" => ~Within("allow")
             /\ pc \in Lists => iter + count <= counts[pc] /\ Split
             /\ Verdict

\* Half of a positive number, rounded down, is smaller than the number.
LEMMA HalfFacts ==
    ASSUME NEW n \in Nat \ {0}
    PROVE  n \div 2 \in Nat /\ n \div 2 < n /\ (n - (n \div 2) - 1) \in Nat
  OBVIOUS

\* Once the interval is empty, the range that starts at the address, or else the one in
\* front of the interval, has the address if any range of the list does.
LEMMA CandidateRight ==
    ASSUME NEW n \in Nat, NEW a \in [0 .. n - 1 -> Range], Sorted(a, n),
           NEW x \in Ips, NEW k \in 0 .. n,
           \A i \in 0 .. n - 1 : i < k => a[i].start < x,
           \A i \in 0 .. n - 1 : i >= k => a[i].start >= x,
           NEW c \in -1 .. n - 1, c = IF k # n /\ a[k].start = x THEN k ELSE k - 1
    PROVE  (c >= 0 /\ a[c].start <= x /\ x <= a[c].end)
              <=> \E i \in 0 .. n - 1 : a[i].start <= x /\ x <= a[i].end
  <1>1. \A i \in 0 .. n - 1 : a[i].start \in Nat /\ a[i].end \in Nat /\ a[i].start <= a[i].end
    BY MaxIpAssumption DEF Range, Ips
  <1>2. x \in Nat
    BY MaxIpAssumption DEF Ips
  <1>4. ASSUME NEW i \in 0 .. n - 1, a[i].start <= x, x <= a[i].end
        PROVE  c = i
    <2>1. CASE i >= k
      <3>1. a[i].start = x /\ k \in 0 .. n - 1
        BY <1>1, <1>2, <1>4, <2>1
      <3>2. CASE i = k
        BY <3>1, <3>2
      <3>3. CASE i # k
        BY <1>1, <1>2, <2>1, <3>1, <3>3 DEF Sorted
      <3> QED
        BY <3>2, <3>3
    <2>2. CASE i < k
      <3>1. ~(k # n /\ a[k].start = x)
        BY <1>1, <1>2, <1>4, <2>2 DEF Sorted
      <3>2. CASE i < k - 1
        <4>1. k - 1 \in 0 .. n - 1 /\ a[k - 1].start < x
          BY <3>2
        <4>2. a[i].end < a[k - 1].start
          BY <3>2, <4>1 DEF Sorted
        <4> QED
          BY <1>1, <1>2, <1>4, <4>1, <4>2
      <3> QED
        BY <2>2, <3>1, <3>2
    <2> QED
      BY <2>1, <2>2
  <1> QED
    BY <1>4

\* The initial state.
LEMMA InitInv == Init => SearchInv
  <1> SUFFICES ASSUME Init PROVE SearchInv
    OBVIOUS
  <1>1. PICK n \in 0 .. MaxCount, m \in 0 .. MaxCount :
          /\ counts = [l \in Lists |-> IF l = "allow" THEN n ELSE m]
          /\ \E a \in Arrays(n), b \in Arrays(m) :
                ranges = [l \in Lists |-> IF l = "allow" THEN a ELSE b]
    BY DEF Init
  <1>2. \A l \in Lists : /\ counts[l] \in 0 .. MaxCount
                         /\ ranges[l] \in Arrays(counts[l])
    BY <1>1 DEF Lists
  <1>3. counts \in [Lists -> 0 .. MaxCount]
    BY <1>1
  <1>4. \A l \in Lists : /\ ranges[l] \in [0 .. counts[l] - 1 -> Range]
                         /\ Sorted(ranges[l], counts[l])
    BY <1>2 DEF Arrays
  <1> QED
    BY <1>3, <1>4 DEF Init, SearchInv, TypeOK, Verdict, None, Lists

\* A search begins with the whole list as its interval.
LEMMA StartInv ==
    ASSUME SearchInv, CheckRanges
    PROVE  SearchInv'
  <1> USE MaxCountAssumption
  <1>1. UNCHANGED <<ranges, counts, ip, found>> /\ found = None /\ pc = "idle"
    BY DEF CheckRanges, SearchInv
  <1>2. \A l \in Lists : counts[l] \in Nat
    BY DEF SearchInv, TypeOK
  <1>3. ASSUME NEW l \in Lists, Search(l), l = "block" => ~Within("allow") PROVE SearchInv'
    <2>1. pc' = l /\ iter' = 0 /\ count' = counts[l]
      BY <1>3 DEF Search
    <2>2. TypeOK'
      BY <1>1, <1>2, <2>1 DEF SearchInv, TypeOK
    <2>3. (iter' + count' <= counts[l]) /\ Split'
      BY <1>1, <1>2, <2>1 DEF Split
    <2>4. ~Within("allow") => ~Within("allow")'
      BY <1>1 DEF Within, Covers
    <2> QED
      BY <1>1, <1>3, <2>1, <2>2, <2>3, <2>4 DEF SearchInv, Verdict, Lists, Sorted
  <1>4. CASE counts["allow"] > 0
    BY <1>3, <1>4 DEF CheckRanges, Lists
  <1>5. CASE counts["allow"] = 0
    <2>1. ~Within("allow")
      BY <1>5 DEF Within
    <2>2. CASE counts["block"] > 0
      BY <1>2, <1>3, <1>5, <2>1, <2>2 DEF CheckRanges, SearchBlock, Lists
    <2>3. CASE counts["block"] = 0
      <3>1. ~Within("block")
        BY <2>3 DEF Within
      <3>2. pc' = "done" /\ UNCHANGED <<iter, count>>
        BY <1>5, <2>3 DEF CheckRanges, SearchBlock, Return
      <3>3. (~Within("allow"))' /\ (~Within("block"))'
        BY <1>1, <2>1, <3>1 DEF Within, Covers
      <3> QED
        BY <1>1, <3>2, <3>3 DEF SearchInv, TypeOK, Verdict, None, Lists, Sorted
    <2> QED
      BY <1>2, <2>2, <2>3 DEF Lists
  <1> QED
    BY <1>2, <1>4, <1>5 DEF Lists

\* A turn of the loop keeps what is left of the interval below ip, and what is right of it
\* not below.
LEMMA LoopInv ==
    ASSUME SearchInv, GoRight \/ GoLeft
    PROVE  SearchInv'
  <1> DEFINE a == ranges[pc]
             n == counts[pc]
  <1>1. /\ pc \in Lists /\ count \in Nat \ {0} /\ iter \in Nat /\ n \in Nat
        /\ iter + count <= n /\ Split /\ Sorted(a, n)
        /\ UNCHANGED <<ranges, counts, ip, pc, found>>
    BY MaxCountAssumption DEF GoRight, GoLeft, SearchInv, TypeOK
  <1>2. \A i \in 0 .. n - 1 : a[i].start \in Nat /\ a[i].end \in Nat /\ a[i].start <= a[i].end
    BY <1>1, MaxIpAssumption DEF SearchInv, TypeOK, Range, Ips
  <1>3. ip \in Nat
    BY MaxIpAssumption DEF SearchInv, TypeOK, Ips
  <1>4. Half \in Nat /\ Half < count /\ (count - Half - 1) \in Nat /\ iter + Half \in 0 .. n - 1
    BY <1>1, HalfFacts DEF Half
  <1>5. (iter' \in Nat /\ count' \in Nat /\ iter' + count' <= n) /\ Split'
    <2>1. CASE GoRight
      <3>1. /\ iter' = iter + Half + 1 /\ count' = count - Half - 1
            /\ a[iter + Half].start < ip
        BY <2>1 DEF GoRight, Mid
      <3>2. \A i \in 0 .. n - 1 : i < iter' => a[i].start < ip
        BY <1>1, <1>2, <1>3, <1>4, <3>1 DEF Sorted
      <3>3. \A i \in 0 .. n - 1 : i >= iter' + count' => a[i].start >= ip
        BY <1>1, <1>4, <3>1 DEF Split
      <3> QED
        BY <1>1, <1>4, <3>1, <3>2, <3>3 DEF Split
    <2>2. CASE GoLeft
      <3>1. /\ iter' = iter /\ count' = Half
            /\ a[iter + Half].start >= ip
        BY <2>2 DEF GoLeft, Mid
      <3>2. \A i \in 0 .. n - 1 : i < iter' => a[i].start < ip
        BY <1>1, <3>1 DEF Split
      <3>3. \A i \in 0 .. n - 1 : i >= iter' + count' => a[i].start >= ip
        BY <1>1, <1>2, <1>3, <1>4, <3>1 DEF Sorted
      <3> QED
        BY <1>1, <1>4, <3>1, <3>2, <3>3 DEF Split
    <2> QED
      BY <2>1, <2>2
  <1>6. TypeOK'
    BY <1>1, <1>5 DEF SearchInv, TypeOK
  <1>7. Within("allow")' => Within("allow")
    BY <1>1 DEF Within, Covers
  <1> QED
    BY <1>1, <1>5, <1>6, <1>7 DEF SearchInv, Verdict, Lists, Sorted

\* The end of a search: the verdict, or the search of the other list.
LEMMA FinishInv ==
    ASSUME SearchInv, Finish
    PROVE  SearchInv'
  <1> DEFINE a == ranges[pc]
             n == counts[pc]
             c == Candidate
  <1>1. /\ pc \in Lists /\ count = 0 /\ iter \in 0 .. n /\ n \in Nat
        /\ Split /\ Sorted(a, n) /\ a \in [0 .. n - 1 -> Range] /\ ip \in Ips
        /\ found = None /\ UNCHANGED <<ranges, counts, ip>>
    BY MaxCountAssumption DEF Finish, SearchInv, TypeOK, Lists
  <1>2. c \in -1 .. n - 1 /\ (Hit <=> Within(pc))
    <2>1. c = IF iter # n /\ a[iter].start = ip THEN iter ELSE iter - 1
      BY DEF Candidate
    <2>2. /\ \A i \in 0 .. n - 1 : i < iter => a[i].start < ip
          /\ \A i \in 0 .. n - 1 : i >= iter => a[i].start >= ip
      BY <1>1 DEF Split
    <2>0. n \in Nat /\ a \in [0 .. n - 1 -> Range] /\ Sorted(a, n) /\ ip \in Ips /\ iter \in 0 .. n
      BY <1>1
    <2> HIDE DEF a, n, c
    <2>3. c \in -1 .. n - 1
      BY <2>0, <2>1
    <2>4. (c >= 0 /\ a[c].start <= ip /\ ip <= a[c].end)
             <=> \E i \in 0 .. n - 1 : a[i].start <= ip /\ ip <= a[i].end
      BY <2>0, <2>1, <2>2, <2>3, CandidateRight
    <2> QED
      BY <2>3, <2>4 DEF Hit, Within, Covers, a, n, c
  <1>3. \A l \in Lists : Within(l)' <=> Within(l)
    BY <1>1 DEF Within, Covers
  <1>4. CASE Hit
    <2>1. found' = [list |-> pc, at |-> c] /\ pc' = "done" /\ UNCHANGED <<iter, count>>
      BY <1>4 DEF Finish, Return
    <2>2. c \in 0 .. n - 1 /\ Covers(pc, c)
      BY <1>1, <1>2, <1>4 DEF Hit, Covers
    <2>3. Within(pc) /\ (pc = "block" => ~Within("allow"))
      BY <1>2, <1>4 DEF SearchInv
    <2>4. TypeOK'
      <3>1. c \in Nat
        BY <1>1, <2>2
      <3> HIDE DEF c
      <3>2. found' \in [list : Lists \cup {"none"}, at : Nat \cup {-1}]
        BY <1>1, <2>1, <3>1
      <3> QED
        BY <1>1, <2>1, <3>2 DEF SearchInv, TypeOK
    <2>5. Verdict'
      <3>1. found'.list = pc /\ found'.at = c
        BY <2>1
      <3>2. ranges'[pc][c].start <= ip' /\ ip' <= ranges'[pc][c].end /\ counts'[pc] = n
        BY <1>1, <2>2 DEF Covers
      <3> HIDE DEF c
      <3>3. found'.list = IF Within("allow")' THEN "allow"
                          ELSE IF Within("block")' THEN "block" ELSE "none"
        BY <1>1, <1>3, <2>3, <3>1 DEF Lists
      <3>4. found'.at \in 0 .. counts'[found'.list] - 1 /\ Covers(found.list, found.at)'
        BY <1>1, <2>2, <3>1, <3>2 DEF Covers
      <3> QED
        BY <3>3, <3>4 DEF Verdict
    <2> QED
      BY <1>1, <2>1, <2>4, <2>5 DEF SearchInv, Sorted, Lists
  <1>5. CASE ~Hit /\ pc = "allow" /\ counts["block"] > 0
    <2>1. found' = found /\ pc' = "block" /\ iter' = 0 /\ count' = counts["block"]
      BY <1>5 DEF Finish, SearchBlock, Search
    <2>2. counts["block"] \in Nat
      BY MaxCountAssumption DEF SearchInv, TypeOK, Lists
    <2>3. (~Within("allow"))'
      BY <1>2, <1>3, <1>5 DEF Lists
    <2>4. TypeOK'
      BY <1>1, <2>1, <2>2 DEF SearchInv, TypeOK, Lists
    <2>5. (iter' + count' <= counts'[pc']) /\ Split'
      BY <1>1, <2>1, <2>2 DEF Split
    <2> QED
      BY <1>1, <2>1, <2>3, <2>4, <2>5 DEF SearchInv, Verdict, Sorted, Lists
  <1>6. CASE ~Hit /\ (pc = "block" \/ ~(counts["block"] > 0))
    <2>1. found' = found /\ pc' = "done" /\ UNCHANGED <<iter, count>>
      BY <1>1, <1>6 DEF Finish, SearchBlock, Return, Lists
    <2>2. counts["block"] \in Nat
      BY MaxCountAssumption DEF SearchInv, TypeOK, Lists
    <2>3. ~Within("allow") /\ ~Within("block")
      <3>1. CASE pc = "block"
        BY <1>2, <1>6, <3>1 DEF SearchInv
      <3>2. CASE pc = "allow" /\ ~(counts["block"] > 0)
        BY <1>2, <1>6, <2>2, <3>2 DEF Within
      <3> QED
        BY <1>1, <1>6, <3>1, <3>2 DEF Lists
    <2>4. (~Within("allow"))' /\ (~Within("block"))'
      BY <1>3, <2>3 DEF Lists
    <2>5. TypeOK'
      BY <1>1, <2>1 DEF SearchInv, TypeOK
    <2> QED
      BY <1>1, <2>1, <2>4, <2>5 DEF SearchInv, Verdict, None, Sorted, Lists
  <1> QED
    BY <1>1, <1>4, <1>5, <1>6 DEF Lists

\* Every step keeps the invariant.
LEMMA StepInv == SearchInv /\ [Next]_vars => SearchInv'
  <1> SUFFICES ASSUME SearchInv, [Next]_vars PROVE SearchInv'
    OBVIOUS
  <1>1. CASE UNCHANGED vars
    BY <1>1 DEF vars, SearchInv, TypeOK, Verdict, Within, Covers, Split, Sorted
  <1> QED
    BY <1>1, StartInv, LoopInv, FinishInv DEF Next

\* Whatever the lists and the address, CheckRanges decides as the lists say.
THEOREM VerdictRight == Spec => []Verdict
  <1>1. SearchInv => Verdict
    BY DEF SearchInv
  <1> QED
    BY <1>1, InitInv, StepInv, PTL DEF Spec

\* Type correctness.
THEOREM SearchTypes == Spec => []TypeOK
  <1>1. SearchInv => TypeOK
    BY DEF SearchInv
  <1> QED
    BY <1>1, InitInv, StepInv, PTL DEF Spec

\* The search reads no element outside the array.
THEOREM SearchInBounds == Spec => []InBounds
  <1>1. SearchInv => InBounds
    <2> SUFFICES ASSUME SearchInv, pc \in Lists
                 PROVE  /\ iter + count <= counts[pc]
                        /\ count > 0 => iter + Half \in 0 .. counts[pc] - 1
                        /\ count = 0 => Candidate \in -1 .. counts[pc] - 1
      BY DEF InBounds
    <2>1. /\ counts[pc] \in Nat /\ iter \in Nat /\ count \in Nat
          /\ iter + count <= counts[pc]
      BY MaxCountAssumption DEF SearchInv, TypeOK
    <2>2. count > 0 => iter + Half \in 0 .. counts[pc] - 1
      BY <2>1, HalfFacts DEF Half
    <2>3. count = 0 => Candidate \in -1 .. counts[pc] - 1
      BY <2>1 DEF Candidate
    <2> QED
      BY <2>1, <2>2, <2>3
  <1> QED
    BY <1>1, InitInv, StepInv, PTL DEF Spec

\* A turn of the loop leaves less to search.
Narrows == pc \in Lists /\ pc' = pc => 0 <= count' /\ count' < count

\* The loop makes progress in every turn, for lists of any length: why it ends.
THEOREM SearchNarrows == Spec => [][Narrows]_vars
  <1>1. SearchInv /\ [Next]_vars => [Narrows]_vars
    <2> SUFFICES ASSUME SearchInv, Next, pc \in Lists, pc' = pc
                 PROVE  0 <= count' /\ count' < count
      BY DEF Narrows
    <2>1. count \in Nat
      BY DEF SearchInv, TypeOK
    <2>2. count > 0 => Half \in Nat /\ Half < count /\ (count - Half - 1) \in Nat
      BY <2>1, HalfFacts DEF Half
    <2>3. ~CheckRanges
      BY DEF CheckRanges, Lists
    <2>4. CASE GoRight
      BY <2>1, <2>2, <2>4 DEF GoRight
    <2>5. CASE GoLeft
      BY <2>1, <2>2, <2>5 DEF GoLeft
    <2>6. ~Finish
      BY DEF Finish, SearchBlock, Search, Return, Lists
    <2> QED
      BY <2>3, <2>4, <2>5, <2>6 DEF Next
  <1> QED
    BY <1>1, InitInv, StepInv, PTL DEF Spec
=============================================================================
