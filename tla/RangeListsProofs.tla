-------------------------- MODULE RangeListsProofs --------------------------
(***************************************************************************)
(* Proofs about RangeLists: for loaded lists of any length and addresses   *)
(* of any width, the driver gets sorted and disjoint ranges, that cover    *)
(* what the lists block and nobody allowed; every turn of erase finds the  *)
(* allowed range it looks for and has a case that applies.                 *)
(*                                                                         *)
(* What is sorted or disjoint at the end says little of the middle of a    *)
(* loop.  ListInv says it of what a loop has kept and of what it has       *)
(* before it: Unique (of unique), SearchInv (of the binary search),        *)
(* EraseInv (of erase and its rounds) and SendInv (of setranges).          *)
(***************************************************************************)
EXTENDS RangeLists, FiniteSetTheorems, SequenceTheorems, TLAPS

-----------------------------------------------------------------------------
(* Sequences: the elements of what the loops make of them *)

LEMMA SeqGrows ==
    ASSUME NEW S, NEW T, S \subseteq T, NEW s \in Seq(S)
    PROVE  s \in Seq(T)
  OBVIOUS

LEMMA SeqOfElements ==
    ASSUME NEW S, NEW T, NEW s \in Seq(S), \A i \in 1 .. Len(s) : s[i] \in T
    PROVE  s \in Seq(T)
<1>1. Len(s) \in Nat /\ s \in [1 .. Len(s) -> S]
  OBVIOUS
<1>2. s \in [1 .. Len(s) -> T]
  BY <1>1
<1>3. QED
  BY <1>1, <1>2, SeqDef, Zenon

LEMMA AppendFacts ==
    ASSUME NEW S, NEW s \in Seq(S), NEW r \in S
    PROVE  /\ Append(s, r) \in Seq(S)
           /\ Len(Append(s, r)) = Len(s) + 1
           /\ \A i \in 1 .. Len(s) : Append(s, r)[i] = s[i]
           /\ Append(s, r)[Len(s) + 1] = r
  OBVIOUS

LEMMA TailFacts ==
    ASSUME NEW S, NEW s \in Seq(S), s # <<>>
    PROVE  /\ Head(s) \in S /\ Head(s) = s[1]
           /\ Tail(s) \in Seq(S)
           /\ Len(s) \in Nat \ {0}
           /\ Len(Tail(s)) = Len(s) - 1
           /\ \A i \in 1 .. Len(s) - 1 : Tail(s)[i] = s[i + 1]
  OBVIOUS

LEMMA ConcatFacts ==
    ASSUME NEW S, NEW s \in Seq(S), NEW t \in Seq(S)
    PROVE  /\ s \o t \in Seq(S)
           /\ Len(s \o t) = Len(s) + Len(t)
           /\ \A i \in 1 .. Len(s) : (s \o t)[i] = s[i]
           /\ \A i \in 1 .. Len(t) : (s \o t)[Len(s) + i] = t[i]
  OBVIOUS

\* A sequence is its front with its last element behind it.
LEMMA FrontFacts ==
    ASSUME NEW S, NEW s \in Seq(S), s # <<>>
    PROVE  /\ Len(s) \in Nat \ {0}
           /\ Last(s) \in S /\ Last(s) = s[Len(s)]
           /\ Front(s) \in Seq(S)
           /\ Len(Front(s)) = Len(s) - 1
           /\ \A i \in 1 .. Len(s) - 1 : Front(s)[i] = s[i]
<1>1. Len(s) \in Nat \ {0} /\ Last(s) = s[Len(s)] /\ s[Len(s)] \in S
  BY DEF Last
<1>2. Front(s) = SubSeq(s, 1, Len(s) - 1)
  BY DEF Front
<1>3. /\ SubSeq(s, 1, Len(s) - 1) \in Seq(S)
      /\ Len(SubSeq(s, 1, Len(s) - 1)) = Len(s) - 1
      /\ \A i \in 1 .. Len(s) - 1 : SubSeq(s, 1, Len(s) - 1)[i] = s[i]
  <2> DEFINE n == Len(s) - 1
  <2>1. n \in Nat /\ 1 \in Int /\ \A i \in 1 .. n : s[i] \in S
    BY <1>1
  <2> HIDE DEF n
  <2>2. /\ SubSeq(s, 1, n) \in Seq(S)
        /\ Len(SubSeq(s, 1, n)) = IF 1 <= n THEN n - 1 + 1 ELSE 0
        /\ \A i \in 1 .. n - 1 + 1 : SubSeq(s, 1, n)[i] = s[1 + i - 1]
    BY <2>1, SubSeqProperties
  <2>3. \A i \in 1 .. n : i \in 1 .. n - 1 + 1 /\ 1 + i - 1 = i
    BY <2>1
  <2>4. Len(SubSeq(s, 1, n)) = n
    BY <2>1, <2>2
  <2>5. \A i \in 1 .. n : SubSeq(s, 1, n)[i] = s[i]
    BY <2>2, <2>3
  <2>6. QED
    BY <2>2, <2>4, <2>5 DEF n
<1>4. QED
  BY <1>1, <1>2, <1>3

\* A sequence with another first element.
LEMMA ExceptFacts ==
    ASSUME NEW S, NEW s \in Seq(S), s # <<>>, NEW r \in S
    PROVE  LET t == [s EXCEPT ![1] = r]
           IN  /\ t \in Seq(S) /\ t # <<>> /\ Len(t) = Len(s)
               /\ t[1] = r
               /\ \A i \in 2 .. Len(s) : t[i] = s[i]
  OBVIOUS

\* What sort gives: the same ranges, by their starts.
LEMMA SortFacts ==
    ASSUME NEW S, NEW s \in Seq(S), NEW t \in Sort(s),
           \A r \in S : r.start \in Int
    PROVE  /\ t \in Seq(S) /\ Len(t) = Len(s)
           /\ \A i \in 1 .. Len(t) : \E j \in 1 .. Len(s) : t[i] = s[j]
           /\ \A j \in 1 .. Len(s) : \E i \in 1 .. Len(t) : t[i] = s[j]
           /\ \A i, j \in 1 .. Len(t) : i < j => t[i].start <= t[j].start
<1>1. PICK p \in Bijection(DOMAIN s, DOMAIN s) :
          /\ \A k, l \in DOMAIN s : k < l => Before(s, p[k], p[l])
          /\ t = [k \in DOMAIN s |-> s[p[k]]]
  BY Zenon DEF Sort
<1>2. DOMAIN s = 1 .. Len(s) /\ Len(s) \in Nat
  OBVIOUS
<1>3. /\ p \in [1 .. Len(s) -> 1 .. Len(s)]
      /\ \A j \in 1 .. Len(s) : \E i \in 1 .. Len(s) : p[i] = j
  BY <1>1, <1>2, Zenon DEF Bijection, Injection, Surjection
<1>4. t \in [1 .. Len(s) -> S]
  BY <1>1, <1>2, <1>3
<1>5. t \in Seq(S) /\ Len(t) = Len(s)
  BY <1>2, <1>4
<1>6. \A i \in 1 .. Len(s) : t[i] = s[p[i]] /\ p[i] \in 1 .. Len(s)
  BY <1>1, <1>2, <1>3
<1>7. ASSUME NEW i \in 1 .. Len(t), NEW j \in 1 .. Len(t), i < j
      PROVE  t[i].start <= t[j].start
  <2>1. Before(s, p[i], p[j])
    BY <1>1, <1>2, <1>5, <1>7
  <2>2. s[p[i]].start \in Int /\ s[p[j]].start \in Int
    BY <1>5, <1>6, <1>7
  <2>3. s[p[i]].start <= s[p[j]].start
    BY <2>1, <2>2 DEF Before
  <2>4. QED
    BY <1>5, <1>6, <2>3
<1>8. QED
  BY <1>3, <1>5, <1>6, <1>7

-----------------------------------------------------------------------------
(* The addresses a sequence of ranges covers *)

Interval(r) == r.start .. r.end

LEMMA CoveredElem ==
    ASSUME NEW S, NEW s \in Seq(S), NEW x
    PROVE  x \in Covered(s) <=> \E i \in 1 .. Len(s) : x \in Interval(s[i])
<1>1. DOMAIN s = 1 .. Len(s)
  OBVIOUS
<1>2. QED
  BY <1>1, Zenon DEF Covered, Interval

LEMMA CoveredEmpty == Covered(<<>>) = {}
<1>1. DOMAIN <<>> = {}
  OBVIOUS
<1>2. QED
  BY <1>1, Zenon DEF Covered

LEMMA CoveredAppend ==
    ASSUME NEW S, NEW s \in Seq(S), NEW r \in S
    PROVE  Covered(Append(s, r)) = Covered(s) \cup Interval(r)
<1> DEFINE t == Append(s, r)
<1>1. /\ t \in Seq(S) /\ Len(t) = Len(s) + 1 /\ Len(s) \in Nat
      /\ \A i \in 1 .. Len(s) : t[i] = s[i]
      /\ t[Len(s) + 1] = r
  BY AppendFacts
<1> HIDE DEF t
<1>2. \A i \in 1 .. Len(t) : i \in 1 .. Len(s) \/ i = Len(s) + 1
  BY <1>1
<1>3. /\ \A i \in 1 .. Len(s) : i \in 1 .. Len(t)
      /\ Len(s) + 1 \in 1 .. Len(t)
  BY <1>1
<1>4. \A x : /\ x \in Covered(t) <=> \E i \in 1 .. Len(t) : x \in Interval(t[i])
             /\ x \in Covered(s) <=> \E i \in 1 .. Len(s) : x \in Interval(s[i])
  BY <1>1, CoveredElem
<1>5. ASSUME NEW x PROVE x \in Covered(t) <=> x \in Covered(s) \cup Interval(r)
  BY <1>1, <1>2, <1>3, <1>4, Zenon
<1>6. QED
  BY <1>5, Zenon DEF t

LEMMA CoveredTail ==
    ASSUME NEW S, NEW s \in Seq(S), s # <<>>
    PROVE  Covered(s) = Interval(Head(s)) \cup Covered(Tail(s))
<1> DEFINE t == Tail(s)
<1>1. /\ t \in Seq(S) /\ Len(s) \in Nat \ {0} /\ Len(t) = Len(s) - 1
      /\ \A i \in 1 .. Len(t) : t[i] = s[i + 1]
      /\ Head(s) = s[1]
  BY TailFacts
<1> HIDE DEF t
<1>2. /\ \A i \in 1 .. Len(s) : i = 1 \/ (i - 1 \in 1 .. Len(t) /\ t[i - 1] = s[i])
      /\ \A i \in 1 .. Len(t) : i + 1 \in 1 .. Len(s)
      /\ 1 \in 1 .. Len(s)
  <2>1. ASSUME NEW i \in 1 .. Len(s), i # 1 PROVE i - 1 \in 1 .. Len(t) /\ t[i - 1] = s[i]
    <3>1. i - 1 \in 1 .. Len(t) /\ (i - 1) + 1 = i
      BY <1>1, <2>1
    <3>2. QED
      BY <1>1, <3>1
  <2>2. QED
    BY <1>1, <2>1
<1>3. \A x : /\ x \in Covered(t) <=> \E i \in 1 .. Len(t) : x \in Interval(t[i])
             /\ x \in Covered(s) <=> \E i \in 1 .. Len(s) : x \in Interval(s[i])
  BY <1>1, CoveredElem
<1>4. ASSUME NEW x PROVE x \in Covered(s) <=> x \in Interval(Head(s)) \cup Covered(t)
  BY <1>1, <1>2, <1>3, Zenon
<1>5. QED
  BY <1>4, Zenon DEF t

LEMMA CoveredConcat ==
    ASSUME NEW S, NEW s \in Seq(S), NEW t \in Seq(S)
    PROVE  Covered(s \o t) = Covered(s) \cup Covered(t)
<1> DEFINE u == s \o t
<1>1. /\ u \in Seq(S) /\ Len(u) = Len(s) + Len(t)
      /\ Len(s) \in Nat /\ Len(t) \in Nat
      /\ \A i \in 1 .. Len(s) : u[i] = s[i]
      /\ \A i \in 1 .. Len(t) : u[Len(s) + i] = t[i]
  BY ConcatFacts
<1> HIDE DEF u
<1>2. /\ \A i \in 1 .. Len(s) : i \in 1 .. Len(u)
      /\ \A i \in 1 .. Len(t) : Len(s) + i \in 1 .. Len(u)
  BY <1>1
<1>3. ASSUME NEW i \in 1 .. Len(u), i \notin 1 .. Len(s)
      PROVE  \E j \in 1 .. Len(t) : i = Len(s) + j
  <2>1. i - Len(s) \in 1 .. Len(t) /\ i = Len(s) + (i - Len(s))
    BY <1>1, <1>3
  <2>2. QED
    BY <2>1
<1>4. \A x : /\ x \in Covered(u) <=> \E i \in 1 .. Len(u) : x \in Interval(u[i])
             /\ x \in Covered(s) <=> \E i \in 1 .. Len(s) : x \in Interval(s[i])
             /\ x \in Covered(t) <=> \E i \in 1 .. Len(t) : x \in Interval(t[i])
  BY <1>1, CoveredElem
<1>5. ASSUME NEW x, x \in Covered(u) PROVE x \in Covered(s) \cup Covered(t)
  <2>1. PICK i \in 1 .. Len(u) : x \in Interval(u[i])
    BY <1>4, <1>5
  <2>2. CASE i \in 1 .. Len(s)
    BY <1>1, <1>4, <2>1, <2>2, Zenon
  <2>3. CASE i \notin 1 .. Len(s)
    <3>1. PICK j \in 1 .. Len(t) : i = Len(s) + j
      BY <1>3, <2>3
    <3>2. u[i] = t[j]
      BY <1>1, <3>1
    <3>3. QED
      BY <1>4, <2>1, <3>2, Zenon
  <2>4. QED
    BY <2>2, <2>3
<1>6. ASSUME NEW x, x \in Covered(s) \cup Covered(t) PROVE x \in Covered(u)
  BY <1>1, <1>2, <1>4, <1>6, Zenon
<1>7. QED
  BY <1>5, <1>6, Zenon DEF u

\* The addresses of the range that is last, and of those in front of it.
LEMMA CoveredFront ==
    ASSUME NEW S, NEW s \in Seq(S), s # <<>>
    PROVE  Covered(s) = Covered(Front(s)) \cup Interval(Last(s))
<1> DEFINE t == Front(s)
<1>1. /\ Len(s) \in Nat \ {0} /\ Last(s) = s[Len(s)]
      /\ t \in Seq(S) /\ Len(t) = Len(s) - 1
      /\ \A i \in 1 .. Len(t) : t[i] = s[i]
  BY FrontFacts
<1> HIDE DEF t
<1>2. /\ \A i \in 1 .. Len(s) : i = Len(s) \/ i \in 1 .. Len(t)
      /\ \A i \in 1 .. Len(t) : i \in 1 .. Len(s)
      /\ Len(s) \in 1 .. Len(s)
  BY <1>1
<1>3. \A x : /\ x \in Covered(t) <=> \E i \in 1 .. Len(t) : x \in Interval(t[i])
             /\ x \in Covered(s) <=> \E i \in 1 .. Len(s) : x \in Interval(s[i])
  BY <1>1, CoveredElem
<1>4. ASSUME NEW x PROVE x \in Covered(s) <=> x \in Covered(t) \cup Interval(Last(s))
  BY <1>1, <1>2, <1>3, Zenon
<1>5. QED
  BY <1>4, Zenon DEF t

\* The addresses after the first range was cut.
LEMMA CoveredExcept ==
    ASSUME NEW S, NEW s \in Seq(S), s # <<>>, NEW r \in S
    PROVE  Covered([s EXCEPT ![1] = r]) = Interval(r) \cup Covered(Tail(s))
<1> DEFINE t == [s EXCEPT ![1] = r]
<1>1. /\ t \in Seq(S) /\ t # <<>> /\ Len(t) = Len(s) /\ t[1] = r
      /\ \A i \in 2 .. Len(s) : t[i] = s[i]
  BY ExceptFacts
<1> HIDE DEF t
<1>2. /\ Tail(t) \in Seq(S) /\ Tail(s) \in Seq(S) /\ Len(s) \in Nat \ {0}
      /\ Len(Tail(t)) = Len(s) - 1 /\ Len(Tail(s)) = Len(s) - 1
      /\ \A i \in 1 .. Len(s) - 1 : Tail(s)[i] = s[i + 1]
      /\ \A i \in 1 .. Len(s) - 1 : Tail(t)[i] = t[i + 1]
      /\ Head(t) = t[1]
  BY <1>1, TailFacts
<1>3. \A i \in 1 .. Len(s) - 1 : i + 1 \in 2 .. Len(s)
  BY <1>2
<1>4. \A i \in 1 .. Len(Tail(t)) : Tail(t)[i] = Tail(s)[i]
  BY <1>1, <1>2, <1>3
<1>5. Tail(t) = Tail(s)
  BY <1>2, <1>4, SeqEqual
<1>6. Covered(t) = Interval(Head(t)) \cup Covered(Tail(t))
  BY <1>1, CoveredTail
<1>7. QED
  BY <1>1, <1>2, <1>5, <1>6 DEF t

LEMMA CoveredSort ==
    ASSUME NEW S, NEW s \in Seq(S), NEW t \in Sort(s),
           \A r \in S : r.start \in Int
    PROVE  Covered(t) = Covered(s)
<1>1. /\ t \in Seq(S) /\ Len(t) = Len(s)
      /\ \A i \in 1 .. Len(t) : \E j \in 1 .. Len(s) : t[i] = s[j]
      /\ \A j \in 1 .. Len(s) : \E i \in 1 .. Len(t) : t[i] = s[j]
  BY SortFacts
<1>2. \A x : /\ x \in Covered(t) <=> \E i \in 1 .. Len(t) : x \in Interval(t[i])
             /\ x \in Covered(s) <=> \E i \in 1 .. Len(s) : x \in Interval(s[i])
  BY <1>1, CoveredElem
<1>3. ASSUME NEW x PROVE x \in Covered(t) <=> x \in Covered(s)
  BY <1>1, <1>2, Zenon
<1>4. QED
  BY <1>3, Zenon

-----------------------------------------------------------------------------
(* The invariant *)

Goal == Covered(file) \ Covered(allow)

Disjoint(s)  == \A i, j \in 1 .. Len(s) : i < j => s[i].end < s[j].start
Ascending(s) == \A i, j \in 1 .. Len(s) : i < j => s[i].start <= s[j].start

\* Ranges of which all, or which at least begin, in a loaded range of their name.
InFile == {r \in NamedRange : \E j \in 1 .. Len(file) :
              file[j].name = r.name /\ file[j].start <= r.start /\ r.end <= file[j].end}
StartInFile == {r \in NamedRange : \E j \in 1 .. Len(file) :
                   file[j].name = r.name /\ r.start \in file[j].start .. file[j].end}

\* In the work of unique, what it keeps is sorted and disjoint, and what it has before it
\* starts no earlier; together they cover what there was.
Unique(k, t, all) ==
    /\ Disjoint(k) /\ Ascending(t)
    /\ \A i \in 1 .. Len(k), j \in 1 .. Len(t) : k[i].start <= t[j].start
    /\ Covered(k) \cup Covered(t) = all

\* What the binary search of the compact list knows.
SearchInv ==
    /\ low < high
    /\ IF todo = <<>> THEN low = 0 /\ high = Len(compact) + 1
       ELSE /\ low # 0 => compact[low].start <= R.end
            /\ high <= Len(compact) => R.end < compact[high].start

\* erase has dealt with what it keeps, and loses nothing else.
EraseInv ==
    /\ SearchInv
    /\ Covered(compact) = Covered(allow)
    /\ kept \in Seq(InFile) /\ todo \in Seq(InFile) /\ made \in Seq(InFile)
    /\ Covered(kept) \cap Covered(allow) = {}
    /\ pc = "erase" =>
          (Covered(kept) \cup Covered(made) \cup Covered(todo)) \ Covered(allow) = Goal
    /\ pc = "again" =>
          /\ Covered(ranges) \cap Covered(allow) = {}
          /\ (Covered(ranges) \cup Covered(kept) \cup Covered(made) \cup Covered(todo))
                 \ Covered(allow) = Goal

\* The copy and the count of the ranges copied.
SendInv ==
    /\ Covered(ranges) = Goal
    /\ Disjoint(ranges)
    /\ Len(kept) <= Len(ranges) /\ \A i \in 1 .. Len(kept) : kept[i] = ranges[i]
    /\ ipcount = Cardinality(Covered(kept)) % (MaxIp + 1)

ListInv ==
    /\ TypeOK
    /\ use = "allow" => allow = <<>>
    /\ Disjoint(compact)
    /\ ranges \in Seq(StartInFile)
    /\ pc \in {"sort", "merge", "send"} => kept \in Seq(StartInFile) /\ todo \in Seq(StartInFile)
    /\ pc \in {"start", "compact", "erase"} => ranges = file
    /\ pc \in {"start", "compact"} => made = <<>>
    /\ pc \in {"start", "sort"} => kept = <<>>
    /\ pc \notin {"send", "done"} => ipcount = 0
    /\ pc # "done" => driver = <<>>
    /\ pc = "compact" => Unique(kept, todo, Covered(allow))
    /\ pc \in {"erase", "again"} => EraseInv
    /\ pc = "sort" => Covered(ranges) = Goal
    /\ pc = "merge" => Unique(kept, todo, Goal)
    /\ pc = "send" => SendInv
    /\ pc = "done" => /\ Disjoint(driver)
                     /\ driver \in Seq(StartInFile)
                     /\ Covered(driver) = Goal
                     /\ ipcount = Cardinality(Covered(driver)) % (MaxIp + 1)

-----------------------------------------------------------------------------
(* Addresses and single ranges *)

LEMMA ModSmall == ASSUME NEW n \in Nat, NEW x \in 0 .. n PROVE x % (n + 1) = x
  OBVIOUS

LEMMA ModFull == ASSUME NEW n \in Nat PROVE (n + 1) % (n + 1) = 0
  OBVIOUS

LEMMA ModRange == ASSUME NEW n \in Nat, NEW x \in Int PROVE x % (n + 1) \in 0 .. n
  OBVIOUS

LEMMA ModMinus == ASSUME NEW n \in Nat PROVE (0 - 1) % (n + 1) = n
  OBVIOUS

\* Addresses wrap at the ends only.
LEMMA NextIp ==
    ASSUME NEW x \in Ips
    PROVE  /\ Plus1(x) \in Ips /\ Minus1(x) \in Ips
           /\ x # MaxIp => Plus1(x) = x + 1
           /\ IF x = 0 THEN Minus1(x) = MaxIp ELSE Minus1(x) = x - 1
<1> USE MaxIpAssumption DEF Ips, Plus1, Minus1
<1>1. Plus1(x) \in Ips /\ Minus1(x) \in Ips
  BY ModRange
<1>2. x # MaxIp => Plus1(x) = x + 1
  BY ModSmall
<1>3. CASE x = 0
  BY <1>1, <1>2, <1>3, ModMinus
<1>4. CASE x # 0
  <2>1. x - 1 \in 0 .. MaxIp
    BY <1>4
  <2>2. QED
    BY <1>1, <1>2, <1>4, <2>1, ModSmall
<1>5. QED
  BY <1>3, <1>4

\* A loaded range has a name, and both kinds have their ends in order.
LEMMA RangeFacts ==
    /\ \A r \in Pair : r.start \in Ips /\ r.end \in Ips /\ r.start <= r.end
    /\ \A r \in NamedRange : r.start \in Ips /\ r.end \in Ips /\ r.start <= r.end
  BY DEF Pair, NamedRange

\* unique: a range merged with a later one begins where it began and covers both.
LEMMA MergedFacts ==
    ASSUME NEW left, NEW right,
           \/ left \in Pair /\ right \in Pair
           \/ left \in NamedRange /\ right \in NamedRange,
           left.start <= right.start, Merges(left, right)
    PROVE  LET m == Merged(left, right)
           IN  /\ left \in Pair => m \in Pair
               /\ left \in NamedRange => m \in NamedRange /\ m.name = left.name
               /\ m.start = left.start
               /\ Interval(m) = Interval(left) \cup Interval(right)
<1> DEFINE x == IF right.start < left.start THEN right.start ELSE left.start
           y == IF right.end > left.end THEN right.end ELSE left.end
           m == Merged(left, right)
<1>1. /\ left.start \in Ips /\ left.end \in Ips /\ left.start <= left.end
      /\ right.start \in Ips /\ right.end \in Ips /\ right.start <= right.end
  BY RangeFacts
<1>2. x \in Ips /\ y \in Ips /\ x <= y /\ x = left.start
  BY <1>1, MaxIpAssumption DEF Ips
<1>3. m = [left EXCEPT !.start = x, !.end = y]
  BY DEF Merged
<1> HIDE DEF x, y, m
<1>4. /\ left \in Pair => m \in Pair
      /\ left \in NamedRange => m \in NamedRange /\ m.name = left.name
      /\ m.start = left.start /\ m.end = y
  <2>1. CASE left \in Pair
    <3>1. left \notin NamedRange
      BY <2>1 DEF Pair, NamedRange
    <3>2. m \in Pair /\ m.start = x /\ m.end = y
      BY <1>2, <1>3, <2>1 DEF Pair
    <3>3. QED
      BY <1>2, <3>1, <3>2
  <2>2. CASE left \in NamedRange
    <3>1. left \notin Pair
      BY <2>2 DEF Pair, NamedRange
    <3>2. m \in NamedRange /\ m.start = x /\ m.end = y /\ m.name = left.name
      BY <1>2, <1>3, <2>2 DEF NamedRange
    <3>3. QED
      BY <1>2, <3>1, <3>2
  <2>3. QED
    BY <2>1, <2>2
<1>5. right.start <= left.end + 1
  <2>1. CASE right.start <= left.end
    BY <1>1, <2>1, MaxIpAssumption DEF Ips
  <2>2. CASE left.end = Minus1(right.start)
    BY <1>1, <2>2, NextIp, MaxIpAssumption DEF Ips
  <2>3. QED
    BY <2>1, <2>2 DEF Merges
<1>6. Interval(m) = Interval(left) \cup Interval(right)
  BY <1>1, <1>4, <1>5, MaxIpAssumption DEF Ips, Interval, y
<1>7. QED
  BY <1>4, <1>6 DEF m

\* A later range that is not merged begins behind the one in front of it.
LEMMA NotMerged ==
    ASSUME NEW left, NEW right,
           \/ left \in Pair /\ right \in Pair
           \/ left \in NamedRange /\ right \in NamedRange,
           left.start <= right.start, ~Merges(left, right)
    PROVE  left.end < right.start
  BY RangeFacts, MaxIpAssumption DEF Merges, Ips

\* erase_pred: what is in front of and behind an allowed range within a range.
LEMMA CutFacts ==
    ASSUME NEW r \in NamedRange, NEW a \in Pair, a.start <= r.end, r.start <= a.end
    PROVE  LET n == [r EXCEPT !.end = Minus1(a.start)]
               m == [r EXCEPT !.start = Plus1(a.end)]
           IN  /\ r.start < a.start =>
                     n \in NamedRange /\ n.name = r.name /\ n.start = r.start /\ n.end = a.start - 1
               /\ a.end < r.end =>
                     m \in NamedRange /\ m.name = r.name /\ m.start = a.end + 1 /\ m.end = r.end
<1>1. /\ r.start \in Ips /\ r.end \in Ips /\ a.start \in Ips /\ a.end \in Ips
  BY RangeFacts
<1>2. ASSUME r.start < a.start
      PROVE  Minus1(a.start) = a.start - 1 /\ a.start - 1 \in Ips /\ r.start <= a.start - 1
  BY <1>1, <1>2, NextIp, MaxIpAssumption DEF Ips
<1>3. ASSUME a.end < r.end
      PROVE  Plus1(a.end) = a.end + 1 /\ a.end + 1 \in Ips /\ a.end + 1 <= r.end
  BY <1>1, <1>3, NextIp, MaxIpAssumption DEF Ips
<1>4. QED
  BY <1>2, <1>3 DEF NamedRange

\* A part of a range that lies in a loaded range of its name does so, too.
LEMMA PartInFile ==
    ASSUME NEW r \in InFile, NEW q \in NamedRange, TypeOK,
           q.name = r.name, r.start <= q.start, q.end <= r.end
    PROVE  q \in InFile
<1>1. PICK j \in 1 .. Len(file) :
          file[j].name = r.name /\ file[j].start <= r.start /\ r.end <= file[j].end
  BY DEF InFile
<1>2. r \in NamedRange /\ file[j] \in NamedRange
  BY DEF InFile, TypeOK
<1>3. file[j].start <= q.start /\ q.end <= file[j].end
  BY <1>1, <1>2, RangeFacts, MaxIpAssumption DEF Ips
<1>4. QED
  BY <1>1, <1>3 DEF InFile

LEMMA InFileStarts ==
    ASSUME TypeOK
    PROVE  InFile \subseteq StartInFile /\ file \in Seq(InFile)
<1>1. ASSUME NEW r \in InFile PROVE r \in StartInFile
  <2>1. PICK j \in 1 .. Len(file) :
            file[j].name = r.name /\ file[j].start <= r.start /\ r.end <= file[j].end
    BY DEF InFile
  <2>2. r \in NamedRange /\ file[j] \in NamedRange
    BY DEF InFile, TypeOK
  <2>3. r.start \in file[j].start .. file[j].end
    BY <2>1, <2>2, RangeFacts, MaxIpAssumption DEF Ips
  <2>4. QED
    BY <2>1, <2>2, <2>3 DEF StartInFile
<1>2. ASSUME NEW i \in 1 .. Len(file) PROVE file[i] \in InFile
  <2>1. file[i] \in NamedRange
    BY DEF TypeOK
  <2>2. file[i].start <= file[i].start /\ file[i].end <= file[i].end
    BY <2>1, RangeFacts, MaxIpAssumption DEF Ips
  <2>3. QED
    BY <2>1, <2>2 DEF InFile
<1>3. file \in Seq(InFile)
  BY <1>2, SeqOfElements DEF TypeOK
<1>4. QED
  BY <1>1, <1>3

LEMMA Frame ==
    ASSUME file' = file, allow' = allow
    PROVE  Goal' = Goal /\ InFile' = InFile /\ StartInFile' = StartInFile
  BY DEF Goal, InFile, StartInFile

-----------------------------------------------------------------------------
(* unique, for the compact list and for the list *)

\* What both turns of the loop rest on.
LEMMA UniqueShape ==
    ASSUME NEW S, S \subseteq Pair \/ S \subseteq NamedRange,
           NEW k \in Seq(S), NEW t \in Seq(S), t # <<>>, NEW all, Unique(k, t, all)
    PROVE  /\ Head(t) \in S /\ Tail(t) \in Seq(S)
           /\ Ascending(Tail(t))
           /\ \A j \in 1 .. Len(Tail(t)) : Head(t).start <= Tail(t)[j].start
           /\ \A i \in 1 .. Len(k) : k[i].start <= Head(t).start
           /\ \A i \in 1 .. Len(k), j \in 1 .. Len(Tail(t)) : k[i].start <= Tail(t)[j].start
           /\ Covered(k) \cup Interval(Head(t)) \cup Covered(Tail(t)) = all
<1>1. /\ Head(t) \in S /\ Head(t) = t[1] /\ Tail(t) \in Seq(S)
      /\ Len(t) \in Nat \ {0} /\ Len(Tail(t)) = Len(t) - 1
      /\ \A i \in 1 .. Len(t) - 1 : Tail(t)[i] = t[i + 1]
  BY TailFacts
<1>2. /\ 1 \in 1 .. Len(t)
      /\ \A i \in 1 .. Len(Tail(t)) : i + 1 \in 1 .. Len(t) /\ 1 < i + 1 /\ Tail(t)[i] = t[i + 1]
  BY <1>1
<1>3. \A i, j \in 1 .. Len(Tail(t)) : i < j => i + 1 < j + 1
  BY <1>1
<1>4. Ascending(Tail(t)) /\ \A j \in 1 .. Len(Tail(t)) : Head(t).start <= Tail(t)[j].start
  BY <1>1, <1>2, <1>3 DEF Unique, Ascending
<1>5. /\ \A i \in 1 .. Len(k) : k[i].start <= Head(t).start
      /\ \A i \in 1 .. Len(k), j \in 1 .. Len(Tail(t)) : k[i].start <= Tail(t)[j].start
  BY <1>1, <1>2 DEF Unique
<1>6. Covered(k) \cup Interval(Head(t)) \cup Covered(Tail(t)) = all
  <2>1. Covered(k) \cup Covered(t) = all
    BY DEF Unique
  <2>2. Covered(t) = Interval(Head(t)) \cup Covered(Tail(t))
    BY CoveredTail
  <2>3. QED
    BY <2>1, <2>2
<1>7. QED
  BY <1>1, <1>4, <1>5, <1>6

LEMMA UniqueAppends ==
    ASSUME NEW S, S \subseteq Pair \/ S \subseteq NamedRange,
           NEW k \in Seq(S), NEW t \in Seq(S), t # <<>>, NEW all, Unique(k, t, all),
           k = <<>> \/ ~Merges(Last(k), Head(t))
    PROVE  /\ Append(k, Head(t)) \in Seq(S) /\ Tail(t) \in Seq(S)
           /\ Unique(Append(k, Head(t)), Tail(t), all)
<1> DEFINE h == Head(t)
           u == Tail(t)
           l == Append(k, h)
<1>1. /\ h \in S /\ u \in Seq(S)
      /\ Ascending(u)
      /\ \A j \in 1 .. Len(u) : h.start <= u[j].start
      /\ \A i \in 1 .. Len(k) : k[i].start <= h.start
      /\ \A i \in 1 .. Len(k), j \in 1 .. Len(u) : k[i].start <= u[j].start
      /\ Covered(k) \cup Interval(h) \cup Covered(u) = all
  BY UniqueShape
<1>2. /\ l \in Seq(S) /\ Len(l) = Len(k) + 1 /\ Len(k) \in Nat
      /\ \A i \in 1 .. Len(k) : l[i] = k[i]
      /\ l[Len(k) + 1] = h
  BY <1>1, AppendFacts
<1>3. Covered(l) = Covered(k) \cup Interval(h)
  BY <1>1, CoveredAppend
<1>4. ~Merges(Last(k), h) \/ k = <<>>
  OBVIOUS
<1> HIDE DEF h, u, l
<1>5. \A i \in 1 .. Len(l) : i \in 1 .. Len(k) \/ i = Len(k) + 1
  BY <1>2
<1>6. ASSUME NEW i \in 1 .. Len(k) PROVE k[i].end < h.start
  <2>1. k # <<>>
    BY <1>6
  <2>2. Len(k) \in 1 .. Len(k) /\ Last(k) = k[Len(k)] /\ Last(k) \in S
    BY <2>1, FrontFacts
  <2>3. Last(k).start <= h.start
    BY <1>1, <2>2
  <2>4. Last(k).end < h.start
    BY <1>1, <1>4, <2>1, <2>2, <2>3, NotMerged
  <2>5. CASE i = Len(k)
    BY <2>2, <2>4, <2>5
  <2>6. CASE i # Len(k)
    <3>1. i < Len(k)
      BY <1>2, <2>6
    <3>2. k[i].end < k[Len(k)].start
      BY <2>2, <3>1 DEF Unique, Disjoint
    <3>3. k[i] \in S /\ k[Len(k)] \in S /\ h \in S
      BY <1>1, <2>2
    <3>4. k[i].end \in Int /\ k[Len(k)].start \in Int /\ h.start \in Int
      BY <3>3, RangeFacts DEF Ips
    <3>5. QED
      BY <2>2, <2>3, <3>2, <3>4
  <2>7. QED
    BY <2>5, <2>6
<1>7. Disjoint(l)
  <2>1. ASSUME NEW i \in 1 .. Len(l), NEW j \in 1 .. Len(l), i < j
        PROVE  l[i].end < l[j].start
    <3>1. i \in 1 .. Len(k)
      BY <1>2, <2>1
    <3>2. CASE j \in 1 .. Len(k)
      BY <1>2, <2>1, <3>1, <3>2 DEF Unique, Disjoint
    <3>3. CASE j = Len(k) + 1
      BY <1>2, <1>6, <3>1, <3>3
    <3>4. QED
      BY <1>5, <3>2, <3>3
  <2>2. QED
    BY <2>1 DEF Disjoint
<1>8. \A i \in 1 .. Len(l), j \in 1 .. Len(u) : l[i].start <= u[j].start
  BY <1>1, <1>2, <1>5
<1>9. Covered(l) \cup Covered(u) = all
  BY <1>1, <1>3
<1>10. QED
  BY <1>1, <1>2, <1>7, <1>8, <1>9 DEF Unique, h, u, l

LEMMA UniqueMerges ==
    ASSUME NEW S, S \subseteq Pair \/ S \subseteq NamedRange,
           NEW k \in Seq(S), NEW t \in Seq(S), t # <<>>, NEW all, Unique(k, t, all),
           k # <<>>, Merges(Last(k), Head(t)), Merged(Last(k), Head(t)) \in S
    PROVE  /\ Front(k) \o <<Merged(Last(k), Head(t))>> \in Seq(S) /\ Tail(t) \in Seq(S)
           /\ Unique(Front(k) \o <<Merged(Last(k), Head(t))>>, Tail(t), all)
<1> DEFINE h == Head(t)
           u == Tail(t)
           f == Front(k)
           m == Merged(Last(k), h)
           l == Append(f, m)
<1>1. /\ h \in S /\ u \in Seq(S)
      /\ Ascending(u)
      /\ \A j \in 1 .. Len(u) : h.start <= u[j].start
      /\ \A i \in 1 .. Len(k) : k[i].start <= h.start
      /\ \A i \in 1 .. Len(k), j \in 1 .. Len(u) : k[i].start <= u[j].start
      /\ Covered(k) \cup Interval(h) \cup Covered(u) = all
  BY UniqueShape
<1>2. /\ Len(k) \in Nat \ {0} /\ Last(k) \in S /\ Last(k) = k[Len(k)]
      /\ f \in Seq(S) /\ Len(f) = Len(k) - 1
      /\ \A i \in 1 .. Len(k) - 1 : f[i] = k[i]
  BY FrontFacts
<1>3. Len(k) \in 1 .. Len(k)
  BY <1>2
<1>4. m.start = Last(k).start /\ Interval(m) = Interval(Last(k)) \cup Interval(h)
  <2>1. Last(k).start <= h.start
    BY <1>1, <1>2, <1>3
  <2>2. QED
    BY <1>1, <1>2, <2>1, MergedFacts
<1>5. m \in S
  OBVIOUS
<1>6. f \o <<m>> = l
  <2> HIDE DEF f, m
  <2> QED BY <1>2, <1>5, AppendIsConcat
<1>7. Covered(k) = Covered(f) \cup Interval(Last(k))
  BY CoveredFront
<1> HIDE DEF h, u, f, m
<1>8. /\ l \in Seq(S) /\ Len(l) = Len(k)
      /\ \A i \in 1 .. Len(k) - 1 : l[i] = k[i]
      /\ l[Len(k)] = m
  <2>1. /\ l \in Seq(S) /\ Len(l) = Len(f) + 1
        /\ \A i \in 1 .. Len(f) : l[i] = f[i]
        /\ l[Len(f) + 1] = m
    BY <1>2, <1>5, AppendFacts
  <2> HIDE DEF l
  <2>2. QED
    BY <1>2, <2>1
<1>9. Covered(l) = Covered(f) \cup Interval(m)
  BY <1>2, <1>5, CoveredAppend
<1> HIDE DEF l
<1>10. \A i \in 1 .. Len(l) : l[i].start = k[i].start
  <2>1. ASSUME NEW i \in 1 .. Len(l) PROVE l[i].start = k[i].start
    <3>1. CASE i = Len(k)
      BY <1>2, <1>4, <1>8, <3>1
    <3>2. CASE i # Len(k)
      <4>1. i \in 1 .. Len(k) - 1
        BY <1>2, <1>8, <3>2
      <4>2. QED
        BY <1>8, <4>1
    <3>3. QED
      BY <3>1, <3>2
  <2>2. QED
    BY <2>1
<1>11. Disjoint(l)
  <2>1. ASSUME NEW i \in 1 .. Len(l), NEW j \in 1 .. Len(l), i < j
        PROVE  l[i].end < l[j].start
    <3>1. i \in 1 .. Len(k) - 1 /\ i \in 1 .. Len(k) /\ j \in 1 .. Len(k)
      BY <1>2, <1>8, <2>1
    <3>2. k[i].end < k[j].start
      BY <2>1, <3>1 DEF Unique, Disjoint
    <3>3. QED
      BY <1>8, <1>10, <3>1, <3>2
  <2>2. QED
    BY <2>1 DEF Disjoint
<1>12. \A i \in 1 .. Len(l), j \in 1 .. Len(u) : l[i].start <= u[j].start
  BY <1>1, <1>8, <1>10
<1>13. Covered(l) \cup Covered(u) = all
  BY <1>1, <1>4, <1>7, <1>9
<1>14. Unique(l, u, all)
  BY <1>1, <1>11, <1>12, <1>13 DEF Unique
<1>15. QED
  BY <1>1, <1>6, <1>8, <1>14 DEF h, u, f, m

-----------------------------------------------------------------------------
(* The steps *)

LEMMA InitInv == Init => ListInv
<1> SUFFICES ASSUME Init PROVE ListInv
  OBVIOUS
<1>1. PICK in \in Inputs : use = in.use /\ file = in.file /\ allow = in.allow
  BY DEF Init
<1>2. /\ use \in {"block", "allow"} /\ file \in Seq(NamedRange) /\ allow \in Seq(Pair)
      /\ use = "allow" => allow = <<>>
  <2>1. /\ in.file \in Seq(NamedRange)
        /\ \/ in.use = "block" /\ in.allow \in Seq(Pair)
           \/ in.use = "allow" /\ in.allow = <<>>
    BY InputsAssumption, Zenon
  <2>2. <<>> \in Seq(Pair)
    OBVIOUS
  <2>3. use \in {"block", "allow"} /\ file \in Seq(NamedRange) /\ allow \in Seq(Pair)
    BY <1>1, <2>1, <2>2, Zenon
  <2>4. use = "allow" => allow = <<>>
    <3>1. "block" # "allow"
      OBVIOUS
    <3>2. QED
      BY <1>1, <2>1, <3>1, Zenon
  <2>5. QED
    BY <2>3, <2>4
<1>3. TypeOK
  BY <1>2, MaxIpAssumption DEF Init, TypeOK, Ips
<1>4. ranges \in Seq(StartInFile)
  BY <1>3, InFileStarts, SeqGrows DEF Init
<1>5. QED
  BY <1>2, <1>3, <1>4 DEF Init, ListInv, Disjoint

LEMMA StartStep == ListInv /\ Start => ListInv'
<1> SUFFICES ASSUME ListInv, Start PROVE ListInv'
  OBVIOUS
<1>1. /\ pc = "start" /\ ranges = file /\ kept = <<>> /\ made = <<>> /\ driver = <<>> /\ ipcount = 0
      /\ UNCHANGED <<use, file, allow, ranges, compact, low, high, kept, made, driver, ipcount>>
  BY DEF ListInv, Start, search
<1>2. TypeOK /\ ranges \in Seq(StartInFile) /\ Disjoint(compact) /\ (use = "allow" => allow = <<>>)
  BY DEF ListInv
<1>3. Goal' = Goal /\ StartInFile' = StartInFile
  BY <1>1, Frame
<1>4. CASE use = "allow" \/ (file # <<>> /\ allow = <<>>)
  <2>1. pc' = "sort" /\ todo' = <<>>
    BY <1>4 DEF Start
  <2>2. Covered(ranges) = Goal
    BY <1>1, <1>2, <1>4, CoveredEmpty DEF Goal
  <2>3. TypeOK'
    BY <1>1, <1>2, <2>1 DEF TypeOK
  <2>4. QED
    BY <1>1, <1>2, <1>3, <2>1, <2>2, <2>3 DEF ListInv
<1>5. CASE ~(use = "allow" \/ (file # <<>> /\ allow = <<>>)) /\ file = <<>>
  <2>1. pc' = "send" /\ todo' = <<>>
    BY <1>5 DEF Start
  <2>2. Covered(ranges) = Goal
    BY <1>1, <1>5, CoveredEmpty DEF Goal
  <2>3. TypeOK'
    BY <1>1, <1>2, <2>1 DEF TypeOK
  <2>4. ipcount = Cardinality(Covered(kept)) % (MaxIp + 1)
    <3>1. Cardinality(Covered(kept)) = 0
      BY <1>1, CoveredEmpty, FS_EmptySet, Zenon
    <3>2. 0 % (MaxIp + 1) = 0
      BY MaxIpAssumption, ModSmall
    <3>3. QED
      BY <1>1, <3>1, <3>2
  <2>5. SendInv'
    BY <1>1, <1>3, <1>5, <2>2, <2>4 DEF SendInv, Disjoint
  <2>6. QED
    BY <1>1, <1>2, <1>3, <2>1, <2>3, <2>5 DEF ListInv
<1>6. CASE ~(use = "allow" \/ (file # <<>> /\ allow = <<>>)) /\ file # <<>>
  <2>1. pc' = "compact" /\ todo' \in Sort(allow)
    BY <1>6 DEF Start
  <2>2. allow \in Seq(Pair) /\ \A r \in Pair : r.start \in Int
    BY <1>2, RangeFacts DEF TypeOK, Ips
  <2>3. todo' \in Seq(Pair) /\ Ascending(todo') /\ Covered(todo') = Covered(allow)
    BY <2>1, <2>2, SortFacts, CoveredSort DEF Ascending
  <2>4. TypeOK'
    BY <1>1, <1>2, <2>1, <2>3 DEF TypeOK
  <2>5. Unique(kept', todo', Covered(allow'))
    BY <1>1, <2>3, CoveredEmpty DEF Unique, Disjoint
  <2>6. QED
    BY <1>1, <1>2, <1>3, <2>1, <2>4, <2>5 DEF ListInv
<1>7. QED
  BY <1>4, <1>5, <1>6

LEMMA SortingStep == ListInv /\ Sorting => ListInv'
<1> SUFFICES ASSUME ListInv, Sorting PROVE ListInv'
  OBVIOUS
<1>1. /\ pc = "sort" /\ kept = <<>> /\ Covered(ranges) = Goal /\ driver = <<>> /\ ipcount = 0
      /\ pc' = "merge" /\ todo' \in Sort(ranges)
      /\ UNCHANGED <<use, file, allow, ranges, compact, low, high, kept, made, driver, ipcount>>
  BY DEF ListInv, Sorting, search
<1>2. TypeOK /\ ranges \in Seq(StartInFile) /\ Disjoint(compact) /\ (use = "allow" => allow = <<>>)
  BY DEF ListInv
<1>3. Goal' = Goal /\ StartInFile' = StartInFile
  BY <1>1, Frame
<1>4. StartInFile \subseteq NamedRange /\ \A r \in StartInFile : r.start \in Int
  BY RangeFacts DEF StartInFile, Ips
<1>5. todo' \in Seq(StartInFile) /\ Ascending(todo') /\ Covered(todo') = Goal
  BY <1>1, <1>2, <1>4, SortFacts, CoveredSort DEF Ascending
<1>6. todo' \in Seq(NamedRange)
  BY <1>4, <1>5, SeqGrows
<1>7. TypeOK'
  BY <1>1, <1>2, <1>6 DEF TypeOK
<1>8. Unique(kept', todo', Goal')
  BY <1>1, <1>3, <1>5, CoveredEmpty DEF Unique, Disjoint
<1>9. QED
  BY <1>1, <1>2, <1>3, <1>5, <1>7, <1>8 DEF ListInv

LEMMA UniqueStep == ListInv /\ UniqueTurn => ListInv'
<1> SUFFICES ASSUME ListInv, UniqueTurn PROVE ListInv'
  OBVIOUS
<1> DEFINE S == IF pc = "compact" THEN Pair ELSE StartInFile
           all == IF pc = "compact" THEN Covered(allow) ELSE Goal
<1>1. /\ pc \in {"compact", "merge"} /\ todo # <<>>
      /\ todo' = Tail(todo)
      /\ kept' = IF kept # <<>> /\ Merges(Last(kept), Head(todo))
                 THEN Front(kept) \o <<Merged(Last(kept), Head(todo))>>
                 ELSE Append(kept, Head(todo))
      /\ UNCHANGED <<use, file, allow, pc, ranges, compact, low, high, made, driver, ipcount>>
  BY DEF UniqueTurn, search
<1>2. /\ TypeOK /\ ranges \in Seq(StartInFile) /\ Disjoint(compact)
      /\ use = "allow" => allow = <<>>
      /\ pc = "compact" => ranges = file /\ made = <<>>
      /\ ipcount = 0 /\ driver = <<>>
  BY <1>1 DEF ListInv
<1>3. Goal' = Goal /\ StartInFile' = StartInFile
  BY <1>1, Frame
<1>4. S \subseteq Pair \/ S \subseteq NamedRange
  BY DEF StartInFile
<1>5. kept \in Seq(S) /\ todo \in Seq(S) /\ Unique(kept, todo, all)
  BY <1>1 DEF ListInv, TypeOK
<1>6. ASSUME kept # <<>>, Merges(Last(kept), Head(todo))
      PROVE  Merged(Last(kept), Head(todo)) \in S
  <2> DEFINE l == Last(kept)
             h == Head(todo)
             m == Merged(l, h)
  <2>1. l \in S /\ l = kept[Len(kept)] /\ Len(kept) \in 1 .. Len(kept)
    BY <1>5, <1>6, FrontFacts
  <2>2. h \in S /\ l.start <= h.start
    <3>1. /\ h \in S
          /\ \A i \in 1 .. Len(kept) : kept[i].start <= h.start
      <4> HIDE DEF S, all
      <4> QED BY <1>1, <1>4, <1>5, UniqueShape
    <3>2. QED
      BY <2>1, <3>1
  <2>3. /\ l \in Pair => m \in Pair
        /\ l \in NamedRange => m \in NamedRange /\ m.name = l.name
        /\ m.start = l.start
    <3>1. \/ l \in Pair /\ h \in Pair
          \/ l \in NamedRange /\ h \in NamedRange
      BY <1>4, <2>1, <2>2
    <3>2. Merges(l, h)
      BY <1>6
    <3> HIDE DEF l, h
    <3>3. QED
      BY <2>2, <3>1, <3>2, MergedFacts
  <2> HIDE DEF l, h, m
  <2>4. CASE pc = "compact"
    BY <2>1, <2>3, <2>4 DEF m, l, h
  <2>5. CASE pc # "compact"
    <3>1. l \in StartInFile
      BY <2>1, <2>5
    <3>2. m \in StartInFile
      BY <2>3, <3>1 DEF StartInFile
    <3>3. QED
      BY <2>5, <3>2 DEF m, l, h
  <2>6. QED
    BY <2>4, <2>5
<1>7. kept' \in Seq(S) /\ todo' \in Seq(S) /\ Unique(kept', todo', all)
  <2> HIDE DEF S, all
  <2>1. CASE kept # <<>> /\ Merges(Last(kept), Head(todo))
    BY <1>1, <1>4, <1>5, <1>6, <2>1, UniqueMerges
  <2>2. CASE ~(kept # <<>> /\ Merges(Last(kept), Head(todo)))
    BY <1>1, <1>4, <1>5, <2>2, UniqueAppends
  <2>3. QED
    BY <2>1, <2>2
<1>8. CASE pc = "compact"
  <2>1. kept' \in Seq(Pair) /\ todo' \in Seq(Pair) /\ Unique(kept', todo', Covered(allow'))
    BY <1>1, <1>7, <1>8
  <2>2. TypeOK'
    BY <1>1, <1>2, <1>8, <2>1 DEF TypeOK
  <2>3. QED
    BY <1>1, <1>2, <1>3, <1>8, <2>1, <2>2 DEF ListInv
<1>9. CASE pc = "merge"
  <2>1. kept' \in Seq(StartInFile) /\ todo' \in Seq(StartInFile) /\ Unique(kept', todo', Goal)
    BY <1>7, <1>9
  <2>2. StartInFile \subseteq NamedRange
    BY DEF StartInFile
  <2>3. kept' \in Seq(NamedRange) /\ todo' \in Seq(NamedRange)
    BY <2>1, <2>2, SeqGrows
  <2>4. TypeOK'
    BY <1>1, <1>2, <1>9, <2>3 DEF TypeOK
  <2>5. QED
    BY <1>1, <1>2, <1>3, <1>9, <2>1, <2>4 DEF ListInv
<1>10. QED
  BY <1>1, <1>8, <1>9

LEMMA CompactStep == ListInv /\ CompactDone => ListInv'
<1> SUFFICES ASSUME ListInv, CompactDone PROVE ListInv'
  OBVIOUS
<1>1. /\ pc = "compact" /\ todo = <<>> /\ ranges = file /\ made = <<>>
      /\ driver = <<>> /\ ipcount = 0 /\ Unique(kept, todo, Covered(allow))
      /\ compact' = kept /\ pc' = "erase" /\ todo' = ranges /\ kept' = <<>>
      /\ low' = 0 /\ high' = Len(kept) + 1
      /\ UNCHANGED <<use, file, allow, ranges, made, driver, ipcount>>
  BY DEF ListInv, CompactDone
<1>2. TypeOK /\ ranges \in Seq(StartInFile) /\ (use = "allow" => allow = <<>>)
  BY DEF ListInv
<1>3. Goal' = Goal /\ InFile' = InFile /\ StartInFile' = StartInFile
  BY <1>1, Frame
<1>4. kept \in Seq(Pair) /\ Len(kept) \in Nat
  BY <1>1, <1>2 DEF TypeOK
<1>5. TypeOK'
  BY <1>1, <1>2, <1>4 DEF TypeOK
<1>6. Disjoint(compact') /\ Covered(compact') = Covered(allow)
  BY <1>1, CoveredEmpty DEF Unique
<1>7. SearchInv'
  BY <1>1, <1>4 DEF SearchInv
<1>8. EraseInv'
  <2>1. kept' \in Seq(InFile) /\ todo' \in Seq(InFile) /\ made' \in Seq(InFile)
    BY <1>1, <1>2, InFileStarts
  <2>2. Covered(kept') \cap Covered(allow) = {}
    BY <1>1, CoveredEmpty
  <2>3. (Covered(kept') \cup Covered(made') \cup Covered(todo')) \ Covered(allow) = Goal
    BY <1>1, CoveredEmpty DEF Goal
  <2>4. QED
    BY <1>1, <1>3, <1>6, <1>7, <2>1, <2>2, <2>3 DEF EraseInv
<1>9. QED
  BY <1>1, <1>2, <1>3, <1>5, <1>6, <1>8 DEF ListInv

LEMMA OptimizeStep == ListInv /\ OptimizeDone => ListInv'
<1> SUFFICES ASSUME ListInv, OptimizeDone PROVE ListInv'
  OBVIOUS
<1>1. /\ pc = "merge" /\ todo = <<>>
      /\ driver = <<>> /\ ipcount = 0 /\ Unique(kept, todo, Goal) /\ kept \in Seq(StartInFile)
      /\ ranges' = kept /\ pc' = "send" /\ kept' = <<>>
      /\ UNCHANGED <<use, file, allow, compact, low, high, todo, made, driver, ipcount>>
  BY DEF ListInv, OptimizeDone, search
<1>2. TypeOK /\ Disjoint(compact) /\ (use = "allow" => allow = <<>>)
  BY DEF ListInv
<1>3. Goal' = Goal /\ StartInFile' = StartInFile
  BY <1>1, Frame
<1>4. TypeOK'
  BY <1>1, <1>2 DEF TypeOK
<1>5. SendInv'
  <2>1. Covered(ranges') = Goal' /\ Disjoint(ranges')
    BY <1>1, <1>3, CoveredEmpty DEF Unique
  <2>2. Cardinality(Covered(kept')) = 0
    BY <1>1, CoveredEmpty, FS_EmptySet, Zenon
  <2>3. 0 % (MaxIp + 1) = 0
    BY MaxIpAssumption, ModSmall
  <2>4. Len(kept') <= Len(ranges') /\ \A i \in 1 .. Len(kept') : kept'[i] = ranges'[i]
    BY <1>1
  <2>5. QED
    BY <1>1, <2>1, <2>2, <2>3, <2>4 DEF SendInv
<1>6. kept' \in Seq(StartInFile) /\ todo' \in Seq(StartInFile)
  BY <1>1
<1>7. QED
  BY <1>1, <1>2, <1>3, <1>4, <1>5, <1>6 DEF ListInv

-----------------------------------------------------------------------------
(* The turns of erase *)

\* What a turn finds: a loaded range's part in front of it, and the compact list.
LEMMA EraseFacts ==
    ASSUME ListInv, Erasing
    PROVE  /\ pc \in {"erase", "again"} /\ TypeOK /\ EraseInv /\ SearchInv /\ Disjoint(compact)
           /\ todo # <<>> /\ todo \in Seq(InFile) /\ kept \in Seq(InFile) /\ made \in Seq(InFile)
           /\ R \in InFile /\ R \in NamedRange /\ R = todo[1]
           /\ Tail(todo) \in Seq(InFile)
           /\ Covered(todo) = Interval(R) \cup Covered(Tail(todo))
           /\ compact \in Seq(Pair) /\ Covered(compact) = Covered(allow)
<1>1. /\ pc \in {"erase", "again"} /\ TypeOK /\ EraseInv /\ SearchInv /\ Disjoint(compact)
      /\ todo # <<>> /\ todo \in Seq(InFile) /\ kept \in Seq(InFile) /\ made \in Seq(InFile)
      /\ compact \in Seq(Pair) /\ Covered(compact) = Covered(allow)
  BY DEF ListInv, Erasing, EraseInv, TypeOK
<1>2. R \in InFile /\ R = todo[1] /\ Tail(todo) \in Seq(InFile)
  BY <1>1, TailFacts DEF R
<1>3. R \in NamedRange
  BY <1>2 DEF InFile
<1>4. Covered(todo) = Interval(R) \cup Covered(Tail(todo))
  BY <1>1, CoveredTail DEF R
<1>5. QED
  BY <1>1, <1>2, <1>3, <1>4

\* A turn that leaves the lists' types and the addresses that remain as they were keeps the
\* invariant.
LEMMA EraseFrame ==
    ASSUME ListInv, Erasing,
           UNCHANGED <<use, file, allow, pc, ranges, compact, driver, ipcount>>,
           kept' \in Seq(InFile), todo' \in Seq(InFile), made' \in Seq(InFile),
           Covered(kept') \cap Covered(allow) = {},
           (Covered(kept') \cup Covered(made') \cup Covered(todo')) \ Covered(allow)
              = (Covered(kept) \cup Covered(made) \cup Covered(todo)) \ Covered(allow),
           low' \in 0 .. Len(compact), high' \in 0 .. Len(compact) + 1, SearchInv'
    PROVE  ListInv'
<1>1. /\ pc \in {"erase", "again"} /\ TypeOK /\ EraseInv /\ Disjoint(compact)
      /\ ranges \in Seq(StartInFile) /\ (use = "allow" => allow = <<>>)
      /\ pc = "erase" => ranges = file
      /\ driver = <<>> /\ ipcount = 0
  BY EraseFacts DEF ListInv
<1>2. Goal' = Goal /\ InFile' = InFile /\ StartInFile' = StartInFile
  BY Frame
<1>3. kept' \in Seq(NamedRange) /\ todo' \in Seq(NamedRange) /\ made' \in Seq(NamedRange)
  <2>1. InFile \subseteq NamedRange
    BY DEF InFile
  <2>2. QED
    BY <2>1, SeqGrows
<1>4. TypeOK'
  BY <1>1, <1>3 DEF TypeOK
<1>5. EraseInv'
  <2>1. pc = "erase" => (Covered(kept') \cup Covered(made') \cup Covered(todo')) \ Covered(allow) = Goal
    BY <1>1 DEF EraseInv
  <2>2. pc = "again" =>
          /\ Covered(ranges) \cap Covered(allow) = {}
          /\ (Covered(ranges) \cup Covered(kept') \cup Covered(made') \cup Covered(todo'))
                 \ Covered(allow) = Goal
    BY <1>1 DEF EraseInv
  <2>3. QED
    BY <1>1, <1>2, <2>1, <2>2 DEF EraseInv
<1>6. QED
  BY <1>1, <1>2, <1>4, <1>5 DEF ListInv

LEMMA NewSearchFacts ==
    ASSUME TypeOK, NewSearch, compact' = compact
    PROVE  low' \in 0 .. Len(compact) /\ high' \in 0 .. Len(compact) + 1 /\ SearchInv'
<1>1. Len(compact) \in Nat /\ low' = 0 /\ high' = Len(compact) + 1
  BY DEF TypeOK, NewSearch
<1>2. QED
  BY <1>1 DEF SearchInv

LEMMA ProbeStep == ListInv /\ Probe => ListInv'
<1> SUFFICES ASSUME ListInv, Probe PROVE ListInv'
  OBVIOUS
<1> DEFINE probe == (high + low) \div 2
<1>1. /\ Erasing /\ high - low > 1
      /\ IF compact[probe].start > R.end THEN high' = probe /\ low' = low
         ELSE low' = probe /\ high' = high
      /\ UNCHANGED <<use, file, allow, pc, ranges, compact, todo, kept, made, driver, ipcount>>
  BY DEF Probe
<1>2. /\ EraseInv /\ SearchInv /\ R \in NamedRange /\ compact \in Seq(Pair) /\ todo # <<>>
      /\ todo \in Seq(InFile) /\ kept \in Seq(InFile) /\ made \in Seq(InFile)
  BY <1>1, EraseFacts
<1>3. low \in 0 .. Len(compact) /\ high \in 0 .. Len(compact) + 1 /\ Len(compact) \in Nat
  BY <1>1, EraseFacts DEF TypeOK
<1>4. probe \in Int /\ low < probe /\ probe < high
  BY <1>1, <1>3
<1> HIDE DEF probe
<1>5. probe \in 1 .. Len(compact)
  BY <1>3, <1>4
<1>6. compact[probe].start \in Int /\ R.end \in Int
  <2>1. compact[probe] \in Pair
    BY <1>2, <1>5
  <2>2. QED
    BY <1>2, <2>1, RangeFacts DEF Ips
<1>7. low' \in 0 .. Len(compact) /\ high' \in 0 .. Len(compact) + 1 /\ low' < high'
  BY <1>1, <1>3, <1>4, <1>5
<1>8. R' = R
  BY <1>1 DEF R
<1>9. SearchInv'
  <2>1. CASE compact[probe].start > R.end
    BY <1>1, <1>2, <1>6, <1>7, <1>8, <2>1 DEF SearchInv
  <2>2. CASE ~(compact[probe].start > R.end)
    BY <1>1, <1>2, <1>6, <1>7, <1>8, <2>2 DEF SearchInv
  <2>3. QED
    BY <2>1, <2>2
<1>10. Covered(kept) \cap Covered(allow) = {}
  BY <1>2 DEF EraseInv
<1>11. QED
  BY <1>1, <1>2, <1>7, <1>9, <1>10, EraseFrame

\* The search has found the only range that can meet this one.
LEMMA LookedFacts ==
    ASSUME ListInv, Looked
    PROVE  /\ Hit => A \in Pair /\ Interval(A) \subseteq Covered(allow)
           /\ ~Hit => Interval(R) \cap Covered(allow) = {}
<1>1. /\ Erasing /\ high - low <= 1
      /\ SearchInv /\ R \in NamedRange /\ compact \in Seq(Pair) /\ todo # <<>>
      /\ Covered(compact) = Covered(allow) /\ Disjoint(compact)
  BY EraseFacts DEF Looked
<1>2. low \in 0 .. Len(compact) /\ high \in 0 .. Len(compact) + 1 /\ Len(compact) \in Nat
  BY <1>1, EraseFacts DEF TypeOK
<1>3. high = low + 1
  BY <1>1, <1>2 DEF SearchInv
<1>4. \A i \in 1 .. Len(compact) : /\ compact[i].start \in Int /\ compact[i].end \in Int
                                  /\ compact[i].start <= compact[i].end
  <2>1. \A i \in 1 .. Len(compact) : compact[i] \in Pair
    BY <1>1
  <2>2. QED
    BY <2>1, RangeFacts DEF Ips
<1>5. R.start \in Int /\ R.end \in Int /\ R.start <= R.end
  BY <1>1, RangeFacts DEF Ips
<1>6. ASSUME Hit PROVE A \in Pair /\ Interval(A) \subseteq Covered(allow)
  <2>1. low \in 1 .. Len(compact) /\ A = compact[low]
    BY <1>2, <1>6 DEF Hit, A
  <2>2. A \in Pair
    BY <1>1, <2>1
  <2>3. \A x : x \in Interval(A) => x \in Covered(compact)
    BY <1>1, <2>1, CoveredElem
  <2>4. QED
    BY <1>1, <2>2, <2>3
<1>7. ASSUME ~Hit PROVE Interval(R) \cap Covered(allow) = {}
  <2>1. ASSUME NEW x, x \in Interval(R), NEW i \in 1 .. Len(compact), x \in Interval(compact[i])
        PROVE  FALSE
    <3>1. /\ x \in Int /\ R.start <= x /\ x <= R.end
          /\ compact[i].start <= x /\ x <= compact[i].end
      BY <1>4, <1>5, <2>1 DEF Interval
    <3>2. CASE i <= low
      <4>1. low \in 1 .. Len(compact) /\ low # 0
        BY <1>2, <3>2
      <4>2. compact[low].start <= R.end
        BY <1>1, <4>1 DEF SearchInv
      <4>3. compact[low].end < R.start
        BY <1>4, <1>5, <1>7, <4>1, <4>2 DEF Hit, A
      <4>4. CASE i = low
        BY <1>4, <1>5, <3>1, <4>3, <4>4
      <4>5. CASE i # low
        <5>1. compact[i].end < compact[low].start
          BY <1>1, <1>2, <3>2, <4>1, <4>5 DEF Disjoint
        <5>2. QED
          BY <1>4, <1>5, <3>1, <4>1, <4>3, <5>1
      <4>6. QED
        BY <4>4, <4>5
    <3>3. CASE i > low
      <4>1. high <= i /\ high \in 1 .. Len(compact) /\ high <= Len(compact)
        BY <1>2, <1>3, <3>3
      <4>2. R.end < compact[high].start
        BY <1>1, <4>1 DEF SearchInv
      <4>3. CASE i = high
        BY <1>4, <1>5, <3>1, <4>2, <4>3
      <4>4. CASE i # high
        <5>1. compact[high].end < compact[i].start
          BY <1>1, <4>1, <4>4 DEF Disjoint
        <5>2. QED
          BY <1>4, <1>5, <3>1, <4>1, <4>2, <5>1
      <4>5. QED
        BY <4>3, <4>4
    <3>4. QED
      BY <1>2, <3>2, <3>3
  <2>2. \A x : x \in Covered(compact) => \E i \in 1 .. Len(compact) : x \in Interval(compact[i])
    BY <1>1, CoveredElem
  <2>3. QED
    BY <1>1, <2>1, <2>2, Zenon
<1>8. QED
  BY <1>6, <1>7

LEMMA KeepStep == ListInv /\ KeepRange => ListInv'
<1> SUFFICES ASSUME ListInv, KeepRange PROVE ListInv'
  OBVIOUS
<1>1. /\ Erasing /\ Looked /\ ~Hit /\ NewSearch
      /\ kept' = Append(kept, R) /\ todo' = Tail(todo)
      /\ UNCHANGED <<use, file, allow, pc, ranges, compact, made, driver, ipcount>>
  BY DEF KeepRange, Looked
<1>2. /\ TypeOK /\ R \in InFile /\ Tail(todo) \in Seq(InFile)
      /\ kept \in Seq(InFile) /\ made \in Seq(InFile)
      /\ Covered(todo) = Interval(R) \cup Covered(Tail(todo))
      /\ Covered(kept) \cap Covered(allow) = {}
  BY <1>1, EraseFacts DEF EraseInv
<1>3. Interval(R) \cap Covered(allow) = {}
  BY <1>1, LookedFacts
<1>4. kept' \in Seq(InFile) /\ Covered(kept') = Covered(kept) \cup Interval(R)
  BY <1>1, <1>2, AppendFacts, CoveredAppend
<1>5. Covered(kept') \cap Covered(allow) = {}
  BY <1>2, <1>3, <1>4
<1>6. (Covered(kept') \cup Covered(made') \cup Covered(todo')) \ Covered(allow)
         = (Covered(kept) \cup Covered(made) \cup Covered(todo)) \ Covered(allow)
  BY <1>1, <1>2, <1>4
<1>7. low' \in 0 .. Len(compact) /\ high' \in 0 .. Len(compact) + 1 /\ SearchInv'
  BY <1>1, <1>2, NewSearchFacts
<1>8. QED
  BY <1>1, <1>2, <1>4, <1>5, <1>6, <1>7, EraseFrame

LEMMA WholeStep == ListInv /\ EraseWhole => ListInv'
<1> SUFFICES ASSUME ListInv, EraseWhole PROVE ListInv'
  OBVIOUS
<1>1. /\ Erasing /\ Looked /\ Hit /\ Whole /\ NewSearch
      /\ todo' = Tail(todo)
      /\ UNCHANGED <<use, file, allow, pc, ranges, compact, kept, made, driver, ipcount>>
  BY DEF EraseWhole, Looked
<1>2. /\ TypeOK /\ R \in NamedRange /\ Tail(todo) \in Seq(InFile)
      /\ kept \in Seq(InFile) /\ made \in Seq(InFile)
      /\ Covered(todo) = Interval(R) \cup Covered(Tail(todo))
      /\ Covered(kept) \cap Covered(allow) = {}
  BY <1>1, EraseFacts DEF EraseInv
<1>3. A \in Pair /\ Interval(A) \subseteq Covered(allow)
  BY <1>1, LookedFacts
<1>4. Interval(R) \subseteq Interval(A)
  BY <1>1, <1>2, <1>3, RangeFacts DEF Whole, Interval, Ips
<1>5. (Covered(kept') \cup Covered(made') \cup Covered(todo')) \ Covered(allow)
         = (Covered(kept) \cup Covered(made) \cup Covered(todo)) \ Covered(allow)
  BY <1>1, <1>2, <1>3, <1>4
<1>6. low' \in 0 .. Len(compact) /\ high' \in 0 .. Len(compact) + 1 /\ SearchInv'
  BY <1>1, <1>2, NewSearchFacts
<1>7. QED
  BY <1>1, <1>2, <1>5, <1>6, EraseFrame

\* What the three turns that cut a range have in common.
LEMMA CutContext ==
    ASSUME ListInv, Looked, Hit
    PROVE  /\ Erasing /\ TypeOK /\ R \in InFile /\ R \in NamedRange /\ A \in Pair
           /\ todo # <<>> /\ todo \in Seq(InFile) /\ R = todo[1]
           /\ kept \in Seq(InFile) /\ made \in Seq(InFile)
           /\ Covered(todo) = Interval(R) \cup Covered(Tail(todo))
           /\ Covered(kept) \cap Covered(allow) = {}
           /\ Interval(A) \subseteq Covered(allow)
           /\ A.start <= R.end /\ R.start <= A.end
           /\ R.start \in Int /\ R.end \in Int /\ R.start <= R.end
           /\ A.start \in Int /\ A.end \in Int /\ A.start <= A.end
<1>1. Erasing
  BY DEF Looked
<1>2. A \in Pair /\ Interval(A) \subseteq Covered(allow)
  BY LookedFacts
<1>3. A.start <= R.end /\ R.start <= A.end
  BY DEF Hit
<1>4. Covered(kept) \cap Covered(allow) = {}
  BY <1>1, EraseFacts DEF EraseInv
<1>5. QED
  BY <1>1, <1>2, <1>3, <1>4, EraseFacts, RangeFacts DEF Ips

LEMMA InsideStep == ListInv /\ EraseInside => ListInv'
<1> SUFFICES ASSUME ListInv, EraseInside PROVE ListInv'
  OBVIOUS
<1> DEFINE n == [R EXCEPT !.end = Minus1(A.start)]
           m == [R EXCEPT !.start = Plus1(A.end)]
<1>1. /\ Looked /\ Hit /\ Inside /\ NewSearch
      /\ made' = Append(made, n)
      /\ todo' = [todo EXCEPT ![1].start = Plus1(A.end)]
      /\ UNCHANGED <<use, file, allow, pc, ranges, compact, kept, driver, ipcount>>
  BY DEF EraseInside
<1>2. /\ Erasing /\ TypeOK /\ R \in InFile /\ R \in NamedRange /\ A \in Pair
      /\ todo # <<>> /\ todo \in Seq(InFile) /\ R = todo[1]
      /\ kept \in Seq(InFile) /\ made \in Seq(InFile)
      /\ Covered(todo) = Interval(R) \cup Covered(Tail(todo))
      /\ Covered(kept) \cap Covered(allow) = {}
      /\ Interval(A) \subseteq Covered(allow)
      /\ A.start <= R.end /\ R.start <= A.end
      /\ R.start \in Int /\ R.end \in Int /\ R.start <= R.end
      /\ A.start \in Int /\ A.end \in Int /\ A.start <= A.end
  BY <1>1, CutContext
<1>3. R.start < A.start /\ A.end < R.end
  BY <1>1, <1>2 DEF Inside
<1>4. /\ n \in NamedRange /\ n.name = R.name /\ n.start = R.start /\ n.end = A.start - 1
      /\ m \in NamedRange /\ m.name = R.name /\ m.start = A.end + 1 /\ m.end = R.end
  BY <1>2, <1>3, CutFacts
<1>5. todo' = [todo EXCEPT ![1] = m]
  BY <1>1, <1>2
<1> HIDE DEF n, m
<1>6. n \in InFile /\ m \in InFile
  BY <1>2, <1>3, <1>4, PartInFile
<1>7. Interval(n) \cup Interval(m) = Interval(R) \ Interval(A)
  BY <1>2, <1>3, <1>4 DEF Interval
<1>8. made' \in Seq(InFile) /\ Covered(made') = Covered(made) \cup Interval(n)
  BY <1>1, <1>2, <1>6, AppendFacts, CoveredAppend
<1>9. todo' \in Seq(InFile) /\ Covered(todo') = Interval(m) \cup Covered(Tail(todo))
  BY <1>2, <1>5, <1>6, ExceptFacts, CoveredExcept
<1>10. (Covered(kept') \cup Covered(made') \cup Covered(todo')) \ Covered(allow)
          = (Covered(kept) \cup Covered(made) \cup Covered(todo)) \ Covered(allow)
  BY <1>1, <1>2, <1>7, <1>8, <1>9
<1>11. low' \in 0 .. Len(compact) /\ high' \in 0 .. Len(compact) + 1 /\ SearchInv'
  BY <1>1, <1>2, NewSearchFacts
<1>12. QED
  BY <1>1, <1>2, <1>8, <1>9, <1>10, <1>11, EraseFrame

LEMMA AtStartStep == ListInv /\ EraseAtStart => ListInv'
<1> SUFFICES ASSUME ListInv, EraseAtStart PROVE ListInv'
  OBVIOUS
<1> DEFINE m == [R EXCEPT !.start = Plus1(A.end)]
<1>1. /\ Looked /\ Hit /\ AtStart /\ NewSearch
      /\ todo' = [todo EXCEPT ![1].start = Plus1(A.end)]
      /\ UNCHANGED <<use, file, allow, pc, ranges, compact, kept, made, driver, ipcount>>
  BY DEF EraseAtStart
<1>2. /\ Erasing /\ TypeOK /\ R \in InFile /\ R \in NamedRange /\ A \in Pair
      /\ todo # <<>> /\ todo \in Seq(InFile) /\ R = todo[1]
      /\ kept \in Seq(InFile) /\ made \in Seq(InFile)
      /\ Covered(todo) = Interval(R) \cup Covered(Tail(todo))
      /\ Covered(kept) \cap Covered(allow) = {}
      /\ Interval(A) \subseteq Covered(allow)
      /\ A.start <= R.end /\ R.start <= A.end
      /\ R.start \in Int /\ R.end \in Int /\ R.start <= R.end
      /\ A.start \in Int /\ A.end \in Int /\ A.start <= A.end
  BY <1>1, CutContext
<1>3. A.start <= R.start /\ A.end < R.end
  BY <1>1, <1>2 DEF AtStart, Whole
<1>4. m \in NamedRange /\ m.name = R.name /\ m.start = A.end + 1 /\ m.end = R.end
  BY <1>2, <1>3, CutFacts
<1>5. todo' = [todo EXCEPT ![1] = m]
  BY <1>1, <1>2
<1> HIDE DEF m
<1>6. m \in InFile
  <2>1. R.start <= m.start /\ m.end <= R.end
    BY <1>2, <1>4
  <2>2. QED
    BY <1>2, <1>4, <2>1, PartInFile
<1>7. Interval(m) = Interval(R) \ Interval(A)
  BY <1>2, <1>3, <1>4 DEF Interval
<1>8. todo' \in Seq(InFile) /\ Covered(todo') = Interval(m) \cup Covered(Tail(todo))
  BY <1>2, <1>5, <1>6, ExceptFacts, CoveredExcept
<1>9. (Covered(kept') \cup Covered(made') \cup Covered(todo')) \ Covered(allow)
         = (Covered(kept) \cup Covered(made) \cup Covered(todo)) \ Covered(allow)
  BY <1>1, <1>2, <1>7, <1>8
<1>10. low' \in 0 .. Len(compact) /\ high' \in 0 .. Len(compact) + 1 /\ SearchInv'
  BY <1>1, <1>2, NewSearchFacts
<1>11. QED
  BY <1>1, <1>2, <1>8, <1>9, <1>10, EraseFrame

LEMMA AtEndStep == ListInv /\ EraseAtEnd => ListInv'
<1> SUFFICES ASSUME ListInv, EraseAtEnd PROVE ListInv'
  OBVIOUS
<1> DEFINE n == [R EXCEPT !.end = Minus1(A.start)]
<1>1. /\ Looked /\ Hit /\ AtEnd /\ NewSearch
      /\ todo' = [todo EXCEPT ![1].end = Minus1(A.start)]
      /\ UNCHANGED <<use, file, allow, pc, ranges, compact, kept, made, driver, ipcount>>
  BY DEF EraseAtEnd
<1>2. /\ Erasing /\ TypeOK /\ R \in InFile /\ R \in NamedRange /\ A \in Pair
      /\ todo # <<>> /\ todo \in Seq(InFile) /\ R = todo[1]
      /\ kept \in Seq(InFile) /\ made \in Seq(InFile)
      /\ Covered(todo) = Interval(R) \cup Covered(Tail(todo))
      /\ Covered(kept) \cap Covered(allow) = {}
      /\ Interval(A) \subseteq Covered(allow)
      /\ A.start <= R.end /\ R.start <= A.end
      /\ R.start \in Int /\ R.end \in Int /\ R.start <= R.end
      /\ A.start \in Int /\ A.end \in Int /\ A.start <= A.end
  BY <1>1, CutContext
<1>3. R.start < A.start /\ R.end <= A.end
  BY <1>1, <1>2 DEF AtEnd, AtStart, Inside, Whole
<1>4. n \in NamedRange /\ n.name = R.name /\ n.start = R.start /\ n.end = A.start - 1
  BY <1>2, <1>3, CutFacts
<1>5. todo' = [todo EXCEPT ![1] = n]
  BY <1>1, <1>2
<1> HIDE DEF n
<1>6. n \in InFile
  <2>1. R.start <= n.start /\ n.end <= R.end
    BY <1>2, <1>4
  <2>2. QED
    BY <1>2, <1>4, <2>1, PartInFile
<1>7. Interval(n) = Interval(R) \ Interval(A)
  BY <1>2, <1>3, <1>4 DEF Interval
<1>8. todo' \in Seq(InFile) /\ Covered(todo') = Interval(n) \cup Covered(Tail(todo))
  BY <1>2, <1>5, <1>6, ExceptFacts, CoveredExcept
<1>9. (Covered(kept') \cup Covered(made') \cup Covered(todo')) \ Covered(allow)
         = (Covered(kept) \cup Covered(made) \cup Covered(todo)) \ Covered(allow)
  BY <1>1, <1>2, <1>7, <1>8
<1>10. low' \in 0 .. Len(compact) /\ high' \in 0 .. Len(compact) + 1 /\ SearchInv'
  BY <1>1, <1>2, NewSearchFacts
<1>11. QED
  BY <1>1, <1>2, <1>8, <1>9, <1>10, EraseFrame

LEMMA FirstPassStep == ListInv /\ FirstPassDone => ListInv'
<1> SUFFICES ASSUME ListInv, FirstPassDone PROVE ListInv'
  OBVIOUS
<1>1. /\ pc = "erase" /\ todo = <<>> /\ driver = <<>> /\ ipcount = 0
      /\ ranges' = kept /\ pc' = "again" /\ todo' = made /\ kept' = <<>> /\ made' = <<>>
      /\ UNCHANGED <<use, file, allow, compact, low, high, driver, ipcount>>
  BY DEF ListInv, FirstPassDone, search
<1>2. TypeOK /\ EraseInv /\ Disjoint(compact) /\ (use = "allow" => allow = <<>>)
  BY <1>1 DEF ListInv
<1>3. Goal' = Goal /\ InFile' = InFile /\ StartInFile' = StartInFile
  BY <1>1, Frame
<1>4. kept \in Seq(InFile) /\ made \in Seq(InFile)
  BY <1>2 DEF EraseInv
<1>5. kept \in Seq(StartInFile) /\ kept \in Seq(NamedRange) /\ made \in Seq(NamedRange)
  BY <1>1, <1>2, <1>4, InFileStarts, SeqGrows DEF TypeOK
<1>6. TypeOK'
  BY <1>1, <1>2, <1>5 DEF TypeOK
<1>7. SearchInv'
  <2>1. low = 0 /\ high = Len(compact) + 1 /\ low < high
    BY <1>1, <1>2 DEF EraseInv, SearchInv
  <2>2. Len(compact) \in Nat
    BY <1>2 DEF TypeOK
  <2>3. QED
    BY <1>1, <2>1, <2>2 DEF SearchInv
<1>8. EraseInv'
  <2>1. Covered(compact') = Covered(allow') /\ Covered(ranges') \cap Covered(allow') = {}
    BY <1>1, <1>2 DEF EraseInv
  <2>2. kept' \in Seq(InFile) /\ todo' \in Seq(InFile) /\ made' \in Seq(InFile)
    BY <1>1, <1>4
  <2>3. Covered(kept') = {} /\ Covered(made') = {}
    BY <1>1, CoveredEmpty
  <2>4. (Covered(ranges') \cup Covered(kept') \cup Covered(made') \cup Covered(todo'))
            \ Covered(allow) = Goal
    BY <1>1, <1>2, <2>3, CoveredEmpty DEF EraseInv
  <2>5. QED
    BY <1>1, <1>3, <1>7, <2>1, <2>2, <2>3, <2>4 DEF EraseInv
<1>9. QED
  BY <1>1, <1>2, <1>3, <1>5, <1>6, <1>8 DEF ListInv

LEMMA RoundStep == ListInv /\ RoundDone => ListInv'
<1> SUFFICES ASSUME ListInv, RoundDone PROVE ListInv'
  OBVIOUS
<1>1. /\ pc = "again" /\ todo = <<>> /\ driver = <<>> /\ ipcount = 0
      /\ kept' = <<>> /\ made' = <<>>
      /\ UNCHANGED <<use, file, allow, compact, low, high, driver, ipcount>>
  BY DEF ListInv, RoundDone, search
<1>2. /\ TypeOK /\ EraseInv /\ Disjoint(compact) /\ (use = "allow" => allow = <<>>)
      /\ ranges \in Seq(StartInFile)
  BY <1>1 DEF ListInv
<1>3. Goal' = Goal /\ InFile' = InFile /\ StartInFile' = StartInFile
  BY <1>1, Frame
<1>4. /\ kept \in Seq(InFile) /\ made \in Seq(InFile)
      /\ Covered(kept) \cap Covered(allow) = {} /\ Covered(ranges) \cap Covered(allow) = {}
      /\ (Covered(ranges) \cup Covered(kept) \cup Covered(made)) \ Covered(allow) = Goal
  BY <1>1, <1>2, CoveredEmpty DEF EraseInv
<1>5. /\ kept \in Seq(StartInFile) /\ kept \in Seq(NamedRange) /\ made \in Seq(NamedRange)
      /\ ranges \in Seq(NamedRange)
  BY <1>1, <1>2, <1>4, InFileStarts, SeqGrows DEF TypeOK
<1>6. Covered(kept') = {} /\ Covered(made') = {}
  BY <1>1, CoveredEmpty
<1>7. CASE made = <<>>
  <2>1. /\ ranges' = ranges \o kept /\ todo' = <<>>
        /\ pc' = IF ranges' = <<>> THEN "send" ELSE "sort"
    BY <1>7 DEF RoundDone
  <2>2. ranges' \in Seq(StartInFile) /\ ranges' \in Seq(NamedRange)
    BY <1>2, <1>5, <2>1, ConcatFacts
  <2>3. Covered(ranges') = Goal
    <3>1. Covered(ranges') = Covered(ranges) \cup Covered(kept)
      BY <1>2, <1>5, <2>1, CoveredConcat
    <3>2. QED
      BY <1>4, <1>7, <3>1, CoveredEmpty
  <2>4. TypeOK'
    BY <1>1, <1>2, <2>1, <2>2 DEF TypeOK
  <2>5. CASE ranges' = <<>>
    <3>1. Cardinality(Covered(kept')) = 0
      BY <1>6, FS_EmptySet, Zenon
    <3>2. 0 % (MaxIp + 1) = 0
      BY MaxIpAssumption, ModSmall
    <3>3. SendInv'
      BY <1>1, <1>3, <2>3, <2>5, <3>1, <3>2 DEF SendInv, Disjoint
    <3>4. QED
      BY <1>1, <1>2, <1>3, <2>1, <2>2, <2>4, <2>5, <3>3 DEF ListInv
  <2>6. CASE ranges' # <<>>
    BY <1>1, <1>2, <1>3, <2>1, <2>2, <2>3, <2>4, <2>6 DEF ListInv
  <2>7. QED
    BY <2>5, <2>6
<1>8. CASE made # <<>>
  <2>1. todo' = kept \o made /\ pc' = "again" /\ ranges' = ranges
    BY <1>1, <1>8 DEF RoundDone
  <2>2. todo' \in Seq(InFile) /\ todo' \in Seq(NamedRange)
    BY <1>4, <1>5, <2>1, ConcatFacts
  <2>3. Covered(todo') = Covered(kept) \cup Covered(made)
    BY <1>4, <2>1, CoveredConcat
  <2>4. TypeOK'
    BY <1>1, <1>2, <2>1, <2>2 DEF TypeOK
  <2>5. SearchInv'
    <3>1. low = 0 /\ high = Len(compact) + 1 /\ low < high
      BY <1>1, <1>2 DEF EraseInv, SearchInv
    <3>2. Len(compact) \in Nat
      BY <1>2 DEF TypeOK
    <3>3. QED
      BY <1>1, <3>1, <3>2 DEF SearchInv
  <2>6. EraseInv'
    <3>1. Covered(compact') = Covered(allow')
      BY <1>1, <1>2 DEF EraseInv
    <3>2. kept' \in Seq(InFile) /\ made' \in Seq(InFile)
      BY <1>1
    <3>3. (Covered(ranges') \cup Covered(kept') \cup Covered(made') \cup Covered(todo'))
            \ Covered(allow) = Goal
      BY <1>4, <1>6, <2>1, <2>3
    <3>4. QED
      BY <1>1, <1>3, <1>4, <1>6, <2>1, <2>2, <2>5, <3>1, <3>2, <3>3 DEF EraseInv
  <2>7. QED
    BY <1>1, <1>2, <1>3, <2>1, <2>4, <2>6 DEF ListInv
<1>9. QED
  BY <1>7, <1>8

-----------------------------------------------------------------------------
(* setranges *)

LEMMA CoveredIps ==
    ASSUME NEW s \in Seq(NamedRange)
    PROVE  /\ Covered(s) \subseteq Ips
           /\ IsFiniteSet(Covered(s)) /\ Cardinality(Covered(s)) \in Nat
<1>1. ASSUME NEW x, x \in Covered(s) PROVE x \in Ips
  <2>1. PICK i \in 1 .. Len(s) : x \in Interval(s[i])
    BY <1>1, CoveredElem
  <2>2. s[i].start \in Ips /\ s[i].end \in Ips
    BY RangeFacts
  <2>3. QED
    BY <2>1, <2>2, MaxIpAssumption DEF Interval, Ips
<1>2. IsFiniteSet(Ips)
  BY MaxIpAssumption, FS_Interval DEF Ips
<1>3. IsFiniteSet(Covered(s))
  BY <1>1, <1>2, FS_Subset
<1>4. QED
  BY <1>1, <1>3, FS_CardinalityType

\* The count of the addresses of one range more, as wide as an address.
LEMMA CountStep ==
    ASSUME NEW C, C \subseteq Ips, NEW r \in NamedRange, Interval(r) \cap C = {}
    PROVE  ((Cardinality(C) % (MaxIp + 1)) + r.end - r.start + 1) % (MaxIp + 1)
              = Cardinality(C \cup Interval(r)) % (MaxIp + 1)
<1>1. r.start \in Ips /\ r.end \in Ips /\ r.start <= r.end
  BY RangeFacts
<1>2. IsFiniteSet(Ips) /\ Cardinality(Ips) = MaxIp + 1
  BY MaxIpAssumption, FS_Interval DEF Ips
<1>3. /\ IsFiniteSet(Interval(r))
      /\ Cardinality(Interval(r)) = r.end - r.start + 1
  <2>1. r.start \in Int /\ r.end \in Int /\ ~(r.start > r.end)
    BY <1>1, MaxIpAssumption DEF Ips
  <2>2. /\ IsFiniteSet(r.start .. r.end)
        /\ Cardinality(r.start .. r.end) = r.end - r.start + 1
    BY <2>1, FS_Interval
  <2>3. QED
    BY <2>2 DEF Interval
<1>4. IsFiniteSet(C) /\ Cardinality(C) \in Nat
  BY <1>2, FS_Subset, FS_CardinalityType
<1>5. Cardinality(C \cup Interval(r)) = Cardinality(C) + (r.end - r.start + 1)
  <2>1. Cardinality(C \cap Interval(r)) = 0
    <3>1. C \cap Interval(r) = {}
      OBVIOUS
    <3>2. QED
      BY <3>1, FS_EmptySet
  <2>2. Cardinality(C \cup Interval(r))
           = Cardinality(C) + Cardinality(Interval(r)) - Cardinality(C \cap Interval(r))
    BY <1>3, <1>4, FS_Union
  <2>3. QED
    BY <1>1, <1>3, <1>4, <2>1, <2>2 DEF Ips
<1>6. Cardinality(C \cup Interval(r)) <= MaxIp + 1
  <2>1. C \cup Interval(r) \subseteq Ips
    <3>1. ASSUME NEW x, x \in Interval(r) PROVE x \in Ips
      BY <1>1, <3>1, MaxIpAssumption DEF Ips, Interval
    <3>2. QED
      BY <3>1
  <2>2. QED
    BY <1>2, <2>1, FS_Subset
<1>7. Cardinality(C) \in 0 .. MaxIp
  BY <1>1, <1>4, <1>5, <1>6, MaxIpAssumption DEF Ips
<1>8. Cardinality(C) % (MaxIp + 1) = Cardinality(C)
  BY <1>7, MaxIpAssumption, ModSmall
<1>9. Cardinality(C) + r.end - r.start + 1 = Cardinality(C) + (r.end - r.start + 1)
  BY <1>1, <1>4 DEF Ips
<1>10. QED
  BY <1>5, <1>8, <1>9

LEMMA CopyStep == ListInv /\ CopyRange => ListInv'
<1> SUFFICES ASSUME ListInv, CopyRange PROVE ListInv'
  OBVIOUS
<1> DEFINE r == ranges[Len(kept) + 1]
<1>1. /\ pc = "send" /\ Len(kept) < Len(ranges) /\ driver = <<>>
      /\ kept' = Append(kept, r)
      /\ ipcount' = (ipcount + r.end - r.start + 1) % (MaxIp + 1)
      /\ UNCHANGED <<use, file, allow, pc, ranges, compact, low, high, todo, made, driver>>
  BY DEF ListInv, CopyRange, search
<1>2. /\ TypeOK /\ SendInv /\ Disjoint(compact) /\ (use = "allow" => allow = <<>>)
      /\ ranges \in Seq(StartInFile) /\ kept \in Seq(StartInFile) /\ todo \in Seq(StartInFile)
  BY <1>1 DEF ListInv
<1>3. Goal' = Goal /\ StartInFile' = StartInFile
  BY <1>1, Frame
<1>4. StartInFile \subseteq NamedRange
  BY DEF StartInFile
<1>5. kept \in Seq(NamedRange) /\ ranges \in Seq(NamedRange) /\ Len(kept) \in Nat /\ Len(ranges) \in Nat
  BY <1>1, <1>2 DEF TypeOK
<1>6. Len(kept) + 1 \in 1 .. Len(ranges)
  BY <1>1, <1>5
<1>7. r \in StartInFile /\ r \in NamedRange
  BY <1>2, <1>4, <1>6
<1>8. Interval(r) \cap Covered(kept) = {}
  <2>1. ASSUME NEW x, x \in Interval(r), NEW i \in 1 .. Len(kept), x \in Interval(kept[i])
        PROVE  FALSE
    <3>1. kept[i] = ranges[i]
      BY <1>2 DEF SendInv
    <3>2. i \in 1 .. Len(ranges) /\ i < Len(kept) + 1
      BY <1>1, <1>5
    <3>3. ranges[i].end < r.start
      BY <1>2, <1>6, <3>2 DEF SendInv, Disjoint
    <3>4. kept[i].start \in Int /\ kept[i].end \in Int /\ r.start \in Int /\ r.end \in Int
      BY <1>5, <1>7, RangeFacts DEF Ips
    <3>5. QED
      BY <2>1, <3>1, <3>3, <3>4 DEF Interval
  <2>2. \A x : x \in Covered(kept) => \E i \in 1 .. Len(kept) : x \in Interval(kept[i])
    BY <1>5, CoveredElem
  <2>3. QED
    BY <2>1, <2>2, Zenon
<1> HIDE DEF r
<1>9. /\ kept' \in Seq(StartInFile) /\ kept' \in Seq(NamedRange)
      /\ Len(kept') = Len(kept) + 1 /\ kept'[Len(kept) + 1] = r
      /\ \A i \in 1 .. Len(kept) : kept'[i] = kept[i]
  BY <1>1, <1>2, <1>5, <1>7, AppendFacts
<1>10. Covered(kept') = Covered(kept) \cup Interval(r)
  BY <1>1, <1>5, <1>7, CoveredAppend
<1>11. ipcount' = Cardinality(Covered(kept')) % (MaxIp + 1)
  <2>1. ipcount = Cardinality(Covered(kept)) % (MaxIp + 1)
    BY <1>2 DEF SendInv
  <2>2. Covered(kept) \subseteq Ips
    BY <1>5, CoveredIps
  <2>3. QED
    BY <1>1, <1>7, <1>8, <1>10, <2>1, <2>2, CountStep
<1>12. ipcount' \in Ips
  <2>1. Cardinality(Covered(kept')) \in Nat
    BY <1>9, CoveredIps
  <2>2. QED
    BY <1>11, <2>1, MaxIpAssumption, ModRange DEF Ips
<1>13. TypeOK'
  BY <1>1, <1>2, <1>9, <1>12 DEF TypeOK
<1>14. \A i \in 1 .. Len(kept') : kept'[i] = ranges[i]
  <2>1. \A i \in 1 .. Len(kept') : i \in 1 .. Len(kept) \/ i = Len(kept) + 1
    BY <1>5, <1>9
  <2>2. \A i \in 1 .. Len(kept) : kept[i] = ranges[i]
    BY <1>2 DEF SendInv
  <2>3. QED
    BY <1>9, <2>1, <2>2 DEF r
<1>15. SendInv'
  <2>1. Len(kept') <= Len(ranges)
    BY <1>1, <1>5, <1>9
  <2>2. QED
    BY <1>1, <1>2, <1>3, <1>11, <1>14, <2>1 DEF SendInv
<1>16. QED
  BY <1>1, <1>2, <1>3, <1>9, <1>13, <1>15 DEF ListInv

LEMMA SetRangesStep == ListInv /\ SetRanges => ListInv'
<1> SUFFICES ASSUME ListInv, SetRanges PROVE ListInv'
  OBVIOUS
<1>1. /\ pc = "send" /\ Len(kept) = Len(ranges) /\ driver' = kept /\ pc' = "done"
      /\ UNCHANGED <<use, file, allow, ranges, compact, low, high, todo, kept, made, ipcount>>
  BY DEF SetRanges, search
<1>2. /\ TypeOK /\ SendInv /\ Disjoint(compact) /\ (use = "allow" => allow = <<>>)
      /\ ranges \in Seq(StartInFile) /\ kept \in Seq(StartInFile)
  BY <1>1 DEF ListInv
<1>3. Goal' = Goal /\ StartInFile' = StartInFile
  BY <1>1, Frame
<1>4. kept = ranges
  BY <1>1, <1>2, SeqEqual DEF SendInv
<1>5. TypeOK'
  BY <1>1, <1>2 DEF TypeOK
<1>6. /\ Disjoint(driver') /\ driver' \in Seq(StartInFile) /\ Covered(driver') = Goal
      /\ ipcount' = Cardinality(Covered(driver')) % (MaxIp + 1)
  BY <1>1, <1>2, <1>4 DEF SendInv
<1>7. QED
  BY <1>1, <1>2, <1>3, <1>5, <1>6 DEF ListInv

LEMMA StutterStep == ListInv /\ UNCHANGED vars => ListInv'
<1> SUFFICES ASSUME ListInv, UNCHANGED vars PROVE ListInv'
  OBVIOUS
<1>1. UNCHANGED <<use, file, allow, pc, ranges, compact, low, high, todo, kept, made, driver, ipcount>>
  BY DEF vars
<1>2. Goal' = Goal /\ InFile' = InFile /\ StartInFile' = StartInFile
  BY <1>1, Frame
<1>3. QED
  BY <1>1, <1>2 DEF ListInv, TypeOK, EraseInv, SearchInv, SendInv, R

-----------------------------------------------------------------------------
(* Theorems *)

LEMMA ListInvariant == Spec => []ListInv
<1>1. ListInv /\ [Next]_vars => ListInv'
  BY StartStep, SortingStep, UniqueStep, CompactStep, OptimizeStep, ProbeStep, KeepStep,
     WholeStep, InsideStep, AtStartStep, AtEndStep, FirstPassStep, RoundStep, CopyStep,
     SetRangesStep, StutterStep DEF Next
<1>2. QED
  BY InitInv, <1>1, PTL DEF Spec

\* Types: every range in work has its ends in order, the search stays inside the array.
THEOREM ListsTyped == Spec => []TypeOK
<1>1. ListInv => TypeOK
  BY DEF ListInv
<1>2. QED
  BY <1>1, ListInvariant, PTL

\* What the driver's binary search and that of the compact list rest on.
THEOREM SentSorted == Spec => []DriverSorted
<1>1. ListInv => DriverSorted
  <2> SUFFICES ASSUME ListInv PROVE DriverSorted
    OBVIOUS
  <2>1. driver \in Seq(NamedRange) /\ compact \in Seq(Pair)
    BY DEF ListInv, TypeOK
  <2>2. DOMAIN driver = 1 .. Len(driver) /\ DOMAIN compact = 1 .. Len(compact)
    BY <2>1
  <2>3. Disjoint(compact)
    BY DEF ListInv
  <2>4. Disjoint(driver)
    BY DEF ListInv, Disjoint
  <2>5. QED
    BY <2>2, <2>3, <2>4 DEF DriverSorted, Disjoint
<1>2. QED
  BY <1>1, ListInvariant, PTL

\* The driver blocks what the lists block and nobody allowed, and the count is theirs.
THEOREM SentExactly == Spec => []ExactlyBlocked
<1>1. ListInv => ExactlyBlocked
  BY DEF ListInv, ExactlyBlocked, Goal
<1>2. QED
  BY <1>1, ListInvariant, PTL

\* No merge and no cut gives a range a name that no loaded range justifies.
THEOREM NamesStay == Spec => []NamesKept
<1>1. ListInv => NamesKept
  <2> SUFFICES ASSUME ListInv, pc = "done", NEW i \in DOMAIN driver
               PROVE  \E j \in DOMAIN file : /\ file[j].name = driver[i].name
                                            /\ driver[i].start \in file[j].start .. file[j].end
    BY DEF NamesKept
  <2>1. driver \in Seq(StartInFile) /\ file \in Seq(NamedRange)
    BY DEF ListInv, TypeOK
  <2>2. driver[i] \in StartInFile
    BY <2>1
  <2>3. DOMAIN file = 1 .. Len(file)
    BY <2>1
  <2>4. QED
    BY <2>2, <2>3 DEF StartInFile
<1>2. QED
  BY <1>1, ListInvariant, PTL

-----------------------------------------------------------------------------
(* The turns of erase: what the search finds, which case applies, why they end *)

\* compact_list::operator() finds an allowed range for this one exactly if some allowed
\* address is in it.
LookupRight == Looked => (Hit <=> Interval(R) \cap Covered(allow) # {})

\* Some case of erase_pred applies: its last else, which changes nothing and leaves
\* masserase_pred's loop where it was, is not reached.
CasesCover == Looked /\ Hit => Whole \/ Inside \/ AtStart \/ AtEnd

\* Each turn has less to do: a probe narrows the search, and a cut leaves a part of the range,
\* or two parts that have no address in common, without the allowed range.
TurnsShrink ==
    /\ Probe => high' - low' < high - low
    /\ EraseInside \/ EraseAtStart \/ EraseAtEnd =>
          /\ Len(todo') = Len(todo)
          /\ Interval(R)' \subseteq Interval(R) \ Interval(A)
          /\ Interval(R)' # {}
          /\ Interval(A) \cap Interval(R) # {}
    /\ EraseInside =>
          /\ Len(made') = Len(made) + 1
          /\ Interval(Last(made')) # {}
          /\ Interval(Last(made')) \cup Interval(R)' = Interval(R) \ Interval(A)
          /\ Interval(Last(made')) \cap Interval(R)' = {}

\* The lookup in the compact list decides as the set of allowed addresses does.
THEOREM LookupDecides == Spec => []LookupRight
<1>1. ListInv => LookupRight
  <2> SUFFICES ASSUME ListInv, Looked PROVE Hit <=> Interval(R) \cap Covered(allow) # {}
    BY DEF LookupRight
  <2>1. CASE Hit
    <3>1. /\ R.start \in Int /\ R.end \in Int /\ R.start <= R.end
          /\ A.start \in Int /\ A.end \in Int /\ A.start <= A.end
          /\ A.start <= R.end /\ R.start <= A.end
          /\ Interval(A) \subseteq Covered(allow)
      BY <2>1, CutContext
    <3>2. \/ R.start \in Interval(A) /\ R.start \in Interval(R)
          \/ A.start \in Interval(A) /\ A.start \in Interval(R)
      BY <3>1 DEF Interval
    <3>3. QED
      BY <2>1, <3>1, <3>2
  <2>2. CASE ~Hit
    BY <2>2, LookedFacts
  <2>3. QED
    BY <2>1, <2>2
<1>2. QED
  BY <1>1, ListInvariant, PTL

\* One of erase_pred's first four cases always applies.
THEOREM ErasePredDecides == Spec => []CasesCover
<1>1. ListInv => CasesCover
  <2> SUFFICES ASSUME ListInv, Looked, Hit PROVE Whole \/ Inside \/ AtStart \/ AtEnd
    BY DEF CasesCover
  <2>1. /\ R.start \in Int /\ R.end \in Int /\ R.start <= R.end
        /\ A.start \in Int /\ A.end \in Int /\ A.start <= A.end
        /\ A.start <= R.end /\ R.start <= A.end
    BY CutContext
  <2>2. QED
    BY <2>1 DEF Whole, Inside, AtStart, AtEnd
<1>2. QED
  BY <1>1, ListInvariant, PTL

LEMMA ProbeShrinks ==
    ASSUME ListInv, Probe
    PROVE  high' - low' < high - low
<1>1. /\ low \in Int /\ high \in Int /\ high - low > 1
      /\ \/ high' = (high + low) \div 2 /\ low' = low
         \/ low' = (high + low) \div 2 /\ high' = high
  BY DEF Probe, ListInv, TypeOK
<1>2. (high + low) \div 2 \in Int /\ low < (high + low) \div 2 /\ (high + low) \div 2 < high
  BY <1>1
<1>3. QED
  BY <1>1, <1>2

\* What a cut leaves: the range in work afterwards, and the one it made.
LEMMA CutShrinks ==
    ASSUME ListInv, EraseInside \/ EraseAtStart \/ EraseAtEnd
    PROVE  /\ Len(todo') = Len(todo)
           /\ Interval(R)' \subseteq Interval(R) \ Interval(A)
           /\ Interval(R)' # {}
           /\ Interval(A) \cap Interval(R) # {}
           /\ EraseInside =>
                 /\ Len(made') = Len(made) + 1
                 /\ Interval(Last(made')) # {}
                 /\ Interval(Last(made')) \cup Interval(R)' = Interval(R) \ Interval(A)
                 /\ Interval(Last(made')) \cap Interval(R)' = {}
<1> DEFINE n == [R EXCEPT !.end = Minus1(A.start)]
           m == [R EXCEPT !.start = Plus1(A.end)]
<1>1. Looked /\ Hit
  BY DEF EraseInside, EraseAtStart, EraseAtEnd
<1>2. /\ R \in InFile /\ R \in NamedRange /\ A \in Pair
      /\ todo # <<>> /\ todo \in Seq(InFile) /\ R = todo[1] /\ made \in Seq(InFile)
      /\ A.start <= R.end /\ R.start <= A.end
      /\ R.start \in Int /\ R.end \in Int /\ R.start <= R.end
      /\ A.start \in Int /\ A.end \in Int /\ A.start <= A.end
  BY <1>1, CutContext
<1>3. /\ R.start < A.start =>
            n \in NamedRange /\ n.name = R.name /\ n.start = R.start /\ n.end = A.start - 1
      /\ A.end < R.end => m \in NamedRange /\ m.start = A.end + 1 /\ m.end = R.end
  BY <1>2, CutFacts
<1>4. Interval(A) \cap Interval(R) # {}
  <2>1. \/ R.start \in Interval(A) /\ R.start \in Interval(R)
        \/ A.start \in Interval(A) /\ A.start \in Interval(R)
    BY <1>2 DEF Interval
  <2>2. QED
    BY <2>1
<1>5. ASSUME NEW q \in NamedRange, todo' = [todo EXCEPT ![1] = q]
      PROVE  Len(todo') = Len(todo) /\ R' = q /\ Interval(R)' = Interval(q)
  <2>1. InFile \subseteq NamedRange
    BY DEF InFile
  <2>2. todo \in Seq(NamedRange)
    BY <1>2, <2>1, SeqGrows
  <2>3. todo' \in Seq(NamedRange) /\ todo' # <<>> /\ Len(todo') = Len(todo) /\ todo'[1] = q
    BY <1>2, <1>5, <2>2, ExceptFacts
  <2>4. R' = q
    BY <2>3 DEF R
  <2>5. QED
    BY <2>3, <2>4 DEF Interval
<1>6. ASSUME A.end < R.end, todo' = [todo EXCEPT ![1].start = Plus1(A.end)]
      PROVE  Len(todo') = Len(todo) /\ Interval(R)' = A.end + 1 .. R.end
  <2>1. todo' = [todo EXCEPT ![1] = m]
    BY <1>2, <1>6
  <2> HIDE DEF m
  <2>2. QED
    BY <1>3, <1>5, <1>6, <2>1 DEF Interval
<1>7. ASSUME R.start < A.start, todo' = [todo EXCEPT ![1].end = Minus1(A.start)]
      PROVE  Len(todo') = Len(todo) /\ Interval(R)' = R.start .. A.start - 1
  <2>1. todo' = [todo EXCEPT ![1] = n]
    BY <1>2, <1>7
  <2> HIDE DEF n
  <2>2. QED
    BY <1>3, <1>5, <1>7, <2>1 DEF Interval
<1>8. ASSUME EraseInside
      PROVE  /\ Len(todo') = Len(todo) /\ Interval(R)' = A.end + 1 .. R.end
             /\ Len(made') = Len(made) + 1 /\ Interval(Last(made')) = R.start .. A.start - 1
             /\ R.start < A.start /\ A.end < R.end
  <2>1. R.start < A.start /\ A.end < R.end
    BY <1>2, <1>8 DEF EraseInside, Inside
  <2>2. made' = Append(made, n) /\ todo' = [todo EXCEPT ![1].start = Plus1(A.end)]
    BY <1>8 DEF EraseInside
  <2>3. n \in InFile
    <3>1. TypeOK
      BY DEF ListInv
    <3>2. R.start <= n.start /\ n.end <= R.end
      BY <1>2, <1>3, <2>1
    <3> HIDE DEF n
    <3>3. QED
      BY <1>2, <1>3, <2>1, <3>1, <3>2, PartInFile
  <2> HIDE DEF n
  <2>4. made' \in Seq(InFile) /\ Len(made') = Len(made) + 1 /\ made'[Len(made) + 1] = n
    BY <1>2, <2>2, <2>3, AppendFacts
  <2>5. Last(made') = n
    BY <2>4 DEF Last
  <2>6. QED
    BY <1>3, <1>6, <2>1, <2>2, <2>4, <2>5 DEF Interval
<1>9. ASSUME EraseAtStart
      PROVE  /\ Len(todo') = Len(todo) /\ Interval(R)' = A.end + 1 .. R.end /\ A.end < R.end
             /\ A.start <= R.start
  <2>1. A.start <= R.start /\ A.end < R.end
    BY <1>2, <1>9 DEF EraseAtStart, AtStart, Whole
  <2>2. todo' = [todo EXCEPT ![1].start = Plus1(A.end)]
    BY <1>9 DEF EraseAtStart
  <2>3. QED
    BY <1>6, <2>1, <2>2
<1>10. ASSUME EraseAtEnd
       PROVE  Len(todo') = Len(todo) /\ Interval(R)' = R.start .. A.start - 1 /\ R.start < A.start
  <2>1. R.start < A.start
    BY <1>2, <1>10 DEF EraseAtEnd, AtEnd, AtStart, Whole, Inside
  <2>2. todo' = [todo EXCEPT ![1].end = Minus1(A.start)]
    BY <1>10 DEF EraseAtEnd
  <2>3. QED
    BY <1>7, <2>1, <2>2
<1>11. /\ A.end < R.end => /\ A.end + 1 .. R.end \subseteq Interval(R) \ Interval(A)
                           /\ R.end \in A.end + 1 .. R.end
       /\ R.start < A.start => /\ R.start .. A.start - 1 \subseteq Interval(R) \ Interval(A)
                               /\ R.start \in R.start .. A.start - 1
       /\ A.end < R.end /\ R.start < A.start =>
             /\ (R.start .. A.start - 1) \cup (A.end + 1 .. R.end) = Interval(R) \ Interval(A)
             /\ (R.start .. A.start - 1) \cap (A.end + 1 .. R.end) = {}
  BY <1>2 DEF Interval
<1>12. Len(todo') = Len(todo) /\ Interval(R)' \subseteq Interval(R) \ Interval(A) /\ Interval(R)' # {}
  <2>1. CASE EraseInside
    BY <1>8, <1>11, <2>1
  <2>2. CASE EraseAtStart
    BY <1>9, <1>11, <2>2
  <2>3. CASE EraseAtEnd
    BY <1>10, <1>11, <2>3
  <2>4. QED
    BY <2>1, <2>2, <2>3
<1>13. QED
  BY <1>4, <1>8, <1>11, <1>12

\* The loops of erase make progress: with ErasePredDecides, why they end.
THEOREM EraseShrinks == Spec => [][TurnsShrink]_vars
<1>1. ListInv /\ [Next]_vars => [TurnsShrink]_vars
  BY ProbeShrinks, CutShrinks DEF TurnsShrink
<1>2. QED
  BY <1>1, ListInvariant, PTL DEF Spec

-----------------------------------------------------------------------------
(* The two searches together: what RangeSearch takes its arrays to be *)

\* The driver's lookup, for the ranges sent last.  Its own variables play no part in what an
\* array is.
Lookup == INSTANCE RangeSearch WITH
    MaxCount <- MaxIp, ranges <- driver, counts <- Len(driver), ip <- 0,
    iter <- 0, count <- 0, found <- 0

\* SetRanges of the driver keeps the ends of a range; the array begins at 0.
SentArray == [i \in 0 .. Len(driver) - 1 |->
                 [start |-> driver[i + 1].start, end |-> driver[i + 1].end]]

SentSearchable == SentArray \in Lookup!Arrays(Len(driver))

\* What setranges sends is an array as RangeSearch assumes it, and for which it proves its
\* verdict.
THEOREM SentIsSearchable == Spec => []SentSearchable
<1>1. ListInv => SentSearchable
  <2> SUFFICES ASSUME ListInv PROVE SentArray \in Lookup!Arrays(Len(driver))
    BY DEF SentSearchable
  <2>1. driver \in Seq(NamedRange) /\ Len(driver) \in Nat
    BY DEF ListInv, TypeOK
  <2>2. Disjoint(driver)
    BY DEF ListInv, Disjoint
  <2>3. \A i \in 0 .. Len(driver) - 1 : i + 1 \in 1 .. Len(driver) /\ driver[i + 1] \in NamedRange
    BY <2>1
  <2>4. SentArray \in [0 .. Len(driver) - 1 -> Lookup!Range]
    BY <2>3, RangeFacts DEF SentArray, Lookup!Range, Lookup!Ips, Ips
  <2>5. Lookup!Sorted(SentArray, Len(driver))
    BY <2>1, <2>2, <2>3 DEF SentArray, Lookup!Sorted, Disjoint
  <2>6. QED
    BY <2>4, <2>5 DEF Lookup!Arrays
<1>2. QED
  BY <1>1, ListInvariant, PTL
=============================================================================
