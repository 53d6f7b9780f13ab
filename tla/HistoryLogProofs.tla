-------------------------- MODULE HistoryLogProofs --------------------------
(***************************************************************************)
(* Theorems about HistoryLog for any number of rows, any times and any     *)
(* faults: types, that rows keep their order and are written once, that no *)
(* row is lost unseen, that what is removed was archived, and that only    *)
(* the oldest rows are removed.                                            *)
(***************************************************************************)
EXTENDS HistoryLog, TLAPS

-----------------------------------------------------------------------------
(* Sequences and the sets of their elements *)

LEMMA SeqGrows ==
    ASSUME NEW S, NEW T, S \subseteq T, NEW s \in Seq(S)
    PROVE  s \in Seq(T)
  OBVIOUS

LEMMA SetOf ==
    ASSUME NEW S, NEW s \in Seq(S)
    PROVE  /\ ToSet(s) \subseteq S
           /\ \A x : x \in ToSet(s) <=> \E i \in 1 .. Len(s) : x = s[i]
           /\ s = <<>> => ToSet(s) = {}
  BY DEF ToSet

LEMMA SetOfEmpty == ToSet(<<>>) = {}
  BY DEF ToSet

LEMMA SetOfAppend ==
    ASSUME NEW S, NEW s \in Seq(S), NEW x \in S
    PROVE  /\ Append(s, x) \in Seq(S)
           /\ ToSet(Append(s, x)) = ToSet(s) \cup {x}
<1>1. /\ Append(s, x) \in Seq(S) /\ Len(Append(s, x)) = Len(s) + 1
      /\ Append(s, x)[Len(s) + 1] = x /\ \A i \in 1 .. Len(s) : Append(s, x)[i] = s[i]
  OBVIOUS
<1> DEFINE t == Append(s, x)
<1> HIDE DEF t
<1>2. t \in Seq(S) /\ Len(t) = Len(s) + 1 /\ t[Len(s) + 1] = x /\ \A i \in 1 .. Len(s) : t[i] = s[i]
  BY <1>1 DEF t
<1>3. \A y : y \in ToSet(t) <=> \E i \in 1 .. Len(t) : y = t[i]
  BY <1>2, SetOf
<1>4. \A y : y \in ToSet(s) <=> \E i \in 1 .. Len(s) : y = s[i]
  BY SetOf
<1>5. ASSUME NEW y PROVE y \in ToSet(t) <=> y \in ToSet(s) \cup {x}
  <2>1. Len(s) + 1 \in 1 .. Len(t) /\ \A i \in 1 .. Len(t) : i \in 1 .. Len(s) \/ i = Len(s) + 1
    BY <1>2
  <2>2. \A i \in 1 .. Len(s) : i \in 1 .. Len(t)
    BY <1>2
  <2>3. QED
    BY <1>2, <1>3, <1>4, <2>1, <2>2
<1>6. QED
  BY <1>1, <1>5 DEF t

LEMMA SetOfTail ==
    ASSUME NEW S, NEW s \in Seq(S), s # <<>>
    PROVE  /\ Head(s) \in S /\ Tail(s) \in Seq(S)
           /\ ToSet(s) = {Head(s)} \cup ToSet(Tail(s))
<1>1. /\ Head(s) = s[1] /\ Head(s) \in S /\ Tail(s) \in Seq(S)
      /\ Len(s) \in Nat \ {0} /\ Len(Tail(s)) = Len(s) - 1
      /\ \A i \in 1 .. Len(s) - 1 : Tail(s)[i] = s[i + 1]
  OBVIOUS
<1> DEFINE t == Tail(s)
<1> HIDE DEF t
<1>2. t \in Seq(S) /\ Len(t) = Len(s) - 1 /\ \A i \in 1 .. Len(s) - 1 : t[i] = s[i + 1]
  BY <1>1 DEF t
<1>3. \A y : y \in ToSet(t) <=> \E i \in 1 .. Len(t) : y = t[i]
  BY <1>2, SetOf
<1>4. \A y : y \in ToSet(s) <=> \E i \in 1 .. Len(s) : y = s[i]
  BY SetOf
<1>5. ASSUME NEW y PROVE y \in ToSet(s) <=> y \in {s[1]} \cup ToSet(t)
  <2>1. ASSUME NEW i \in 1 .. Len(s), y = s[i], i # 1 PROVE y \in ToSet(t)
    <3>1. i - 1 \in 1 .. Len(t) /\ t[i - 1] = y
      BY <1>1, <1>2, <2>1
    <3>2. QED
      BY <1>3, <3>1
  <2>2. ASSUME NEW i \in 1 .. Len(t), y = t[i] PROVE y \in ToSet(s)
    <3>1. i + 1 \in 1 .. Len(s) /\ s[i + 1] = y
      BY <1>1, <1>2, <2>2
    <3>2. QED
      BY <1>4, <3>1
  <2>3. 1 \in 1 .. Len(s)
    BY <1>1
  <2>4. QED
    BY <1>3, <1>4, <2>1, <2>2, <2>3
<1>6. QED
  BY <1>1, <1>5 DEF t

\* A sequence cut in two.
LEMMA SetOfParts ==
    ASSUME NEW S, NEW s \in Seq(S), NEW n \in 0 .. Len(s)
    PROVE  /\ SubSeq(s, 1, n) \in Seq(S) /\ Len(SubSeq(s, 1, n)) = n
           /\ \A i \in 1 .. n : SubSeq(s, 1, n)[i] = s[i]
           /\ SubSeq(s, n + 1, Len(s)) \in Seq(S) /\ Len(SubSeq(s, n + 1, Len(s))) = Len(s) - n
           /\ \A i \in 1 .. Len(s) - n : SubSeq(s, n + 1, Len(s))[i] = s[n + i]
           /\ ToSet(s) = ToSet(SubSeq(s, 1, n)) \cup ToSet(SubSeq(s, n + 1, Len(s)))
<1> DEFINE a == SubSeq(s, 1, n)
           b == SubSeq(s, n + 1, Len(s))
<1>1. a \in Seq(S) /\ Len(a) = n /\ \A i \in 1 .. n : a[i] = s[i]
  OBVIOUS
<1>2. b \in Seq(S) /\ Len(b) = Len(s) - n /\ \A i \in 1 .. Len(s) - n : b[i] = s[n + i]
  OBVIOUS
<1> HIDE DEF a, b
<1>3. ASSUME NEW y PROVE y \in ToSet(s) <=> y \in ToSet(a) \cup ToSet(b)
  <2>1. ASSUME NEW i \in 1 .. Len(s), y = s[i] PROVE y \in ToSet(a) \cup ToSet(b)
    <3>1. CASE i <= n
      <4>1. i \in 1 .. Len(a) /\ a[i] = y
        BY <1>1, <2>1, <3>1
      <4>2. QED
        BY <1>1, <4>1, SetOf
    <3>2. CASE ~(i <= n)
      <4>1. i - n \in 1 .. Len(b) /\ b[i - n] = y
        BY <1>2, <2>1, <3>2
      <4>2. QED
        BY <1>2, <4>1, SetOf
    <3>3. QED
      BY <3>1, <3>2
  <2>2. ASSUME NEW i \in 1 .. Len(a), y = a[i] PROVE y \in ToSet(s)
    BY <1>1, <2>2, SetOf
  <2>3. ASSUME NEW i \in 1 .. Len(b), y = b[i] PROVE y \in ToSet(s)
    <3>1. n + i \in 1 .. Len(s) /\ s[n + i] = y
      BY <1>2, <2>3
    <3>2. QED
      BY <3>1, SetOf
  <2>4. QED
    BY <1>1, <1>2, <2>1, <2>2, <2>3, SetOf
<1>4. QED
  BY <1>1, <1>2, <1>3 DEF a, b

-----------------------------------------------------------------------------
(***************************************************************************)
(* Types.  Who has the transaction has g_con; a box is shown with g_con    *)
(* held, whether or not sqlite has rolled back.                            *)
(***************************************************************************)

Locked ==
    /\ ui \in {"box", "deletebox"} => con = "ui" /\ trans \in {"ui", "none"}
    /\ trans = "ui" => ui \in {"insert", "archive", "archivebox", "delete", "deletebox", "commit",
                               "box"}
    /\ cleaner \in {"deletebox", "donebox"} => con = "cleaner"
    /\ trans = "cleaner" => cleaner \in {"archive", "archivebox", "delete", "deletebox"}

LEMMA RowsOf ==
    ASSUME TypeOK
    PROVE  /\ Len(logged) \in Nat /\ Rows = 1 .. Len(logged)
           /\ ToSet(queue) \subseteq Rows /\ ToSet(db) \subseteq Rows /\ ToSet(work) \subseteq Rows
           /\ Uncommitted \subseteq Rows
<1>1. Len(logged) \in Nat
  BY DEF TypeOK
<1>2. ToSet(queue) \subseteq Rows /\ ToSet(db) \subseteq Rows /\ ToSet(work) \subseteq Rows
  BY SetOf DEF TypeOK
<1>3. QED
  BY <1>1, <1>2 DEF Rows, Uncommitted, TypeOK

LEMMA HalfOf ==
    ASSUME TypeOK
    PROVE  /\ MidRowid - 1 \in 0 .. Len(work) /\ Len(OlderHalf) = MidRowid - 1
           /\ OlderHalf = SubSeq(work, 1, MidRowid - 1)
           /\ OlderHalf \in Seq(Rows) /\ ToSet(OlderHalf) \subseteq Rows
           /\ SubSeq(work, Len(OlderHalf) + 1, Len(work)) \in Seq(Rows)
           /\ ToSet(work) = ToSet(OlderHalf) \cup ToSet(SubSeq(work, Len(OlderHalf) + 1, Len(work)))
           /\ OlderHalf # <<>> => SubSeq(work, Len(OlderHalf) + 1, Len(work)) # <<>>
<1> DEFINE n == MidRowid - 1
           newer == SubSeq(work, n + 1, Len(work))
<1>1. work \in Seq(Rows) /\ Len(work) \in Nat
  BY DEF TypeOK
<1>2. n \in 0 .. Len(work) /\ (n # 0 => n < Len(work))
  BY <1>1 DEF MidRowid
<1>3. OlderHalf = SubSeq(work, 1, n)
  BY DEF OlderHalf
<1> HIDE DEF n
<1>4. OlderHalf \in Seq(Rows) /\ Len(OlderHalf) = n
  BY <1>1, <1>2, <1>3, SetOfParts
<1>5. ToSet(OlderHalf) \subseteq Rows
  BY <1>4, SetOf
<1>6. /\ newer \in Seq(Rows) /\ Len(newer) = Len(work) - n
      /\ ToSet(work) = ToSet(OlderHalf) \cup ToSet(newer)
  BY <1>1, <1>2, <1>3, SetOfParts
<1> HIDE DEF newer
<1>7. OlderHalf # <<>> => newer # <<>>
  <2>1. OlderHalf # <<>> => n # 0
    BY <1>4
  <2>2. n # 0 => Len(newer) # 0
    BY <1>1, <1>2, <1>6
  <2>3. QED
    BY <2>1, <2>2
<1>8. QED
  BY <1>2, <1>3, <1>4, <1>5, <1>6, <1>7 DEF n, newer

ControlOK ==
    /\ faults \in FaultSets /\ cleanup \in {"none", "delete", "archive"} /\ up \in BOOLEAN
    /\ now \in Times /\ last \in Times
    /\ trans \in {"none", "ui", "cleaner"} /\ con \in {"none", "ui", "cleaner", "export"}
    /\ trans # "none" => con = trans
    /\ stuck \in BOOLEAN /\ stuck => con = "ui"
    /\ ui \in {"idle", "wait", "insert", "archive", "delete", "commit", "exit"} \cup UiBoxes
    /\ ui \in {"insert", "archive", "archivebox", "delete", "commit"} => trans = "ui"
    /\ leaving \in {"no", "yes", "failed"}
    /\ cleaner \in {"idle", "start", "archive", "delete"} \cup CleanerBoxes
    /\ cleaner \in {"archive", "archivebox", "delete"} => trans = "cleaner"
    /\ mishaps \subseteq {"archive", "late"}

DataOK ==
    /\ logged \in Seq(Times) /\ Len(logged) <= MaxRows
    /\ queue \in Seq(Rows) /\ db \in Seq(Rows) /\ work \in Seq(Rows)
    /\ cut \subseteq Rows /\ archive \subseteq Rows /\ gone \subseteq Rows /\ lost \subseteq Rows

LEMMA TypeParts == TypeOK <=> ControlOK /\ DataOK
  BY DEF TypeOK, ControlOK, DataOK

LEMMA HistoryInit == Init => TypeOK /\ Locked
<1> SUFFICES ASSUME Init PROVE TypeOK /\ Locked
  OBVIOUS
<1>1. logged \in Seq(Times) /\ Len(logged) = 0
  BY DEF Init
<1>2. queue \in Seq(Rows) /\ db \in Seq(Rows) /\ work \in Seq(Rows)
  BY DEF Init
<1>3. now \in Times /\ last \in Times
  BY HistoryAssumption DEF Init, Times
<1>4. DataOK
  BY <1>1, <1>2, HistoryAssumption DEF Init, DataOK
<1>5. ControlOK /\ Locked
  BY <1>3 DEF Init, ControlOK, Locked
<1>6. QED
  BY <1>4, <1>5, TypeParts

LEMMA ControlNext == ControlOK /\ Locked /\ [Next]_vars => ControlOK' /\ Locked'
<1> SUFFICES ASSUME ControlOK, Locked, [Next]_vars PROVE ControlOK' /\ Locked'
  OBVIOUS
<1> USE DEF ControlOK, Locked, UiBoxes, CleanerBoxes, state, store, clean, history
<1>1. CASE Tick
  BY <1>1, HistoryAssumption DEF Tick, Times
<1>2. CASE Log
  BY <1>2 DEF Log
<1>3. CASE Commit \/ ForceCommit
  BY <1>3 DEF Commit, ForceCommit, Begin
<1>4. CASE Insert
  BY <1>4 DEF Insert
<1>5. CASE InsertFails
  BY <1>5 DEF InsertFails, Failed
<1>6. CASE BoxClosed
  BY <1>6 DEF BoxClosed, Leave, Return
<1>7. CASE Inserted
  BY <1>7 DEF Inserted
<1>8. CASE ArchiveHalf
  BY <1>8 DEF ArchiveHalf, Archive
<1>9. CASE DeleteHalf
  BY <1>9 DEF DeleteHalf
<1>10. CASE CommitTrans
  BY <1>10 DEF CommitTrans, Committed, Leave, Return, Told
<1>11. CASE CommitFails
  BY <1>11 DEF CommitFails, Leave, Told, Failed
<1>12. CASE ClearDatabase
  BY <1>12 DEF ClearDatabase
<1>13. CASE Export \/ ExportEnds
  <2>1. trans = "none" /\ ~stuck
    BY <1>13 DEF Export, ExportEnds
  <2>2. CASE Export
    BY <2>1, <2>2 DEF Export
  <2>3. CASE ExportEnds
    BY <2>1, <2>3 DEF ExportEnds
  <2>4. QED
    BY <1>13, <2>2, <2>3
<1>14. CASE Main_OnTimer
  BY <1>14 DEF Main_OnTimer
<1>15. CASE TryClean
  BY <1>15 DEF TryClean
<1>16. CASE ArchiveOld
  BY <1>16 DEF ArchiveOld, Archive
<1>17. CASE DeleteOld
  BY <1>17 DEF DeleteOld
<1>18. CASE DeleteFails
  BY <1>18 DEF DeleteFails
<1>19. CASE Log_OnDestroy
  BY <1>19 DEF Log_OnDestroy
<1>20. CASE Exit \/ Crash
  BY <1>20 DEF Exit, Crash, Ended
<1>21. CASE Start
  BY <1>21, HistoryAssumption DEF Start, Times
<1>24. CASE DeleteHalfFails
  BY <1>24 DEF DeleteHalfFails
<1>25. CASE HalfBoxClosed
  BY <1>25 DEF HalfBoxClosed, Leave, Told, Failed
<1>26. CASE ToldClosed
  BY <1>26 DEF ToldClosed
<1>27. CASE CleanerBoxClosed
  BY <1>27 DEF CleanerBoxClosed
<1>28. CASE Log_OnDestroyInBox
  BY <1>28 DEF Log_OnDestroyInBox
<1>22. CASE UNCHANGED vars
  BY <1>22 DEF vars
<1>23. QED
  BY <1>1, <1>2, <1>3, <1>4, <1>5, <1>6, <1>7, <1>8, <1>9, <1>10, <1>11, <1>12, <1>13, <1>14,
     <1>15, <1>16, <1>17, <1>18, <1>19, <1>20, <1>21, <1>22, <1>24, <1>25, <1>26, <1>27, <1>28
  DEF Next, CommitSteps, CloseBox, Clean

LEMMA LogTyped == TypeOK /\ Log => DataOK'
<1> SUFFICES ASSUME TypeOK, Log PROVE DataOK'
  OBVIOUS
<1>1. logged \in Seq(Times) /\ now \in Times /\ Len(logged) < MaxRows
  BY DEF TypeOK, Log
<1>2. logged' = Append(logged, now) /\ queue' = Append(queue, Len(logged'))
  BY DEF Log
<1>3. logged' \in Seq(Times) /\ Len(logged') = Len(logged) + 1 /\ Len(logged) \in Nat
  BY <1>1, <1>2
<1>4. Len(logged') \in Rows' /\ Rows \subseteq Rows' /\ Len(logged') <= MaxRows
  BY <1>1, <1>3, HistoryAssumption DEF Rows
<1>5. queue' \in Seq(Rows')
  <2>1. queue \in Seq(Rows')
    BY <1>4, SeqGrows DEF TypeOK
  <2>2. QED
    BY <1>2, <1>4, <2>1
<1>6. db' \in Seq(Rows') /\ work' \in Seq(Rows')
  <2>1. db \in Seq(Rows') /\ work \in Seq(Rows')
    BY <1>4, SeqGrows DEF TypeOK
  <2>2. QED
    BY <2>1 DEF Log, store
<1>7. cut' \subseteq Rows' /\ archive' \subseteq Rows' /\ gone' \subseteq Rows' /\ lost' \subseteq Rows'
  BY <1>4 DEF TypeOK, Log, store, history
<1>8. QED
  BY <1>3, <1>4, <1>5, <1>6, <1>7 DEF DataOK

\* The data after an action that logs nothing.
LEMMA DataIf ==
    ASSUME DataOK, logged' = logged,
           queue' \in Seq(Rows), db' \in Seq(Rows), work' \in Seq(Rows),
           cut' \subseteq Rows, archive' \subseteq Rows, gone' \subseteq Rows, lost' \subseteq Rows
    PROVE  DataOK'
<1>1. Rows' = Rows
  BY DEF Rows
<1>2. QED
  BY <1>1 DEF DataOK

LEMMA DataNext == TypeOK /\ [Next]_vars => DataOK'
<1> SUFFICES ASSUME TypeOK, [Next]_vars PROVE DataOK'
  OBVIOUS
<1>0. /\ DataOK
      /\ queue \in Seq(Rows) /\ db \in Seq(Rows) /\ work \in Seq(Rows) /\ <<>> \in Seq(Rows)
      /\ cut \subseteq Rows /\ archive \subseteq Rows /\ gone \subseteq Rows /\ lost \subseteq Rows
      /\ ToSet(queue) \subseteq Rows /\ ToSet(db) \subseteq Rows /\ Uncommitted \subseteq Rows
  BY TypeParts, RowsOf DEF TypeOK
<1>1. CASE UNCHANGED <<logged, queue, db, work, cut, archive, gone, lost>>
  BY <1>0, <1>1, DataIf
<1>2. CASE Tick \/ Inserted \/ Export \/ ExportEnds \/ Main_OnTimer \/ Log_OnDestroy
            \/ Log_OnDestroyInBox \/ ToldClosed \/ Start
  BY <1>1, <1>2 DEF Tick, Inserted, Export, ExportEnds, Main_OnTimer, Log_OnDestroy,
       Log_OnDestroyInBox, ToldClosed, Start, store, history
<1>3. CASE Log
  BY <1>3, LogTyped
<1>4. CASE Commit \/ ForceCommit
  BY <1>0, <1>4, DataIf DEF Commit, ForceCommit, Begin, history
<1>5. CASE Insert
  <2>1. Head(queue) \in Rows /\ Tail(queue) \in Seq(Rows)
    BY <1>0, <1>5, SetOfTail DEF Insert
  <2>2. Append(work, Head(queue)) \in Seq(Rows)
    BY <1>0, <2>1, SetOfAppend
  <2>3. QED
    BY <1>0, <1>5, <2>1, <2>2, DataIf DEF Insert, history
<1>6. CASE InsertFails
  BY <1>0, <1>6, DataIf DEF InsertFails
<1>7. CASE BoxClosed
  BY <1>0, <1>7, DataIf DEF BoxClosed, Leave, history
<1>8. CASE ArchiveHalf
  <2>1. archive' \subseteq Rows
    BY <1>0, <1>8, HalfOf DEF ArchiveHalf, Archive
  <2>2. QED
    BY <1>0, <1>8, <2>1, DataIf DEF ArchiveHalf, store
<1>9. CASE DeleteHalf
  <2>1. work' \in Seq(Rows) /\ cut' \subseteq Rows
    BY <1>9, HalfOf DEF DeleteHalf
  <2>2. QED
    BY <1>0, <1>9, <2>1, DataIf DEF DeleteHalf, history
<1>10. CASE CommitTrans
  BY <1>0, <1>10, DataIf DEF CommitTrans, Committed, Leave
<1>11. CASE CommitFails
  <2>1. work' = <<>> /\ cut' = {}
    BY <1>11 DEF CommitFails, Leave
  <2>2. QED
    BY <1>0, <1>11, <2>1, DataIf DEF CommitFails
<1>12. CASE ClearDatabase
  BY <1>0, <1>12, DataIf DEF ClearDatabase
<1>20. CASE DeleteHalfFails
  BY <1>0, <1>20, DataIf DEF DeleteHalfFails
<1>21. CASE HalfBoxClosed
  <2>1. work' \in {<<>>, work} /\ cut' \in {{}, cut}
    BY <1>21 DEF HalfBoxClosed, Leave
  <2>2. QED
    BY <1>0, <1>21, <2>1, DataIf DEF HalfBoxClosed, history
<1>22. CASE CleanerBoxClosed
  <2>1. work' \in {<<>>, work}
    BY <1>22 DEF CleanerBoxClosed
  <2>2. QED
    BY <1>0, <1>22, <2>1, DataIf DEF CleanerBoxClosed, history
<1>13. CASE TryClean
  <2>1. work' \in {db, work}
    BY <1>13 DEF TryClean
  <2>2. QED
    BY <1>0, <1>13, <2>1, DataIf DEF TryClean, history
<1>14. CASE ArchiveOld
  <2>1. ToSet(work) \subseteq Rows
    BY RowsOf
  <2>2. archive' \subseteq Rows
    BY <1>0, <1>14, <2>1 DEF ArchiveOld, Archive
  <2>3. QED
    BY <1>0, <1>14, <2>2, DataIf DEF ArchiveOld, store
<1>15. CASE DeleteOld
  <2>1. PICK n \in 0 .. Len(work) :
           /\ db' = SubSeq(work, n + 1, Len(work))
           /\ gone' = gone \cup ToSet(SubSeq(work, 1, n))
    BY <1>15 DEF DeleteOld
  <2>2. SubSeq(work, n + 1, Len(work)) \in Seq(Rows) /\ SubSeq(work, 1, n) \in Seq(Rows)
    BY <1>0, SetOfParts
  <2>3. ToSet(SubSeq(work, 1, n)) \subseteq Rows
    BY <2>2, SetOf
  <2>4. db' \in Seq(Rows) /\ gone' \subseteq Rows
    BY <1>0, <2>1, <2>2, <2>3
  <2>5. QED
    BY <1>0, <1>15, <2>4, DataIf DEF DeleteOld
<1>16. CASE DeleteFails
  BY <1>0, <1>16, DataIf DEF DeleteFails, history
<1>17. CASE Exit \/ Crash
  <2>1. lost' \subseteq Rows /\ Ended
    BY <1>0, <1>17 DEF Exit, Crash
  <2>2. QED
    BY <1>0, <2>1, DataIf DEF Ended
<1>18. CASE UNCHANGED vars
  BY <1>1, <1>18 DEF vars, store, history
<1>19. QED
  BY <1>2, <1>3, <1>4, <1>5, <1>6, <1>7, <1>8, <1>9, <1>10, <1>11, <1>12, <1>13, <1>14,
     <1>15, <1>16, <1>17, <1>18, <1>20, <1>21, <1>22 DEF Next, CommitSteps, CloseBox, Clean

LEMMA HistoryNext == TypeOK /\ Locked /\ [Next]_vars => TypeOK' /\ Locked'
<1>1. ControlOK' /\ DataOK' => TypeOK'
  BY DEF TypeOK, ControlOK, DataOK
<1>2. QED
  BY <1>1, TypeParts, ControlNext, DataNext

\* Whatever fails and whenever the process ends: variables keep their types, and one
\* transaction at a time is open, in its thread's own steps and with g_con held
\* (threaded_sqlite3x.hpp:60).
THEOREM HistoryTyped == Spec => []TypeOK
  BY HistoryInit, HistoryNext, PTL DEF Spec

-----------------------------------------------------------------------------
(***************************************************************************)
(* How a commit goes: nothing is removed before the queue is empty, the    *)
(* cleaner's transaction reads before it writes, and a program that ends   *)
(* as it should leaves a queue only after a failure the user was told of.  *)
(***************************************************************************)

Flow ==
    /\ cleaner \in {"archive", "archivebox", "delete"} => work = db
    /\ ui \in {"insert", "archive", "archivebox", "delete", "deletebox"} => cut = {}
    /\ ui \in {"archive", "archivebox", "delete", "deletebox", "commit"} => queue = <<>>
    /\ ui = "box" => leaving # "yes"
    /\ ui \in {"told", "exit"} => leaving # "no" /\ (leaving = "yes" => queue = <<>>)

LEMMA FlowInit == Init => Flow
  BY DEF Init, Flow

LEMMA FlowNext == ControlOK /\ Locked /\ Flow /\ [Next]_vars => Flow'
<1> SUFFICES ASSUME ControlOK, Locked, Flow, [Next]_vars PROVE Flow'
  OBVIOUS
<1> USE DEF ControlOK, Locked, Flow, UiBoxes, CleanerBoxes, state, store, clean, history
<1>1. CASE Tick
  BY <1>1 DEF Tick
<1>2. CASE Log
  BY <1>2 DEF Log
<1>3. CASE Commit \/ ForceCommit
  BY <1>3 DEF Commit, ForceCommit, Begin
<1>4. CASE Insert
  BY <1>4 DEF Insert
<1>5. CASE InsertFails
  BY <1>5 DEF InsertFails, Failed
<1>6. CASE BoxClosed
  BY <1>6 DEF BoxClosed, Leave, Return
<1>7. CASE Inserted
  BY <1>7 DEF Inserted
<1>8. CASE ArchiveHalf
  BY <1>8 DEF ArchiveHalf
<1>9. CASE DeleteHalf
  BY <1>9 DEF DeleteHalf
<1>10. CASE CommitTrans
  BY <1>10 DEF CommitTrans, Committed, Leave, Return, Told
<1>11. CASE CommitFails
  BY <1>11 DEF CommitFails, Leave, Told, Failed
<1>12. CASE ClearDatabase
  BY <1>12 DEF ClearDatabase
<1>13. CASE Export \/ ExportEnds
  BY <1>13 DEF Export, ExportEnds
<1>14. CASE Main_OnTimer
  BY <1>14 DEF Main_OnTimer
<1>15. CASE TryClean
  BY <1>15 DEF TryClean
<1>16. CASE ArchiveOld
  BY <1>16 DEF ArchiveOld
<1>17. CASE DeleteOld
  BY <1>17 DEF DeleteOld
<1>18. CASE DeleteFails
  BY <1>18 DEF DeleteFails
<1>19. CASE Log_OnDestroy
  BY <1>19 DEF Log_OnDestroy
<1>20. CASE Exit \/ Crash
  BY <1>20 DEF Exit, Crash, Ended
<1>21. CASE Start
  BY <1>21 DEF Start
<1>24. CASE DeleteHalfFails
  BY <1>24 DEF DeleteHalfFails
<1>25. CASE HalfBoxClosed
  BY <1>25 DEF HalfBoxClosed, Leave, Told, Failed
<1>26. CASE ToldClosed
  BY <1>26 DEF ToldClosed
<1>27. CASE CleanerBoxClosed
  BY <1>27 DEF CleanerBoxClosed
<1>28. CASE Log_OnDestroyInBox
  BY <1>28 DEF Log_OnDestroyInBox
<1>22. CASE UNCHANGED vars
  BY <1>22 DEF vars
<1>23. QED
  BY <1>1, <1>2, <1>3, <1>4, <1>5, <1>6, <1>7, <1>8, <1>9, <1>10, <1>11, <1>12, <1>13, <1>14,
     <1>15, <1>16, <1>17, <1>18, <1>19, <1>20, <1>21, <1>22, <1>24, <1>25, <1>26, <1>27, <1>28
  DEF Next, CommitSteps, CloseBox, Clean

LEMMA FlowAlways == Spec => [](TypeOK /\ Locked /\ Flow)
<1>1. TypeOK /\ Locked /\ Flow /\ [Next]_vars => (TypeOK /\ Locked /\ Flow)'
  BY HistoryNext, FlowNext, TypeParts
<1>2. Init => TypeOK /\ Locked /\ Flow
  BY HistoryInit, FlowInit
<1>3. QED
  BY <1>1, <1>2, PTL DEF Spec

-----------------------------------------------------------------------------
(***************************************************************************)
(* No row is lost unseen.                                                  *)
(***************************************************************************)

InTransaction == \/ ui \in {"insert", "archive", "archivebox", "delete", "commit"}
                 \/ ui = "deletebox" /\ trans = "ui"

LEMMA TableIs ==
    ASSUME ControlOK, Locked
    PROVE  /\ InTransaction <=> trans = "ui" /\ ui # "box"
           /\ InTransaction => Table = work /\ Removed = gone \cup cut
           /\ ~InTransaction => Table = db /\ Removed = gone
  BY DEF ControlOK, Locked, UiBoxes, InTransaction, Table, Removed

\* Main_ProcessDb's steps are not in the UI thread's transaction.
LEMMA CleanerTakes ==
    ASSUME TypeOK, Locked, TryClean \/ DeleteFails \/ CleanerBoxClosed
    PROVE  /\ InTransaction' <=> InTransaction
           /\ InTransaction => UNCHANGED <<work, cut>>
<1> USE DEF InTransaction, TypeOK, Locked, CleanerBoxes
<1>1. CASE TryClean
  BY <1>1 DEF TryClean
<1>2. CASE DeleteFails
  BY <1>2 DEF DeleteFails
<1>3. CASE CleanerBoxClosed
  BY <1>3 DEF CleanerBoxClosed
<1>4. QED
  BY <1>1, <1>2, <1>3

Kept == ToSet(queue) \cup ToSet(Table) \cup Removed \cup lost

LEMMA AccountedNext ==
    TypeOK /\ Locked /\ Flow /\ TypeOK' /\ Locked' /\ Accounted /\ [Next]_vars => Accounted'
<1> SUFFICES ASSUME TypeOK, Locked, Flow, TypeOK', Locked', Accounted, [Next]_vars PROVE Accounted'
  OBVIOUS
<1> DEFINE intrans == InTransaction
           intransn == InTransaction'
<1>0. Accounted' <=> Rows' \subseteq Kept'
  <2>1. /\ Rows' = 1 .. Len(logged') /\ ToSet(queue') \subseteq Rows' /\ ToSet(db') \subseteq Rows'
        /\ ToSet(work') \subseteq Rows'
    BY SetOf DEF TypeOK, Rows
  <2>2. Kept' \subseteq Rows'
    BY <2>1 DEF Kept, Table, Removed, TypeOK
  <2>3. QED
    BY <2>2 DEF Accounted, Kept
<1>1. Rows = Kept
  BY DEF Accounted, Kept
<1>2. /\ intrans => Table = work /\ Removed = gone \cup cut
      /\ ~intrans => Table = db /\ Removed = gone
  BY TableIs, TypeParts
<1>3. /\ intransn => Table' = work' /\ Removed' = gone' \cup cut'
      /\ ~intransn => Table' = db' /\ Removed' = gone'
  BY DEF TypeOK, Locked, UiBoxes, InTransaction, Table, Removed
<1>4. logged' = logged => Rows' = Rows
  BY DEF Rows
<1>5. CASE UNCHANGED <<logged, queue, db, work, cut, gone, lost, ui, trans>>
  BY <1>0, <1>1, <1>2, <1>3, <1>4, <1>5 DEF Kept, InTransaction
<1>6. CASE Tick \/ Export \/ ExportEnds \/ Main_OnTimer \/ Start \/ ArchiveOld
  BY <1>5, <1>6 DEF Tick, Export, ExportEnds, Main_OnTimer, Start, ArchiveOld, store, history
<1>7. CASE Log
  <2>1. Len(logged) \in Nat /\ queue \in Seq(Rows) /\ queue \in Seq(Rows')
    <3>1. Len(logged) \in Nat /\ queue \in Seq(Rows)
      BY DEF TypeOK
    <3>2. logged' = Append(logged, now) /\ logged \in Seq(Times)
      BY <1>7 DEF Log, TypeOK
    <3>3. Len(logged') = Len(logged) + 1
      BY <3>2
    <3>4. Rows \subseteq Rows'
      BY <3>1, <3>3 DEF Rows
    <3>5. QED
      BY <3>1, <3>4, SeqGrows
  <2>2. Len(logged') = Len(logged) + 1 /\ queue' = Append(queue, Len(logged'))
    BY <1>7 DEF Log, TypeOK
  <2>3. Rows' = Rows \cup {Len(logged')} /\ Len(logged') \in Rows'
    BY <2>1, <2>2 DEF Rows
  <2>4. ToSet(queue') = ToSet(queue) \cup {Len(logged')}
    BY <2>1, <2>2, <2>3, SetOfAppend
  <2>5. ~intrans /\ ~intransn /\ UNCHANGED <<db, gone, lost>>
    BY <1>7 DEF Log, InTransaction, store, history
  <2>6. QED
    BY <1>0, <1>1, <1>2, <1>3, <2>3, <2>4, <2>5 DEF Kept
<1>8. CASE Commit \/ ForceCommit
  <2>1. ~intrans /\ intransn /\ work' = db /\ cut' = {} /\ UNCHANGED <<logged, queue, gone, lost>>
    BY <1>8 DEF Commit, ForceCommit, Begin, InTransaction, history
  <2>2. QED
    BY <1>0, <1>1, <1>2, <1>3, <1>4, <2>1 DEF Kept
<1>9. CASE Insert
  <2>1. /\ queue # <<>> /\ work' = Append(work, Head(queue)) /\ queue' = Tail(queue)
        /\ intrans /\ intransn /\ UNCHANGED <<logged, cut, gone, lost>>
    BY <1>9 DEF Insert, InTransaction, history
  <2>2. ToSet(queue) = {Head(queue)} \cup ToSet(queue') /\ Head(queue) \in Rows
    BY <2>1, SetOfTail DEF TypeOK
  <2>3. ToSet(work') = ToSet(work) \cup {Head(queue)}
    BY <2>1, <2>2, SetOfAppend DEF TypeOK
  <2>4. QED
    BY <1>0, <1>1, <1>2, <1>3, <1>4, <2>1, <2>2, <2>3 DEF Kept
<1>10. CASE InsertFails
  <2>1. /\ intrans /\ ~intransn /\ lost' = lost \cup Uncommitted
        /\ UNCHANGED <<logged, queue, db, gone>>
    BY <1>10 DEF InsertFails, InTransaction
  <2>2. QED
    BY <1>0, <1>1, <1>2, <1>3, <1>4, <2>1 DEF Kept, Uncommitted
<1>11. CASE BoxClosed \/ ToldClosed \/ Log_OnDestroy
  <2>1. ~intrans /\ ~intransn /\ UNCHANGED <<logged, queue, db, gone, lost>>
    BY <1>11 DEF BoxClosed, Return, ToldClosed, Log_OnDestroy, InTransaction, store, history
  <2>2. QED
    BY <1>0, <1>1, <1>2, <1>3, <1>4, <2>1 DEF Kept
<1>12. CASE Inserted \/ ArchiveHalf
  <2>1. intrans /\ intransn /\ UNCHANGED <<logged, queue, work, cut, gone, lost>>
    BY <1>12 DEF Inserted, ArchiveHalf, InTransaction, store, history
  <2>2. QED
    BY <1>0, <1>1, <1>2, <1>3, <1>4, <2>1 DEF Kept
<1>23. CASE DeleteHalfFails
  <2>1. intrans /\ UNCHANGED <<logged, queue, db, work, cut, gone>> /\ lost \subseteq lost'
    BY <1>23 DEF DeleteHalfFails, InTransaction
  <2>2. CASE intransn
    BY <1>0, <1>1, <1>2, <1>3, <1>4, <2>1, <2>2 DEF Kept
  <2>3. CASE ~intransn
    <3>1. lost' = lost \cup Uncommitted
      BY <1>23, <2>3 DEF DeleteHalfFails, InTransaction, TypeOK
    <3>2. QED
      BY <1>0, <1>1, <1>2, <1>3, <1>4, <2>1, <2>3, <3>1 DEF Kept, Uncommitted
  <2>4. QED
    BY <2>2, <2>3
<1>24. CASE HalfBoxClosed
  <2>1. CASE ui = "deletebox" /\ trans = "none"
    <3>1. ~intrans /\ ~intransn /\ UNCHANGED <<logged, queue, db, gone, lost>>
      BY <1>24, <2>1 DEF HalfBoxClosed, Told, InTransaction, history
    <3>2. QED
      BY <1>0, <1>1, <1>2, <1>3, <1>4, <3>1 DEF Kept
  <2>2. CASE ~(ui = "deletebox" /\ trans = "none")
    <3>1. intrans /\ intransn /\ UNCHANGED <<logged, queue, work, cut, gone, lost>>
      BY <1>24, <2>2 DEF HalfBoxClosed, InTransaction, history
    <3>2. QED
      BY <1>0, <1>1, <1>2, <1>3, <1>4, <3>1 DEF Kept
  <2>3. QED
    BY <2>1, <2>2
<1>25. CASE Log_OnDestroyInBox
  <2>1. /\ UNCHANGED <<logged, queue, db, work, cut, gone, lost, trans>>
        /\ intransn <=> intrans
    BY <1>25 DEF Log_OnDestroyInBox, InTransaction, history
  <2>2. QED
    BY <1>0, <1>1, <1>2, <1>3, <1>4, <2>1 DEF Kept
<1>13. CASE DeleteHalf
  <2>1. /\ intrans /\ intransn /\ cut' = ToSet(OlderHalf)
        /\ work' = SubSeq(work, Len(OlderHalf) + 1, Len(work))
        /\ UNCHANGED <<logged, queue, gone, lost>>
    BY <1>13 DEF DeleteHalf, InTransaction, history
  <2>2. cut = {} /\ ToSet(work) = cut' \cup ToSet(work')
    BY <1>13, <2>1, HalfOf DEF Flow, DeleteHalf
  <2>3. QED
    BY <1>0, <1>1, <1>2, <1>3, <1>4, <2>1, <2>2 DEF Kept
<1>14. CASE CommitTrans
  <2>1. /\ intrans /\ ~intransn /\ db' = work /\ gone' = gone \cup cut
        /\ UNCHANGED <<logged, queue, lost>>
    BY <1>14 DEF CommitTrans, Committed, Return, Told, InTransaction
  <2>2. QED
    BY <1>0, <1>1, <1>2, <1>3, <1>4, <2>1 DEF Kept
<1>15. CASE CommitFails
  <2>1. /\ intrans /\ ~intransn /\ lost' = lost \cup Uncommitted
        /\ UNCHANGED <<logged, queue, db, gone>>
    BY <1>15 DEF CommitFails, Told, InTransaction
  <2>2. QED
    BY <1>0, <1>1, <1>2, <1>3, <1>4, <2>1 DEF Kept, Uncommitted
<1>16. CASE ClearDatabase
  <2>1. /\ ~intrans /\ ~intransn /\ lost' = lost \cup ToSet(db)
        /\ UNCHANGED <<logged, queue, gone>>
    BY <1>16 DEF ClearDatabase, InTransaction
  <2>2. QED
    BY <1>0, <1>1, <1>2, <1>3, <1>4, <2>1 DEF Kept
<1>17. CASE TryClean \/ DeleteFails \/ CleanerBoxClosed
  <2>1. UNCHANGED <<logged, queue, db, gone, lost>>
    BY <1>17 DEF TryClean, DeleteFails, CleanerBoxClosed, history
  <2>2. (intransn <=> intrans) /\ (intrans => UNCHANGED <<work, cut>>)
    BY <1>17, CleanerTakes
  <2>3. QED
    BY <1>0, <1>1, <1>2, <1>3, <1>4, <2>1, <2>2 DEF Kept
<1>18. CASE DeleteOld
  <2>1. PICK n \in 0 .. Len(work) :
           /\ db' = SubSeq(work, n + 1, Len(work))
           /\ gone' = gone \cup ToSet(SubSeq(work, 1, n))
    BY <1>18 DEF DeleteOld
  <2>2. /\ ~intrans /\ ~intransn /\ work = db /\ UNCHANGED <<logged, queue, lost>>
    BY <1>18 DEF DeleteOld, InTransaction, TypeOK, Flow
  <2>3. ToSet(work) = ToSet(SubSeq(work, 1, n)) \cup ToSet(SubSeq(work, n + 1, Len(work)))
    BY SetOfParts DEF TypeOK
  <2>4. QED
    BY <1>0, <1>1, <1>2, <1>3, <1>4, <2>1, <2>2, <2>3 DEF Kept
<1>19. CASE Exit
  <2>1. ~intrans /\ ~intransn /\ UNCHANGED <<logged, db, gone>>
    BY <1>19 DEF Exit, Ended, InTransaction
  <2>2. ToSet(queue) \subseteq lost'
    BY <1>19, SetOfEmpty DEF Exit, Flow, TypeOK
  <2>3. lost \subseteq lost'
    BY <1>19 DEF Exit
  <2>4. QED
    BY <1>0, <1>1, <1>2, <1>3, <1>4, <2>1, <2>2, <2>3 DEF Kept
<1>20. CASE Crash
  <2>1. ~intransn /\ UNCHANGED <<logged, db, gone>>
    BY <1>20 DEF Crash, Ended, InTransaction
  <2>2. /\ lost \cup ToSet(queue) \subseteq lost'
        /\ intrans => Uncommitted \subseteq lost'
    BY <1>20, TableIs, TypeParts DEF Crash
  <2>3. QED
    BY <1>0, <1>1, <1>2, <1>3, <1>4, <2>1, <2>2 DEF Kept, Uncommitted
<1>21. CASE UNCHANGED vars
  BY <1>5, <1>21 DEF vars, store, history
<1>22. QED
  BY <1>6, <1>7, <1>8, <1>9, <1>10, <1>11, <1>12, <1>13, <1>14, <1>15, <1>16, <1>17, <1>18,
     <1>19, <1>20, <1>21, <1>23, <1>24, <1>25 DEF Next, CommitSteps, CloseBox, Clean

\* Across failed inserts and commits, rollbacks by hand and by sqlite, crashes and restarts: a
\* row that was logged is queued, in the database, or removed for its age or the database's
\* size, unless the user was told, has cleared the database, or the program crashed
\* (_Commit, logproc.cpp:298).
THEOREM RowsAccounted == Spec => []Accounted
<1>1. Init => Accounted
  BY DEF Init, Accounted, Rows, Table, Removed, ToSet
<1>2. QED
  BY <1>1, FlowAlways, AccountedNext, PTL DEF Spec

-----------------------------------------------------------------------------
(***************************************************************************)
(* What is removed was archived.                                           *)
(***************************************************************************)

\* What an archiving step has promised to the deleting step that follows.
ArchiveInv ==
    cleanup = "archive" /\ mishaps = {} =>
        /\ gone \subseteq archive
        /\ ui \in {"archivebox", "delete"} => ToSet(OlderHalf) \subseteq archive
        /\ ui = "commit" => cut \subseteq archive
        /\ cleaner \in {"archivebox", "delete"} => \A r \in ToSet(work) : Old(r) => r \in archive

\* Archiving without a mishap.
LEMMA ArchiveAll ==
    ASSUME NEW rows, Archive(rows), mishaps' = {}
    PROVE  mishaps = {} /\ archive \cup rows \subseteq archive'
  BY DEF Archive

LEMMA ArchiveNext ==
    TypeOK /\ Locked /\ Flow /\ ArchiveInv /\ [Next]_vars => ArchiveInv'
<1> SUFFICES ASSUME TypeOK, Locked, Flow, ArchiveInv, [Next]_vars,
                    cleanup' = "archive", mishaps' = {}
             PROVE  /\ gone' \subseteq archive'
                    /\ ui' \in {"archivebox", "delete"} => ToSet(OlderHalf)' \subseteq archive'
                    /\ ui' = "commit" => cut' \subseteq archive'
                    /\ cleaner' \in {"archivebox", "delete"} =>
                          \A r \in ToSet(work') : Old(r)' => r \in archive'
  BY DEF ArchiveInv
<1>0. ASSUME cleanup' = cleanup, mishaps \subseteq mishaps'
      PROVE  /\ gone \subseteq archive
             /\ ui \in {"archivebox", "delete"} => ToSet(OlderHalf) \subseteq archive
             /\ ui = "commit" => cut \subseteq archive
             /\ cleaner \in {"archivebox", "delete"} =>
                   \A r \in ToSet(work) : Old(r) => r \in archive
  BY <1>0 DEF ArchiveInv
<1>1. UNCHANGED work => OlderHalf' = OlderHalf
  BY DEF OlderHalf, MidRowid
<1>2. UNCHANGED <<logged, now>> => \A r : Old(r)' <=> Old(r)
  BY DEF Old
<1>3. CASE UNCHANGED <<cleanup, mishaps, logged, now, work, cut, gone, archive, ui, cleaner>>
  BY <1>0, <1>1, <1>2, <1>3
<1>4. CASE Tick
  <2>1. cleaner \notin {"archivebox", "delete"}
    BY <1>4 DEF Tick
  <2>2. QED
    BY <1>0, <1>1, <1>4, <2>1 DEF Tick, state, store, clean
<1>5. CASE Log
  <2>1. ASSUME NEW r \in ToSet(work), cleaner \in {"archivebox", "delete"}, Old(r)' PROVE r \in archive'
    <3>1. r \in 1 .. Len(logged) /\ logged \in Seq(Times)
      BY SetOf DEF TypeOK, Rows
    <3>2. logged'[r] = logged[r] /\ now' = now
      BY <1>5, <3>1 DEF Log, TypeOK
    <3>3. Old(r)
      BY <2>1, <3>2 DEF Old
    <3>4. QED
      BY <1>0, <1>5, <2>1, <3>3 DEF Log, state, history
  <2>2. QED
    BY <1>0, <1>5, <2>1 DEF Log, state, store, clean, history
<1>6. CASE Commit \/ ForceCommit
  <2>1. cleaner \notin {"archive", "archivebox", "delete"}
    BY <1>6 DEF Commit, ForceCommit, Begin, TypeOK
  <2>2. QED
    BY <1>0, <1>6, <2>1 DEF Commit, ForceCommit, Begin, state, clean, history
<1>7. CASE Insert \/ InsertFails \/ BoxClosed
  <2>1. cleaner \notin {"archive", "archivebox", "delete"} /\ ui' \notin {"archivebox", "delete", "commit"}
    BY <1>7 DEF Insert, InsertFails, BoxClosed, Return, TypeOK, Locked
  <2>2. QED
    BY <1>0, <1>7, <2>1 DEF Insert, InsertFails, BoxClosed, state, clean, history
<1>8. CASE Inserted
  <2>1. cleaner \notin {"archive", "archivebox", "delete"} /\ ui' \notin {"archivebox", "delete"} /\ cut = {}
    BY <1>8 DEF Inserted, TypeOK, Flow, state
  <2>2. QED
    BY <1>0, <1>8, <2>1 DEF Inserted, state, store, clean, history
<1>9. CASE ArchiveHalf
  <2>1. cleaner \notin {"archive", "archivebox", "delete"}
    BY <1>9 DEF ArchiveHalf, TypeOK
  <2>2. mishaps = {} /\ archive \cup ToSet(OlderHalf) \subseteq archive'
    BY <1>9, ArchiveAll DEF ArchiveHalf
  <2>3. QED
    BY <1>0, <1>1, <1>9, <2>1, <2>2 DEF ArchiveHalf, state, store, clean
<1>10. CASE DeleteHalf
  <2>1. cleaner \notin {"archive", "archivebox", "delete"}
    BY <1>10 DEF DeleteHalf, TypeOK
  <2>2. QED
    BY <1>0, <1>10, <2>1 DEF DeleteHalf, state, clean, history
<1>11. CASE CommitTrans \/ CommitFails
  <2>1. cleaner \notin {"archive", "archivebox", "delete"} /\ ui = "commit"
    BY <1>11 DEF CommitTrans, CommitFails, TypeOK
  <2>2. ui' \in {"idle", "exit", "told"} /\ UNCHANGED <<cleanup, cleaner, archive, mishaps>>
    BY <1>11 DEF CommitTrans, CommitFails, Return, Told, state, clean
  <2>3. gone' \subseteq gone \cup cut
    BY <1>11 DEF CommitTrans, CommitFails, Committed
  <2>4. QED
    BY <1>0, <2>1, <2>2, <2>3
<1>12. CASE ClearDatabase \/ Export \/ ExportEnds \/ Main_OnTimer \/ Log_OnDestroy
             \/ Log_OnDestroyInBox \/ ToldClosed
  <2>1. /\ ui' \notin {"archivebox", "delete", "commit"} \/ UNCHANGED ui
        /\ cleaner' \in {"archivebox", "delete"} => cleaner' = cleaner
    BY <1>12 DEF ClearDatabase, Export, ExportEnds, Main_OnTimer, Log_OnDestroy,
                 Log_OnDestroyInBox, ToldClosed, clean
  <2>2. UNCHANGED <<cleanup, mishaps, logged, now, work, cut, gone, archive>>
    BY <1>12 DEF ClearDatabase, Export, ExportEnds, Main_OnTimer, Log_OnDestroy,
                 Log_OnDestroyInBox, ToldClosed, state, store, history
  <2>3. QED
    BY <1>0, <1>1, <1>2, <2>1, <2>2
<1>21. CASE DeleteHalfFails
  <2>1. /\ cleaner \notin {"archive", "archivebox", "delete"}
        /\ ui' \notin {"archivebox", "delete", "commit"}
    BY <1>21 DEF DeleteHalfFails, TypeOK
  <2>2. QED
    BY <1>0, <1>21, <2>1 DEF DeleteHalfFails, state, clean
<1>22. CASE HalfBoxClosed
  <2>1. cleaner \notin {"archive", "archivebox", "delete"}
    BY <1>22 DEF HalfBoxClosed, TypeOK, Locked
  <2>2. UNCHANGED <<cleanup, mishaps, gone, archive, cleaner>>
    BY <1>22 DEF HalfBoxClosed, state, clean, history
  <2>3. CASE ui = "archivebox"
    <3>1. ui' = "delete" /\ UNCHANGED work
      BY <1>22, <2>3 DEF HalfBoxClosed
    <3>2. QED
      BY <1>0, <1>1, <2>1, <2>2, <2>3, <3>1
  <2>4. CASE ui = "deletebox"
    <3>1. ui' \in {"commit", "idle", "told"} /\ cut' = {}
      BY <1>22, <2>4 DEF HalfBoxClosed, Leave, Told, Flow
    <3>2. QED
      BY <1>0, <2>1, <2>2, <3>1
  <2>5. QED
    BY <1>22, <2>3, <2>4 DEF HalfBoxClosed
<1>23. CASE CleanerBoxClosed
  <2>1. /\ ui \notin {"archivebox", "delete", "commit"}
        /\ UNCHANGED <<cleanup, mishaps, logged, now, gone, archive, ui>>
        /\ cleaner' = "delete" => cleaner = "archivebox" /\ UNCHANGED work
        /\ cleaner' \in {"idle", "delete"}
    BY <1>23 DEF CleanerBoxClosed, TypeOK, Locked, state, history
  <2>2. QED
    BY <1>0, <1>2, <2>1
<1>13. CASE TryClean
  <2>1. /\ cleaner' \notin {"archivebox", "delete"} /\ UNCHANGED <<cleanup, mishaps, gone, archive, ui, cut>>
        /\ ui \in {"archivebox", "delete", "commit"} => UNCHANGED work
    BY <1>13 DEF TryClean, TypeOK, state, history
  <2>2. QED
    BY <1>0, <1>1, <2>1
<1>14. CASE ArchiveOld
  <2> DEFINE rows == {r \in ToSet(work) : \E q \in ToSet(work) : Old(q) /\ Date(q) = Date(r)}
  <2>1. mishaps = {} /\ archive \cup rows \subseteq archive'
    BY <1>14, ArchiveAll DEF ArchiveOld
  <2>2. \A r \in ToSet(work) : Old(r) => r \in rows
    OBVIOUS
  <2>3. ui \notin {"archivebox", "delete", "commit"}
    BY <1>14 DEF ArchiveOld, TypeOK
  <2>4. UNCHANGED <<cleanup, logged, now, work, gone, ui>>
    BY <1>14 DEF ArchiveOld, state, store
  <2>5. QED
    BY <1>0, <1>2, <2>1, <2>2, <2>3, <2>4
<1>15. CASE DeleteOld
  <2>1. PICK n \in 0 .. Len(work) :
           /\ \A i \in 1 .. Len(work) : Old(work[i]) <=> i <= n
           /\ gone' = gone \cup ToSet(SubSeq(work, 1, n))
    BY <1>15 DEF DeleteOld
  <2>2. ASSUME NEW r \in ToSet(SubSeq(work, 1, n)) PROVE r \in ToSet(work) /\ Old(r)
    <3> DEFINE old == SubSeq(work, 1, n)
    <3>1. old \in Seq(Rows) /\ Len(old) = n /\ \A i \in 1 .. n : old[i] = work[i]
      BY SetOfParts DEF TypeOK
    <3>2. ToSet(old) \subseteq ToSet(work)
      BY SetOfParts DEF TypeOK
    <3> HIDE DEF old
    <3>3. PICK i \in 1 .. n : r = old[i]
      <4>1. r \in ToSet(old)
        BY <2>2 DEF old
      <4>2. \A x : x \in ToSet(old) <=> \E i \in 1 .. Len(old) : x = old[i]
        BY <3>1, SetOf
      <4>3. QED
        BY <3>1, <4>1, <4>2
    <3>4. work[i] = r /\ i \in 1 .. Len(work)
      BY <3>1, <3>3
    <3>5. QED
      BY <2>1, <2>2, <3>2, <3>4 DEF old
  <2>3. ui \notin {"archivebox", "delete", "commit"} /\ cleaner = "delete" /\ cleaner' \in {"idle", "donebox"}
    BY <1>15 DEF DeleteOld, TypeOK
  <2>4. UNCHANGED <<cleanup, mishaps, archive, ui>>
    BY <1>15 DEF DeleteOld, state
  <2>5. QED
    BY <1>0, <2>1, <2>2, <2>3, <2>4
<1>16. CASE DeleteFails
  <2>1. ui \notin {"archivebox", "delete", "commit"} /\ cleaner' = "deletebox"
    BY <1>16 DEF DeleteFails, TypeOK
  <2>2. QED
    BY <1>0, <1>16, <2>1 DEF DeleteFails, state, history
<1>17. CASE Exit \/ Crash
  BY <1>0, <1>17 DEF Exit, Crash, Ended
<1>18. CASE Start
  BY <1>3, <1>18 DEF Start, store, history
<1>19. CASE UNCHANGED vars
  BY <1>3, <1>19 DEF vars, state, store, clean, history
<1>20. QED
  BY <1>4, <1>5, <1>6, <1>7, <1>8, <1>9, <1>10, <1>11, <1>12, <1>13, <1>14, <1>15, <1>16,
     <1>17, <1>18, <1>19, <1>21, <1>22, <1>23 DEF Next, CommitSteps, CloseBox, Clean

\* With "Archive & Remove": every row that is removed, by the size of the database in the
\* middle of a commit or by its age, is in an archive file, unless a file could not be written
\* or time passed between archiving and deleting (logproc.cpp:385; mainproc.cpp:743, :826).
THEOREM ArchivedBefore == Spec => []ArchivedFirst
<1>1. Init => ArchiveInv
  BY DEF Init, ArchiveInv
<1>2. ArchiveInv => ArchivedFirst
  BY DEF ArchiveInv, ArchivedFirst
<1>3. QED
  BY <1>1, <1>2, FlowAlways, ArchiveNext, PTL DEF Spec

-----------------------------------------------------------------------------
(***************************************************************************)
(* Rows keep their order, and the oldest go first.                         *)
(***************************************************************************)

\* A table and the queue behind it.
InOrder(s, q) ==
    /\ Increasing(s) /\ Increasing(q)
    /\ \A x \in ToSet(s), y \in ToSet(q) : x < y

OrderInv ==
    /\ InOrder(db, queue)
    /\ InTransaction => InOrder(work, queue)
    /\ ui = "commit" => /\ \A x \in cut, y \in ToSet(work) : x < y
                        /\ cut # {} => work # <<>>

\* Indices are numbers from 1.
LEMMA IncreasingIs ==
    ASSUME NEW s \in Seq(Nat)
    PROVE  /\ Len(s) \in Nat
           /\ \A i \in 1 .. Len(s) : s[i] \in Nat
           /\ Increasing(s) <=> \A i, j \in 1 .. Len(s) : i < j => s[i] < s[j]
<1>1. DOMAIN s = 1 .. Len(s)
  OBVIOUS
<1>2. QED
  BY <1>1 DEF Increasing

\* In order together means in order one after the other.
LEMMA OrderJoins ==
    ASSUME NEW s \in Seq(Nat), NEW q \in Seq(Nat), InOrder(s, q)
    PROVE  Increasing(s \o q)
<1>1. /\ s \o q \in Seq(Nat) /\ Len(s \o q) = Len(s) + Len(q)
      /\ \A i \in 1 .. Len(s) : (s \o q)[i] = s[i]
      /\ \A i \in Len(s) + 1 .. Len(s) + Len(q) : (s \o q)[i] = q[i - Len(s)]
  OBVIOUS
<1> DEFINE t == s \o q
<1> HIDE DEF t
<1>2. /\ t \in Seq(Nat) /\ Len(t) = Len(s) + Len(q)
      /\ \A i \in 1 .. Len(s) : t[i] = s[i]
      /\ \A i \in Len(s) + 1 .. Len(s) + Len(q) : t[i] = q[i - Len(s)]
  BY <1>1 DEF t
<1>3. (\A i \in 1 .. Len(s) : s[i] \in ToSet(s)) /\ \A i \in 1 .. Len(q) : q[i] \in ToSet(q)
  BY SetOf
<1>4. /\ Len(s) \in Nat /\ Len(q) \in Nat
      /\ \A i, j \in 1 .. Len(s) : i < j => s[i] < s[j]
      /\ \A i, j \in 1 .. Len(q) : i < j => q[i] < q[j]
  BY IncreasingIs DEF InOrder
<1>5. ASSUME NEW i \in 1 .. Len(t), NEW j \in 1 .. Len(t), i < j PROVE t[i] < t[j]
  <2>1. CASE j <= Len(s)
    <3>1. i \in 1 .. Len(s) /\ j \in 1 .. Len(s)
      BY <1>2, <1>4, <1>5, <2>1
    <3>2. QED
      BY <1>2, <1>4, <1>5, <3>1
  <2>2. CASE i > Len(s)
    <3>1. i - Len(s) \in 1 .. Len(q) /\ j - Len(s) \in 1 .. Len(q) /\ i - Len(s) < j - Len(s)
      BY <1>2, <1>4, <1>5, <2>2
    <3>2. i \in Len(s) + 1 .. Len(s) + Len(q) /\ j \in Len(s) + 1 .. Len(s) + Len(q)
      BY <1>2, <1>4, <1>5, <2>2
    <3>3. t[i] = q[i - Len(s)] /\ t[j] = q[j - Len(s)]
      BY <1>2, <3>2
    <3>4. QED
      BY <1>4, <3>1, <3>3
  <2>3. CASE i <= Len(s) /\ j > Len(s)
    <3>1. i \in 1 .. Len(s) /\ j - Len(s) \in 1 .. Len(q) /\ j \in Len(s) + 1 .. Len(s) + Len(q)
      BY <1>2, <1>4, <2>3
    <3>2. t[i] \in ToSet(s) /\ t[j] \in ToSet(q)
      BY <1>2, <1>3, <3>1
    <3>3. QED
      BY <3>2 DEF InOrder
  <2>4. QED
    BY <1>2, <1>4, <2>1, <2>2, <2>3
<1>6. Increasing(t)
  BY <1>2, <1>5, IncreasingIs
<1>7. QED
  BY <1>6 DEF t

\* What comes last is greater than the rest.
LEMMA IncreasingAppend ==
    ASSUME NEW s \in Seq(Nat), NEW x \in Nat, Increasing(s), \A y \in ToSet(s) : y < x
    PROVE  Increasing(Append(s, x))
<1>1. /\ Append(s, x) \in Seq(Nat) /\ Len(Append(s, x)) = Len(s) + 1
      /\ Append(s, x)[Len(s) + 1] = x /\ \A i \in 1 .. Len(s) : Append(s, x)[i] = s[i]
  OBVIOUS
<1> DEFINE t == Append(s, x)
<1> HIDE DEF t
<1>2. t \in Seq(Nat) /\ Len(t) = Len(s) + 1 /\ t[Len(s) + 1] = x /\ \A i \in 1 .. Len(s) : t[i] = s[i]
  BY <1>1 DEF t
<1>3. /\ Len(s) \in Nat /\ \A i, j \in 1 .. Len(s) : i < j => s[i] < s[j]
      /\ \A i \in 1 .. Len(s) : s[i] < x
  BY IncreasingIs, SetOf
<1>4. ASSUME NEW i \in 1 .. Len(t), NEW j \in 1 .. Len(t), i < j PROVE t[i] < t[j]
  <2>1. i \in 1 .. Len(s) /\ (j \in 1 .. Len(s) \/ j = Len(s) + 1)
    <3>1. Len(t) = Len(s) + 1 /\ Len(s) \in Nat
      BY <1>2, <1>3
    <3>2. QED
      BY <1>4, <3>1
  <2>2. QED
    BY <1>2, <1>3, <1>4, <2>1
<1>5. Increasing(t)
  BY <1>2, <1>4, IncreasingIs
<1>6. QED
  BY <1>5 DEF t

\* A sequence cut in two.
LEMMA IncreasingParts ==
    ASSUME NEW s \in Seq(Nat), Increasing(s), NEW n \in 0 .. Len(s)
    PROVE  /\ Increasing(SubSeq(s, 1, n)) /\ Increasing(SubSeq(s, n + 1, Len(s)))
           /\ \A x \in ToSet(SubSeq(s, 1, n)), y \in ToSet(SubSeq(s, n + 1, Len(s))) : x < y
<1> DEFINE a == SubSeq(s, 1, n)
           b == SubSeq(s, n + 1, Len(s))
<1>1. /\ a \in Seq(Nat) /\ Len(a) = n /\ \A i \in 1 .. n : a[i] = s[i]
      /\ b \in Seq(Nat) /\ Len(b) = Len(s) - n /\ \A i \in 1 .. Len(s) - n : b[i] = s[n + i]
  BY SetOfParts
<1> HIDE DEF a, b
<1>2. Len(s) \in Nat /\ \A i, j \in 1 .. Len(s) : i < j => s[i] < s[j]
  BY IncreasingIs
<1>3. Increasing(a)
  <2>1. ASSUME NEW i \in 1 .. Len(a), NEW j \in 1 .. Len(a), i < j PROVE a[i] < a[j]
    <3>1. i \in 1 .. Len(s) /\ j \in 1 .. Len(s) /\ a[i] = s[i] /\ a[j] = s[j]
      BY <1>1, <1>2
    <3>2. QED
      BY <1>2, <2>1, <3>1
  <2>2. QED
    BY <1>1, <2>1, IncreasingIs
<1>4. Increasing(b)
  <2>1. ASSUME NEW i \in 1 .. Len(b), NEW j \in 1 .. Len(b), i < j PROVE b[i] < b[j]
    <3>1. /\ n + i \in 1 .. Len(s) /\ n + j \in 1 .. Len(s) /\ n + i < n + j
          /\ b[i] = s[n + i] /\ b[j] = s[n + j]
      BY <1>1, <1>2, <2>1
    <3>2. QED
      BY <1>2, <3>1
  <2>2. QED
    BY <1>1, <2>1, IncreasingIs
<1>5. ASSUME NEW x \in ToSet(a), NEW y \in ToSet(b) PROVE x < y
  <2>1. PICK i \in 1 .. Len(a) : x = a[i]
    BY <1>1, SetOf
  <2>2. PICK j \in 1 .. Len(b) : y = b[j]
    BY <1>1, SetOf
  <2>3. i \in 1 .. n /\ j \in 1 .. Len(s) - n /\ n \in 0 .. Len(s) /\ Len(s) \in Nat
    BY <1>1, <1>2
  <2>4. i \in 1 .. Len(s) /\ n + j \in 1 .. Len(s) /\ i < n + j
    BY <2>3
  <2>5. x = s[i] /\ y = s[n + j]
    BY <1>1, <2>1, <2>2, <2>3
  <2>6. QED
    BY <1>2, <2>4, <2>5
<1>6. QED
  BY <1>3, <1>4, <1>5 DEF a, b

\* A row that is moved from the queue to the table.
LEMMA OrderMoves ==
    ASSUME NEW s \in Seq(Nat), NEW q \in Seq(Nat), q # <<>>, InOrder(s, q)
    PROVE  InOrder(s, Tail(q)) /\ InOrder(Append(s, Head(q)), Tail(q))
<1>1. /\ Head(q) = q[1] /\ Head(q) \in Nat /\ Tail(q) \in Seq(Nat)
      /\ Len(q) \in Nat \ {0} /\ Len(Tail(q)) = Len(q) - 1
      /\ \A i \in 1 .. Len(q) - 1 : Tail(q)[i] = q[i + 1]
  OBVIOUS
<1>2. ToSet(q) = {Head(q)} \cup ToSet(Tail(q))
  BY SetOfTail
<1> DEFINE h == Head(q)
           t == Tail(q)
<1> HIDE DEF h, t
<1>3. /\ h = q[1] /\ h \in Nat /\ t \in Seq(Nat) /\ Len(t) = Len(q) - 1
      /\ \A i \in 1 .. Len(q) - 1 : t[i] = q[i + 1]
      /\ ToSet(q) = {h} \cup ToSet(t)
  BY <1>1, <1>2 DEF h, t
<1>4. \A i, j \in 1 .. Len(q) : i < j => q[i] < q[j]
  BY IncreasingIs DEF InOrder
<1>5. Increasing(t)
  <2>1. ASSUME NEW i \in 1 .. Len(t), NEW j \in 1 .. Len(t), i < j PROVE t[i] < t[j]
    <3>1. /\ i + 1 \in 1 .. Len(q) /\ j + 1 \in 1 .. Len(q) /\ i + 1 < j + 1
          /\ t[i] = q[i + 1] /\ t[j] = q[j + 1]
      BY <1>1, <1>3, <2>1
    <3>2. QED
      BY <1>4, <3>1
  <2>2. QED
    BY <1>3, <2>1, IncreasingIs
<1>6. ASSUME NEW y \in ToSet(t) PROVE h < y
  <2>1. PICK i \in 1 .. Len(t) : y = t[i]
    BY <1>3, SetOf
  <2>2. 1 \in 1 .. Len(q) /\ i + 1 \in 1 .. Len(q) /\ 1 < i + 1 /\ y = q[i + 1]
    BY <1>1, <1>3, <2>1
  <2>3. QED
    BY <1>3, <1>4, <2>2
<1>7. InOrder(s, t)
  BY <1>3, <1>5 DEF InOrder
<1>8. Increasing(Append(s, h)) /\ ToSet(Append(s, h)) = ToSet(s) \cup {h}
  BY <1>3, IncreasingAppend, SetOfAppend DEF InOrder
<1>9. InOrder(Append(s, h), t)
  BY <1>5, <1>6, <1>7, <1>8 DEF InOrder
<1>10. QED
  BY <1>7, <1>9 DEF h, t

\* Nothing queued, or nothing in the table.
LEMMA OrderAlone ==
    ASSUME NEW s
    PROVE  /\ InOrder(s, <<>>) <=> Increasing(s)
           /\ InOrder(<<>>, s) <=> Increasing(s)
<1>1. Increasing(<<>>) /\ ToSet(<<>>) = {}
  BY SetOfEmpty DEF Increasing
<1>2. QED
  BY <1>1 DEF InOrder

LEMMA NatRows ==
    ASSUME TypeOK
    PROVE  /\ Rows \subseteq Nat
           /\ queue \in Seq(Nat) /\ db \in Seq(Nat) /\ work \in Seq(Nat)
<1>1. Rows \subseteq Nat
  BY RowsOf
<1>2. QED
  BY <1>1, SeqGrows DEF TypeOK

LEMMA OrderInit == Init => OrderInv
  BY OrderAlone DEF Init, OrderInv, InTransaction, Increasing

LEMMA LogOrdered == TypeOK /\ OrderInv /\ Log => OrderInv'
<1> SUFFICES ASSUME TypeOK, OrderInv, Log PROVE OrderInv'
  OBVIOUS
<1> DEFINE new == Len(logged')
<1>1. queue' = Append(queue, new) /\ db' = db /\ ui = "idle" /\ ui' = "idle"
  BY DEF Log, store
<1>2. new \in Nat /\ \A x \in Rows : x < new
  <2>1. new = Len(logged) + 1
    BY DEF Log, TypeOK
  <2>2. QED
    BY <2>1, RowsOf
<1>3. \A x \in ToSet(queue) \cup ToSet(db) : x < new
  BY <1>2, RowsOf
<1>4. queue \in Seq(Nat) /\ InOrder(db, queue)
  BY NatRows DEF OrderInv
<1> HIDE DEF new
<1>5. Increasing(queue') /\ ToSet(queue') = ToSet(queue) \cup {new}
  BY <1>1, <1>2, <1>3, <1>4, IncreasingAppend, SetOfAppend DEF InOrder
<1>6. InOrder(db, queue')
  BY <1>3, <1>4, <1>5 DEF InOrder
<1>7. QED
  BY <1>1, <1>6 DEF OrderInv, InTransaction

LEMMA OrderNext ==
    TypeOK /\ Locked /\ Flow /\ OrderInv /\ [Next]_vars => OrderInv'
<1> SUFFICES ASSUME TypeOK, Locked, Flow, OrderInv, [Next]_vars PROVE OrderInv'
  OBVIOUS
<1>0. /\ queue \in Seq(Nat) /\ db \in Seq(Nat) /\ work \in Seq(Nat)
      /\ InOrder(db, queue) /\ (InTransaction => InOrder(work, queue))
      /\ ui = "commit" => /\ \A x \in cut, y \in ToSet(work) : x < y
                          /\ cut # {} => work # <<>>
  BY NatRows DEF OrderInv
<1>1. CASE UNCHANGED <<queue, db, work, cut, ui, trans>>
  BY <1>0, <1>1 DEF OrderInv, InTransaction
<1>2. CASE Tick \/ Export \/ ExportEnds \/ Main_OnTimer \/ Start \/ ArchiveOld
  BY <1>1, <1>2 DEF Tick, Export, ExportEnds, Main_OnTimer, Start, ArchiveOld, store
<1>3. CASE Log
  BY <1>3, LogOrdered
<1>4. CASE Commit \/ ForceCommit
  <2>1. work' = db /\ ui' = "insert" /\ UNCHANGED <<queue, db>>
    BY <1>4 DEF Commit, ForceCommit, Begin
  <2>2. QED
    BY <1>0, <2>1 DEF OrderInv, InTransaction
<1>5. CASE Insert
  <2>1. /\ ui = "insert" /\ ui' = "insert" /\ queue # <<>> /\ db' = db
        /\ work' = Append(work, Head(queue)) /\ queue' = Tail(queue)
    BY <1>5 DEF Insert
  <2>2. InOrder(db, queue') /\ InOrder(work', queue')
    BY <1>0, <2>1, OrderMoves DEF InTransaction
  <2>3. QED
    BY <2>1, <2>2 DEF OrderInv
<1>6. CASE InsertFails \/ BoxClosed \/ CommitFails \/ ToldClosed \/ Log_OnDestroy
  <2>1. ui' \in {"box", "idle", "told", "wait", "exit"} /\ UNCHANGED <<queue, db>>
    BY <1>6 DEF InsertFails, BoxClosed, CommitFails, ToldClosed, Log_OnDestroy, Return, Told, store
  <2>2. QED
    BY <1>0, <2>1 DEF OrderInv, InTransaction
<1>7. CASE Inserted
  <2>1. InTransaction /\ cut' = {} /\ UNCHANGED <<queue, db, work>>
    BY <1>7 DEF Inserted, InTransaction, Flow, store
  <2>2. QED
    BY <1>0, <2>1 DEF OrderInv
<1>8. CASE ArchiveHalf
  <2>1. InTransaction /\ ui' \in {"archivebox", "delete"} /\ UNCHANGED <<queue, db, work>>
    BY <1>8 DEF ArchiveHalf, InTransaction, store
  <2>2. QED
    BY <1>0, <2>1 DEF OrderInv
<1>9. CASE DeleteHalf
  <2> DEFINE n == MidRowid - 1
  <2>1. /\ InTransaction /\ queue = <<>> /\ UNCHANGED <<queue, db>>
        /\ work' = SubSeq(work, Len(OlderHalf) + 1, Len(work)) /\ cut' = ToSet(OlderHalf)
    BY <1>9 DEF DeleteHalf, InTransaction, Flow
  <2>2. n \in 0 .. Len(work) /\ Len(OlderHalf) = n /\ OlderHalf = SubSeq(work, 1, n)
    BY HalfOf
  <2> HIDE DEF n
  <2>3. Increasing(work)
    BY <1>0, <2>1 DEF InOrder
  <2>4. Increasing(work') /\ \A x \in cut', y \in ToSet(work') : x < y
    BY <1>0, <2>1, <2>2, <2>3, IncreasingParts
  <2>5. InOrder(work', queue')
    BY <2>1, <2>4, OrderAlone
  <2>6. cut' # {} => work' # <<>>
    BY <2>1, HalfOf, SetOfEmpty
  <2>7. QED
    BY <1>0, <2>1, <2>4, <2>5, <2>6 DEF OrderInv
<1>17. CASE DeleteHalfFails
  <2>1. InTransaction /\ ui' = "deletebox" /\ UNCHANGED <<queue, db, work>>
    BY <1>17 DEF DeleteHalfFails, InTransaction
  <2>2. QED
    BY <1>0, <2>1 DEF OrderInv
<1>18. CASE HalfBoxClosed
  <2>1. UNCHANGED <<queue, db>>
    BY <1>18 DEF HalfBoxClosed
  <2>2. CASE ui' \in {"idle", "told"}
    BY <1>0, <2>1, <2>2 DEF OrderInv, InTransaction
  <2>3. CASE ui' \notin {"idle", "told"}
    <3>1. InTransaction /\ cut' = {} /\ UNCHANGED work
      BY <1>18, <2>3 DEF HalfBoxClosed, Told, Flow, InTransaction
    <3>2. QED
      BY <1>0, <2>1, <3>1 DEF OrderInv
  <2>4. QED
    BY <2>2, <2>3
<1>19. CASE Log_OnDestroyInBox
  <2>1. UNCHANGED <<queue, db, work, cut, trans>> /\ ui' # "commit"
    BY <1>19 DEF Log_OnDestroyInBox
  <2>2. InTransaction' => InTransaction
    BY <1>19 DEF Log_OnDestroyInBox, InTransaction
  <2>3. QED
    BY <1>0, <2>1, <2>2 DEF OrderInv
<1>10. CASE CommitTrans
  <2>1. /\ InTransaction /\ db' = work /\ queue' = queue
        /\ ui' \in {"idle", "exit", "told"}
    BY <1>10 DEF CommitTrans, Committed, Return, Told, InTransaction
  <2>2. QED
    BY <1>0, <2>1 DEF OrderInv, InTransaction
<1>11. CASE ClearDatabase
  <2>1. db' = <<>> /\ queue' = queue /\ ui' = "idle"
    BY <1>11 DEF ClearDatabase
  <2>2. InOrder(db', queue')
    BY <1>0, <2>1, OrderAlone DEF InOrder
  <2>3. QED
    BY <2>1, <2>2 DEF OrderInv, InTransaction
<1>12. CASE TryClean \/ DeleteFails \/ CleanerBoxClosed
  <2>1. UNCHANGED <<queue, db, ui>>
    BY <1>12 DEF TryClean, DeleteFails, CleanerBoxClosed
  <2>2. (InTransaction' <=> InTransaction) /\ (InTransaction => UNCHANGED <<work, cut>>)
    BY <1>12, CleanerTakes
  <2>3. ui = "commit" => InTransaction
    BY DEF InTransaction
  <2>4. QED
    BY <1>0, <2>1, <2>2, <2>3 DEF OrderInv
<1>13. CASE DeleteOld
  <2>1. PICK n \in 0 .. Len(work) : db' = SubSeq(work, n + 1, Len(work))
    BY <1>13 DEF DeleteOld
  <2>2. work = db /\ UNCHANGED <<queue, ui>> /\ ~InTransaction /\ ~InTransaction'
    BY <1>13 DEF DeleteOld, Flow, TypeOK, InTransaction
  <2>3. Increasing(db') /\ ToSet(db') \subseteq ToSet(db)
    BY <1>0, <2>1, <2>2, IncreasingParts, SetOfParts DEF InOrder
  <2>4. InOrder(db', queue')
    BY <1>0, <2>2, <2>3 DEF InOrder
  <2>5. QED
    BY <2>2, <2>4 DEF OrderInv, InTransaction
<1>14. CASE Exit \/ Crash
  <2>1. db' = db /\ queue' = <<>> /\ ui' = "idle"
    BY <1>14 DEF Exit, Crash, Ended
  <2>2. InOrder(db', queue')
    BY <1>0, <2>1, OrderAlone DEF InOrder
  <2>3. QED
    BY <2>1, <2>2 DEF OrderInv, InTransaction
<1>15. CASE UNCHANGED vars
  BY <1>1, <1>15 DEF vars, store
<1>16. QED
  BY <1>2, <1>3, <1>4, <1>5, <1>6, <1>7, <1>8, <1>9, <1>10, <1>11, <1>12, <1>13, <1>14,
     <1>15, <1>17, <1>18, <1>19 DEF Next, CommitSteps, CloseBox, Clean

LEMMA OrderAlways == Spec => [](TypeOK /\ Locked /\ Flow /\ OrderInv)
  BY OrderInit, OrderNext, FlowAlways, PTL DEF Spec

\* Failed inserts leave their row at the head of the queue, a rollback takes back rows that
\* have left it, a crash takes the queue: the rows of the database and the queue behind it are
\* always numbered upwards, so that no row is written twice or before an earlier one
\* (logproc.cpp:312, :346).
THEOREM RowsInOrder == Spec => []InOrderOnce
<1>1. TypeOK /\ Locked /\ OrderInv => InOrderOnce
  <2> SUFFICES ASSUME TypeOK, Locked, OrderInv PROVE InOrderOnce
    OBVIOUS
  <2>1. InOrder(Table, queue)
    BY TableIs, TypeParts DEF OrderInv
  <2>2. Table \in Seq(Nat) /\ queue \in Seq(Nat)
    BY NatRows DEF Table
  <2>3. QED
    BY <2>1, <2>2, OrderJoins DEF InOrderOnce
<1>2. QED
  BY <1>1, OrderAlways, PTL

LEMMA OldestNext ==
    ASSUME TypeOK, Locked, Flow, OrderInv, [Next]_vars,
           NEW r \in gone' \ gone
    PROVE  /\ \A q \in ToSet(db') : r < q
           /\ cleaner = "delete" => Old(r)
           /\ ui = "commit" => db' # <<>>
<1>1. CASE CommitTrans
  <2>1. db' = work /\ r \in cut /\ ui = "commit"
    BY <1>1 DEF CommitTrans, Committed
  <2>2. cleaner # "delete"
    BY <2>1 DEF TypeOK
  <2>3. work # <<>>
    BY <2>1 DEF OrderInv
  <2>4. QED
    BY <2>1, <2>2, <2>3 DEF OrderInv
<1>2. CASE DeleteOld
  <2>1. PICK n \in 0 .. Len(work) :
           /\ \A i \in 1 .. Len(work) : Old(work[i]) <=> i <= n
           /\ db' = SubSeq(work, n + 1, Len(work))
           /\ gone' = gone \cup ToSet(SubSeq(work, 1, n))
    BY <1>2 DEF DeleteOld
  <2>2. work = db /\ work \in Seq(Nat) /\ Increasing(work)
    BY <1>2, NatRows DEF DeleteOld, Flow, OrderInv, InOrder
  <2>3. r \in ToSet(SubSeq(work, 1, n))
    BY <2>1
  <2>4. \A q \in ToSet(db') : r < q
    BY <2>1, <2>2, <2>3, IncreasingParts
  <2>5. Old(r)
    <3> DEFINE old == SubSeq(work, 1, n)
    <3>1. old \in Seq(Nat) /\ Len(old) = n /\ \A i \in 1 .. n : old[i] = work[i]
      BY <2>2, SetOfParts
    <3>2. r \in ToSet(old)
      BY <2>3
    <3> HIDE DEF old
    <3>3. PICK i \in 1 .. n : r = old[i]
      <4>1. \A x : x \in ToSet(old) <=> \E i \in 1 .. Len(old) : x = old[i]
        BY <3>1, SetOf
      <4>2. QED
        BY <3>1, <3>2, <4>1
    <3>4. i \in 1 .. Len(work) /\ work[i] = r /\ i <= n
      <4>1. Len(work) \in Nat
        BY <2>2
      <4>2. QED
        BY <3>1, <3>3, <4>1
    <3>5. QED
      BY <2>1, <3>4
  <2>6. ui # "commit"
    BY <1>2 DEF DeleteOld, TypeOK
  <2>7. QED
    BY <2>4, <2>5, <2>6
<1>3. CASE gone' = gone
  BY <1>3
<1>4. QED
  BY <1>1, <1>2, <1>3 DEF Next, CommitSteps, CloseBox, Clean, vars, history, Tick,
     Log, Commit, ForceCommit,
     Begin, Insert, InsertFails, BoxClosed, Inserted, ArchiveHalf, Archive, DeleteHalf, CommitFails,
     ClearDatabase, Export, ExportEnds, Main_OnTimer, TryClean, ArchiveOld, DeleteFails,
     Log_OnDestroy, Exit, Crash, Ended, Start, DeleteHalfFails, HalfBoxClosed, ToldClosed,
     CleanerBoxClosed, Log_OnDestroyInBox

\* Neither the size limit, which halves the table in the middle of a commit, nor the age limit,
\* which another thread applies, ever removes a row that is younger than one that stays; the
\* halving never removes the newest row (midrowid, logproc.cpp:375), and
\* the age limit removes none younger than CleanupInterval (logproc.cpp:460; mainproc.cpp:826).
THEOREM OldestFirst == Spec => OldestRemoved
<1>1. /\ TypeOK /\ Locked /\ Flow /\ OrderInv /\ [Next]_vars
      => [\A r \in gone' \ gone :
             /\ \A q \in ToSet(db') : r < q
             /\ cleaner = "delete" => Old(r)
             /\ ui = "commit" => db' # <<>>]_vars
  BY OldestNext
<1>2. QED
  BY <1>1, OrderAlways, PTL DEF Spec, OldestRemoved
=============================================================================
