------------------------- MODULE FilterClientProofs -------------------------
(***************************************************************************)
(* Proofs about FilterClient, for any number of processors, update threads *)
(* and addresses and any bound on the calls of setranges.                  *)
(***************************************************************************)
EXTENDS FilterClient, FiniteSetTheorems, TLAPS

-----------------------------------------------------------------------------
(* Type correctness *)

\* What thread_func compares is a notification the driver filled in, never the zeroed pbn.
Delivered == /\ request = "answered" => pbn \in Note
             /\ ReaderAt("lock") => reader.note \in Note

\* The calls of setranges that may still write an id.
Pending == {s \in Setters : set[s].pc \in {"write", "load", "store"}}

\* An id leaves room for every call that may still raise it, so it never gets ahead of the
\* calls, although two calls for one list can load and store it in any order.
IdsInv == /\ \A l \in Lists : sid[l] + Cardinality(Pending) <= used
          /\ \A s \in Setters : set[s].pc = "store" => set[s].tmp + Cardinality(Pending) <= used

TypeInv == TypeOK /\ Delivered

\* CheckRanges returns a notification.
LEMMA CheckRangesType ==
    ASSUME TypeOK, NEW a \in Addrs
    PROVE  CheckRanges(a) \in Note /\ NoMatch \in Note
  BY MaxSetsAssumption DEF TypeOK, CheckRanges, NoMatch, Note, Lists, Buffers, Null, Ids

\* Every step of a classify callout and of Notification_Send keeps the types.
LEMMA DriverType ==
    ASSUME TypeInv, Driver
    PROVE  TypeInv'
  <1>1. ASSUME NEW c \in Cpus, NEW a \in Addrs, Classify(c, a) PROVE TypeInv'
    <2>1. callout' \in [Cpus -> Note \cup {None}]
      BY <1>1, CheckRangesType DEF Classify, TypeInv, TypeOK
    <2> QED
      BY <1>1, <2>1 DEF Classify, TypeInv, TypeOK, Delivered, ReaderAt,
                        drvVars, chanVars, setVars, appVars
  <1>2. ASSUME NEW c \in Cpus, NotificationSend(c) PROVE TypeInv'
    <2>1. callout[c] \in Note
      BY <1>2 DEF NotificationSend, TypeInv, TypeOK
    <2>2. callout' \in [Cpus -> Note \cup {None}]
      BY <1>2 DEF NotificationSend, TypeInv, TypeOK
    <2>3. CASE request = "waiting"
      BY <1>2, <2>1, <2>2, <2>3 DEF NotificationSend, TypeInv, TypeOK, Delivered, ReaderAt,
                                    setVars, appVars
    <2>4. CASE request # "waiting"
      <3>1. buffer' \in Seq(Note) /\ Len(buffer') <= Capacity
        <4>1. CASE Len(buffer) < Capacity
          <5>1. buffer' = Append(buffer, callout[c])
            BY <1>2, <2>4, <4>1 DEF NotificationSend
          <5> QED
            BY <2>1, <4>1, <5>1, CapacityAssumption DEF TypeInv, TypeOK
        <4>2. CASE ~(Len(buffer) < Capacity)
          BY <1>2, <2>4, <4>2 DEF NotificationSend, TypeInv, TypeOK
        <4> QED
          BY <4>1, <4>2
      <3> QED
        BY <1>2, <2>2, <2>4, <3>1 DEF NotificationSend, TypeInv, TypeOK, Delivered, ReaderAt,
                                      setVars, appVars
    <2> QED
      BY <2>3, <2>4
  <1> QED
    BY <1>1, <1>2 DEF Driver

\* The types of what setranges changes.
RangesRec == [hits : SUBSET Addrs, buf : Buffers, sid : Ids]
SetRec    == [pc : SetPc, hits : SUBSET Addrs, buf : Buffers, tmp : Ids]

SetTypes == /\ drv \in [Lists -> RangesRec]
            /\ sid \in [Lists -> Ids]
            /\ labels \in [Lists -> Buffers]
            /\ set \in [Setters -> SetRec]
            /\ used \in Buffers

\* A step that only changes those keeps the types if it keeps theirs.
LEMMA SetFrame ==
    ASSUME TypeInv, SetTypes', UNCHANGED <<drvblock, callout, chanVars, mlock, appVars, reader>>
    PROVE  TypeInv'
  BY DEF TypeInv, TypeOK, Delivered, ReaderAt, SetTypes, RangesRec, SetRec, chanVars, appVars

\* A call of setranges gets a new state.
LEMMA SetEntry ==
    ASSUME SetTypes, NEW s \in Setters, NEW r \in SetRec, set' = [set EXCEPT ![s] = r]
    PROVE  set' \in [Setters -> SetRec]
  BY DEF SetTypes

LEMMA PendingFacts ==
    /\ IsFiniteSet(Setters) /\ IsFiniteSet(Pending) /\ Cardinality(Pending) \in Nat
    /\ Pending # {} => Cardinality(Pending) >= 1
  <1>1. IsFiniteSet(Setters)
    BY UpdatersAssumption, FS_AddElement DEF Setters
  <1>2. IsFiniteSet(Pending)
    BY <1>1, FS_Subset DEF Pending
  <1>3. Cardinality(Pending) \in Nat /\ (Pending # {} => Cardinality(Pending) # 0)
    BY <1>2, FS_CardinalityType, FS_EmptySet
  <1> QED
    BY <1>1, <1>2, <1>3

\* Ids stay within the calls: a call that may write an id counts until it has, or cannot.
LEMMA IdsNext ==
    ASSUME SetTypes, IdsInv, NEW s \in Setters,
           SetStep(s) \/ \E hits \in SUBSET Addrs : SetBuild(s, hits)
    PROVE  IdsInv'
  <1> DEFINE l == ListOf(s)
             n == Cardinality(Pending)
  <1>0. /\ l \in Lists /\ n \in Nat /\ IsFiniteSet(Pending)
        /\ \A k \in Lists : sid[k] \in Int
        /\ \A t \in Setters : set[t].tmp \in Int
        /\ used \in Int
    BY PendingFacts DEF ListOf, Lists, SetTypes, SetRec, Ids, Buffers
  <1>1. /\ \A k \in Lists : sid[k] + n <= used
        /\ \A t \in Setters : set[t].pc = "store" => set[t].tmp + n <= used
    BY DEF IdsInv
  <1>2. \A t \in Setters \ {s} : set'[t] = set[t]
    BY DEF SetStep, SetBuild, SetWrite, SetWriteFails, SetLoad, SetStore, SetSwap, SetReturn,
           SetTypes
  <1>3. CASE \E hits \in SUBSET Addrs : SetBuild(s, hits)
    <2>1. s \notin Pending /\ set'[s].pc = "write" /\ used' = used + 1 /\ sid' = sid
      BY <1>3 DEF SetBuild, Pending, SetTypes
    <2>2. Pending' = Pending \cup {s}
      BY <1>2, <2>1 DEF Pending
    <2>3. Cardinality(Pending') = n + 1
      BY <1>0, <2>1, <2>2, FS_AddElement
    <2> HIDE DEF n
    <2> QED
      BY <1>0, <1>1, <1>2, <2>1, <2>3 DEF IdsInv
  <1>4. CASE SetWrite(s)
    <2>1. s \in Pending /\ set'[s].pc = "load" /\ used' = used /\ sid' = sid
      BY <1>4 DEF SetWrite, Pending, SetTypes
    <2>2. Pending' = Pending
      BY <1>2, <2>1 DEF Pending
    <2> HIDE DEF n
    <2> QED
      BY <1>0, <1>1, <1>2, <2>1, <2>2 DEF IdsInv, n
  <1>5. CASE SetWriteFails(s)
    <2>1. s \in Pending /\ set'[s].pc = "return" /\ used' = used /\ sid' = sid
      BY <1>5 DEF SetWriteFails, Pending, SetTypes
    <2>2. Pending' = Pending \ {s}
      BY <1>2, <2>1 DEF Pending
    <2>3. Cardinality(Pending') = n - 1
      BY <1>0, <2>1, <2>2, FS_RemoveElement
    <2> HIDE DEF n
    <2> QED
      BY <1>0, <1>1, <1>2, <2>1, <2>3 DEF IdsInv
  <1>6. CASE SetLoad(s)
    <2>1. /\ s \in Pending /\ set'[s].pc = "store" /\ set'[s].tmp = sid[l]
          /\ used' = used /\ sid' = sid
      BY <1>6 DEF SetLoad, Pending, SetTypes
    <2>2. Pending' = Pending
      BY <1>2, <2>1 DEF Pending
    <2> HIDE DEF n, l
    <2> QED
      BY <1>0, <1>1, <1>2, <2>1, <2>2 DEF IdsInv, n
  <1>7. CASE SetStore(s)
    <2>1. /\ s \in Pending /\ set[s].pc = "store" /\ set'[s].pc = "swap" /\ used' = used
          /\ sid'[l] = set[s].tmp + 1 /\ \A k \in Lists \ {l} : sid'[k] = sid[k]
      BY <1>0, <1>7 DEF SetStore, Pending, SetTypes
    <2>2. Pending' = Pending \ {s}
      BY <1>2, <2>1 DEF Pending
    <2>3. Cardinality(Pending') = n - 1
      BY <1>0, <2>1, <2>2, FS_RemoveElement
    <2> HIDE DEF n, l
    <2> QED
      BY <1>0, <1>1, <1>2, <2>1, <2>3 DEF IdsInv
  <1>8. CASE SetSwap(s) \/ SetReturn(s)
    <2>1. s \notin Pending /\ used' = used /\ sid' = sid
      BY <1>8 DEF SetSwap, SetReturn, Pending
    <2>3. set'[s].pc \in {"return", "idle"}
      <3>1. CASE SetSwap(s)
        BY <3>1 DEF SetSwap, SetTypes, SetRec
      <3>2. CASE SetReturn(s)
        BY <3>2 DEF SetReturn, SetTypes, IdleSet
      <3> QED
        BY <1>8, <3>1, <3>2
    <2>2. Pending' = Pending
      BY <1>2, <2>1, <2>3 DEF Pending
    <2> HIDE DEF n
    <2> QED
      BY <1>0, <1>1, <1>2, <2>1, <2>2, <2>3 DEF IdsInv, n
  <1> QED
    BY <1>3, <1>4, <1>5, <1>6, <1>7, <1>8 DEF SetStep

\* The steps of one call of setranges keep the types.
LEMMA SetStepType ==
    ASSUME SetTypes, IdsInv, NEW s \in Setters, SetStep(s)
    PROVE  SetTypes'
  <1> DEFINE l == ListOf(s)
  <1>0. l \in Lists
    BY DEF ListOf, Lists
  <1>1. /\ set[s] \in SetRec /\ set[s].hits \in SUBSET Addrs
        /\ set[s].buf \in Buffers /\ set[s].tmp \in Ids
    BY DEF SetTypes, SetRec
  <1>2. sid[l] \in Ids /\ labels[l] \in Buffers
    BY <1>0 DEF SetTypes
  <1>9. s \in Pending => sid[l] + 1 \in Ids /\ (set[s].pc = "store" => set[s].tmp + 1 \in Ids)
    BY <1>0, <1>1, <1>2, PendingFacts, MaxSetsAssumption DEF Ids, Buffers, IdsInv, SetTypes
  <1> HIDE DEF l
  <1>3. CASE SetWrite(s)
    <2> DEFINE r == [set[s] EXCEPT !.pc = "load", !.hits = {}]
    <2> DEFINE new == IF set[s].hits = {} THEN NoRanges
                      ELSE [hits |-> set[s].hits, buf |-> set[s].buf, sid |-> sid[l] + 1]
    <2>1. r \in SetRec /\ set' = [set EXCEPT ![s] = r]
      BY <1>1, <1>3 DEF SetWrite, SetRec, SetPc, SetTypes
    <2>2. new \in RangesRec
      <3>1. sid[l] + 1 \in Ids
        BY <1>3, <1>9 DEF SetWrite, Pending
      <3>2. 0 \in Ids /\ Null \in Buffers
        BY MaxSetsAssumption DEF Ids, Buffers, Null
      <3> QED
        BY <1>1, <3>1, <3>2 DEF RangesRec, NoRanges
    <2>3. drv' = [drv EXCEPT ![l] = new] \/ drv' = drv
      BY <1>3 DEF SetWrite, DriverSetRanges, l
    <2>4. UNCHANGED <<sid, labels, used>>
      BY <1>3 DEF SetWrite
    <2> HIDE DEF r, new
    <2>5. set' \in [Setters -> SetRec]
      BY <2>1, SetEntry
    <2>6. drv' \in [Lists -> RangesRec]
      BY <1>0, <2>2, <2>3 DEF SetTypes
    <2> QED
      BY <2>4, <2>5, <2>6 DEF SetTypes
  <1>4. CASE SetWriteFails(s)
    <2> DEFINE r == [set[s] EXCEPT !.pc = "return"]
    <2>1. r \in SetRec /\ set' = [set EXCEPT ![s] = r]
      BY <1>1, <1>4 DEF SetWriteFails, SetRec, SetPc, SetTypes
    <2>2. UNCHANGED <<drv, sid, labels, used>>
      BY <1>4 DEF SetWriteFails, drvVars
    <2> HIDE DEF r
    <2> QED
      BY <2>1, <2>2, SetEntry DEF SetTypes
  <1>5. CASE SetLoad(s)
    <2> DEFINE r == [set[s] EXCEPT !.pc = "store", !.tmp = sid[l]]
    <2>1. r \in SetRec /\ set' = [set EXCEPT ![s] = r]
      BY <1>1, <1>2, <1>5 DEF SetLoad, SetRec, SetPc, SetTypes, l
    <2>2. UNCHANGED <<drv, sid, labels, used>>
      BY <1>5 DEF SetLoad, drvVars
    <2> HIDE DEF r
    <2> QED
      BY <2>1, <2>2, SetEntry DEF SetTypes
  <1>6. CASE SetStore(s)
    <2> DEFINE r == [set[s] EXCEPT !.pc = "swap", !.tmp = 0]
    <2>1. r \in SetRec /\ set' = [set EXCEPT ![s] = r]
      <3>1. 0 \in Ids
        BY MaxSetsAssumption DEF Ids
      <3> QED
        BY <1>1, <1>6, <3>1 DEF SetStore, SetRec, SetPc, SetTypes
    <2>2. sid' = [sid EXCEPT ![l] = set[s].tmp + 1] /\ UNCHANGED <<drv, labels, used>>
      BY <1>6 DEF SetStore, drvVars, l
    <2>3. sid' \in [Lists -> Ids]
      <3>1. set[s].tmp + 1 \in Ids
        BY <1>6, <1>9 DEF SetStore, Pending
      <3> QED
        BY <1>0, <2>2, <3>1 DEF SetTypes
    <2> HIDE DEF r
    <2> QED
      BY <2>1, <2>2, <2>3, SetEntry DEF SetTypes
  <1>7. CASE SetSwap(s)
    <2> DEFINE r == [set[s] EXCEPT !.pc = "return", !.buf = labels[l]]
    <2>1. r \in SetRec /\ set' = [set EXCEPT ![s] = r]
      BY <1>1, <1>2, <1>7 DEF SetSwap, SetRec, SetPc, SetTypes, l
    <2>2. labels' = [labels EXCEPT ![l] = set[s].buf] /\ UNCHANGED <<drv, sid, used>>
      BY <1>7 DEF SetSwap, drvVars, l
    <2>3. labels' \in [Lists -> Buffers]
      BY <1>0, <1>1, <2>2 DEF SetTypes
    <2> HIDE DEF r
    <2> QED
      BY <2>1, <2>2, <2>3, SetEntry DEF SetTypes
  <1>8. CASE SetReturn(s)
    <2>1. IdleSet \in SetRec /\ set' = [set EXCEPT ![s] = IdleSet]
      BY <1>8, MaxSetsAssumption DEF SetReturn, SetRec, SetPc, IdleSet, Buffers, Null, Ids
    <2>2. UNCHANGED <<drv, sid, labels, used>>
      BY <1>8 DEF SetReturn, drvVars
    <2> HIDE DEF IdleSet
    <2> QED
      BY <2>1, <2>2, SetEntry DEF SetTypes
  <1> QED
    BY <1>3, <1>4, <1>5, <1>6, <1>7, <1>8 DEF SetStep

\* Every step of setranges keeps the types.
LEMMA SetRangesType ==
    ASSUME TypeInv, IdsInv, SetRanges
    PROVE  TypeInv' /\ IdsInv'
  <1>0. SetTypes
    BY DEF TypeInv, TypeOK, SetTypes, RangesRec, SetRec
  <1>1. ASSUME NEW s \in Setters, NEW hits \in SUBSET Addrs, SetBuild(s, hits)
        PROVE  TypeInv' /\ IdsInv'
    <2> DEFINE r == [pc |-> "write", hits |-> hits, buf |-> used + 1, tmp |-> 0]
    <2>1. used + 1 \in Buffers
      BY <1>0, <1>1, MaxSetsAssumption DEF SetBuild, SetTypes, Buffers
    <2>2. r \in SetRec /\ set' = [set EXCEPT ![s] = r]
      BY <1>1, <2>1, MaxSetsAssumption DEF SetBuild, SetRec, SetPc, Ids
    <2>3. UNCHANGED <<drv, sid, labels>> /\ used' = used + 1
      BY <1>1 DEF SetBuild, drvVars
    <2> HIDE DEF r
    <2>4. SetTypes'
      BY <1>0, <2>1, <2>2, <2>3, SetEntry DEF SetTypes
    <2>5. IdsInv'
      BY <1>0, <1>1, IdsNext
    <2> QED
      BY <1>1, <2>4, <2>5, SetFrame DEF SetBuild, drvVars
  <1>2. ASSUME NEW s \in Setters, SetStep(s) PROVE TypeInv' /\ IdsInv'
    <2>1. SetTypes' /\ IdsInv'
      BY <1>0, <1>2, SetStepType, IdsNext
    <2>2. UNCHANGED <<drvblock, callout, chanVars, mlock, appVars, reader>>
      BY <1>2 DEF SetStep, SetWrite, SetWriteFails, SetLoad, SetStore, SetSwap, SetReturn,
                  drvVars
    <2> QED
      BY <2>1, <2>2, SetFrame
  <1> QED
    BY <1>1, <1>2 DEF SetRanges

\* Every step of the UI thread keeps the types.
LEMMA UiType ==
    ASSUME TypeInv, Ui
    PROVE  TypeInv'
  <1> USE MaxSetsAssumption DEF TypeInv, TypeOK, Delivered, ReaderAt,
                                drvVars, chanVars, setVars, appVars
  <1>1. ASSUME NEW b \in BOOLEAN, SetBlock(b) PROVE TypeInv'
    BY <1>1 DEF SetBlock, DriverHook
  <1>2. CASE OpenLog
    BY <1>2 DEF OpenLog, UiPc
  <1>4. CASE SetActionFunc
    BY <1>4 DEF SetActionFunc, UiPc
  <1>5. CASE DestroyLog
    BY <1>5 DEF DestroyLog, UiPc
  <1>6. CASE ClearActionFunc
    BY <1>6 DEF ClearActionFunc, UiPc
  <1>7. CASE StopThread
    BY <1>7 DEF StopThread, UiPc
  <1>3. CASE CloseFilter
    <2>1. drv' \in [Lists -> [hits : SUBSET Addrs, buf : Buffers, sid : Ids]]
      BY <1>3 DEF CloseFilter, DriverCleanup, NoRanges, Buffers, Null, Ids
    <2>2. buffer' = <<>>
      BY <1>3 DEF CloseFilter, DriverCleanup
    <2>3. buffer' \in Seq(Note) /\ Len(buffer') <= Capacity
      BY <2>2, CapacityAssumption
    <2>4. labels' \in [Lists -> Buffers]
      BY <1>3 DEF CloseFilter, Buffers, Null
    <2>5. ui' \in UiPc /\ drvblock' \in BOOLEAN
      BY <1>3 DEF CloseFilter, DriverCleanup, DriverHook, UiPc
    <2> QED
      BY <1>3, <2>1, <2>3, <2>4, <2>5 DEF CloseFilter
  <1> QED
    BY <1>1, <1>2, <1>3, <1>4, <1>5, <1>6, <1>7 DEF Ui, Window

\* Every step of thread_func keeps the types.
LEMMA ReaderType ==
    ASSUME TypeInv, Reader
    PROVE  TypeInv'
  <1> USE MaxSetsAssumption, NoneAssumption
      DEF TypeInv, TypeOK, Delivered, ReaderAt, ReaderGoto, ReaderPc,
          drvVars, chanVars, setVars, appVars
  <1>1. CASE ReadNotification
    <2>1. CASE buffer = <<>>
      BY <1>1, <2>1 DEF ReadNotification
    <2>2. CASE buffer # <<>>
      <3>1. /\ Head(buffer) \in Note
            /\ Tail(buffer) \in Seq(Note)
            /\ Len(Tail(buffer)) <= Capacity
        BY <2>2, CapacityAssumption
      <3> QED
        BY <1>1, <2>2, <3>1 DEF ReadNotification
    <2> QED
      BY <2>1, <2>2
  <1>2. CASE ReadFails
    <2>1. CASE ReaderGoto("wait")
      BY <1>2, <2>1 DEF ReadFails
    <2>2. CASE ReaderGoto("done")
      BY <1>2, <2>2 DEF ReadFails
    <2> QED
      BY <1>2, <2>1, <2>2 DEF ReadFails
  <1>7. CASE WaitExit
    BY <1>7 DEF WaitExit
  <1>13. CASE Cancelled
    BY <1>13 DEF Cancelled
  <1>8. CASE LoopExit
    BY <1>8 DEF LoopExit
  <1>3. CASE GetResult
    BY <1>3 DEF GetResult, Buffers, Null
  <1>4. CASE CheckLabel
    <2>1. reader.note \in Note
      BY <1>4 DEF CheckLabel
    <2>2. reader.note.label \in Buffers /\ Null \in Buffers
      BY <2>1 DEF Note, Buffers, Null
    <2> QED
      BY <1>4, <2>1, <2>2 DEF CheckLabel
  <1>5. CASE ShowMessage
    BY <1>5 DEF ShowMessage
  <1>9. CASE DoNotShow
    <2>1. CASE ReaderGoto("store")
      BY <1>9, <2>1 DEF DoNotShow
    <2>2. CASE ReaderGoto("unlock")
      BY <1>9, <2>2 DEF DoNotShow
    <2> QED
      BY <1>9, <2>1, <2>2 DEF DoNotShow
  <1>10. CASE CopyLabel
    <2>1. reader' \in [pc : ReaderPc, note : Note \cup {None}, label : Buffers]
      <3>1. (IF onaction THEN "show" ELSE "unlock") \in ReaderPc
        OBVIOUS
      <3>2. Null \in Buffers
        BY DEF Buffers, Null
      <3> QED
        BY <1>10, <3>1, <3>2 DEF CopyLabel
    <2>2. reader'.pc # "lock"
      <3>1. reader'.pc = IF onaction THEN "show" ELSE "unlock"
        BY <1>10 DEF CopyLabel
      <3> QED
        BY <3>1
    <2> QED
      BY <1>10, <2>1, <2>2 DEF CopyLabel
  <1>14. CASE GetResultFails
    <2>1. CASE ReaderGoto("loop")
      BY <1>14, <2>1 DEF GetResultFails
    <2>2. CASE ReaderGoto("done")
      BY <1>14, <2>2 DEF GetResultFails
    <2> QED
      BY <1>14, <2>1, <2>2 DEF GetResultFails
  <1>11. CASE InsertMessage
    <2>1. CASE ReaderGoto("store")
      <3>1. UNCHANGED <<drvVars, chanVars, setVars, mlock, appVars>>
        BY <1>11 DEF InsertMessage
      <3> QED
        BY <2>1, <3>1
    <2>2. CASE ReaderGoto("unlock")
      <3>1. UNCHANGED <<drvVars, chanVars, setVars, mlock, appVars>>
        BY <1>11 DEF InsertMessage
      <3> QED
        BY <2>2, <3>1
    <2> QED
      BY <1>11, <2>1, <2>2 DEF InsertMessage
  <1>12. CASE StoreAction
    BY <1>12 DEF StoreAction
  <1>6. CASE ReleaseLock
    BY <1>6 DEF ReleaseLock, Buffers, Null
  <1> QED
    BY <1>1, <1>2, <1>3, <1>4, <1>5, <1>6, <1>7, <1>8, <1>9, <1>10, <1>11, <1>12,
       <1>13, <1>14 DEF Reader

\* The initial state has the types.
LEMMA InitType == Init => TypeInv
  <1> SUFFICES ASSUME Init PROVE TypeInv
    OBVIOUS
  <1>1. buffer \in Seq(Note) /\ Len(buffer) <= Capacity
    BY CapacityAssumption DEF Init
  <1>2. Null \in Buffers /\ 0 \in Ids
    BY MaxSetsAssumption DEF Buffers, Null, Ids
  <1>3. drv \in [Lists -> [hits : SUBSET Addrs, buf : Buffers, sid : Ids]]
    BY <1>2 DEF Init, NoRanges
  <1>4. set \in [Setters -> [pc : SetPc, hits : SUBSET Addrs, buf : Buffers, tmp : Ids]]
    BY <1>2 DEF Init, IdleSet, SetPc
  <1>5. reader \in [pc : ReaderPc, note : Note \cup {None}, label : Buffers]
    BY <1>2 DEF Init, ReaderPc
  <1>6. labels \in [Lists -> Buffers] /\ used \in Buffers
    BY <1>2 DEF Init, Null
  <1>7. sid \in [Lists -> Ids]
    BY <1>2 DEF Init
  <1>8. Delivered
    BY DEF Init, Delivered, ReaderAt
  <1> QED
    BY <1>1, <1>3, <1>4, <1>5, <1>6, <1>7, <1>8 DEF Init, TypeInv, TypeOK, UiPc

\* Type correctness: in particular the driver queues at most Capacity notifications, and
\* every label pointer is one that setranges laid out.
THEOREM TypeCorrect == Spec => []TypeOK
  <1>0. Init => IdsInv
    <2> SUFFICES ASSUME Init PROVE IdsInv
      OBVIOUS
    <2>1. Pending = {} /\ \A s \in Setters : set[s].pc # "store"
      BY DEF Init, Pending, IdleSet
    <2> QED
      BY <2>1, FS_EmptySet DEF Init, IdsInv
  <1>1. TypeInv /\ IdsInv /\ [Next]_vars => TypeInv' /\ IdsInv'
    <2> SUFFICES ASSUME TypeInv, IdsInv, [Next]_vars PROVE TypeInv' /\ IdsInv'
      OBVIOUS
    <2>1. CASE Next
      <3>1. CASE SetRanges
        BY <3>1, SetRangesType
      <3>2. CASE Driver \/ Ui \/ Reader
        <4>1. UNCHANGED <<sid, set, used>>
          BY <3>2 DEF Driver, Classify, NotificationSend, Ui, Window, SetBlock, OpenLog,
                      SetActionFunc, DestroyLog, ClearActionFunc, StopThread, CloseFilter,
                      Reader, ReadNotification, ReadFails, WaitExit, Cancelled, LoopExit,
                      GetResult, GetResultFails, CheckLabel, CopyLabel, ShowMessage, DoNotShow,
                      InsertMessage, StoreAction, ReleaseLock, setVars
        <4> QED
          BY <3>2, <4>1, DriverType, UiType, ReaderType DEF IdsInv, Pending
      <3> QED
        BY <2>1, <3>1, <3>2 DEF Next
    <2>2. CASE UNCHANGED vars
      <3>1. TypeInv'
        BY <2>2 DEF TypeInv, TypeOK, Delivered, ReaderAt, vars, drvVars, chanVars, setVars, appVars
      <3>2. IdsInv'
        BY <2>2 DEF IdsInv, Pending, vars, setVars
      <3> QED
        BY <3>1, <3>2
    <2> QED
      BY <2>1, <2>2
  <1>2. TypeInv => TypeOK
    BY DEF TypeInv
  <1> QED
    BY <1>0, <1>1, <1>2, InitType, PTL DEF Spec

-----------------------------------------------------------------------------
(* The callback *)

\* thread_func is in the section it guards by m_lock.
InCallback == reader.pc \in {"copy", "show", "insert", "store", "unlock"}

\* m_lock is held exactly while thread_func is in that section, which it enters for a
\* callback only while m_onaction is set; m_onaction is set only while g_log is there.
LockHeld == InCallback => mlock = "reader"
ActionLives == /\ onaction => log = "alive"
               /\ ui \in {"setfunc", "clearfunc"} => log = "alive"
               /\ CallbackAlive

CallbackInv == LockHeld /\ ActionLives

\* Steps that leave m_lock, m_onaction, g_log, the UI thread and thread_func alone.
LEMMA CallbackFrame ==
    ASSUME CallbackInv, UNCHANGED <<mlock, onaction, log, ui, reader>>
    PROVE  CallbackInv'
  BY DEF CallbackInv, LockHeld, InCallback, ActionLives, CallbackAlive

\* The window's steps keep the invariant: g_log goes only when m_lock is free.
LEMMA CallbackUi ==
    ASSUME CallbackInv, Ui
    PROVE  CallbackInv'
  <1> USE NoneAssumption DEF CallbackInv, LockHeld, InCallback, ActionLives, CallbackAlive
  <1>1. ASSUME NEW b \in BOOLEAN, SetBlock(b) PROVE CallbackInv'
    BY <1>1 DEF SetBlock
  <1>2. CASE OpenLog
    BY <1>2 DEF OpenLog, appVars
  <1>3. CASE SetActionFunc
    BY <1>3 DEF SetActionFunc
  <1>4. CASE DestroyLog
    BY <1>4 DEF DestroyLog
  <1>5. CASE ClearActionFunc
    BY <1>5 DEF ClearActionFunc
  <1>6. CASE StopThread
    BY <1>6 DEF StopThread
  <1>7. CASE CloseFilter
    BY <1>7 DEF CloseFilter
  <1> QED
    BY <1>1, <1>2, <1>3, <1>4, <1>5, <1>6, <1>7 DEF Ui, Window

\* thread_func's steps keep the invariant: it calls m_onaction under m_lock.
LEMMA CallbackReader ==
    ASSUME TypeOK, CallbackInv, Reader
    PROVE  CallbackInv'
  <1> USE NoneAssumption DEF CallbackInv, LockHeld, InCallback, ActionLives, CallbackAlive,
                             ReaderAt, ReaderGoto, appVars
  <1>0. reader \in [pc : ReaderPc, note : Note \cup {None}, label : Buffers]
    BY DEF TypeOK
  <1>1. CASE ReadNotification
    BY <1>0, <1>1 DEF ReadNotification
  <1>2. CASE ReadFails
    BY <1>0, <1>2 DEF ReadFails
  <1>3. CASE WaitExit
    BY <1>0, <1>3 DEF WaitExit
  <1>13. CASE Cancelled
    BY <1>0, <1>13 DEF Cancelled
  <1>4. CASE LoopExit
    BY <1>0, <1>4 DEF LoopExit
  <1>5. CASE GetResult
    BY <1>0, <1>5 DEF GetResult
  <1>14. CASE GetResultFails
    <2>1. UNCHANGED <<mlock, onaction, log, ui>> /\ reader'.pc \in {"loop", "done"}
      BY <1>0, <1>14 DEF GetResultFails
    <2> QED
      BY <2>1
  <1>6. CASE CheckLabel
    BY <1>0, <1>6 DEF CheckLabel
  <1>7. CASE ShowMessage
    BY <1>0, <1>7 DEF ShowMessage
  <1>8. CASE DoNotShow
    BY <1>0, <1>8 DEF DoNotShow
  <1>9. CASE CopyLabel
    BY <1>0, <1>9 DEF CopyLabel
  <1>10. CASE InsertMessage
    BY <1>0, <1>10 DEF InsertMessage
  <1>11. CASE StoreAction
    BY <1>0, <1>11 DEF StoreAction
  <1>12. CASE ReleaseLock
    BY <1>0, <1>12 DEF ReleaseLock
  <1> QED
    BY <1>1, <1>2, <1>3, <1>4, <1>5, <1>6, <1>7, <1>8, <1>9, <1>10, <1>11, <1>12,
       <1>13, <1>14 DEF Reader

\* m_onaction never runs on a LogFilterAction that is gone: Log_OnDestroy gets m_lock, and
\* clears m_onaction, before it destroys g_log.
THEOREM CallbackSafe == Spec => []CallbackAlive
  <1>1. Init => CallbackInv
    BY DEF Init, CallbackInv, LockHeld, InCallback, ActionLives, CallbackAlive
  <1>2. TypeOK /\ CallbackInv /\ [Next]_vars => CallbackInv'
    <2> SUFFICES ASSUME TypeOK, CallbackInv, [Next]_vars PROVE CallbackInv'
      OBVIOUS
    <2>1. CASE Driver
      <3>1. UNCHANGED <<mlock, onaction, log, ui, reader>>
        BY <2>1 DEF Driver, Classify, NotificationSend, appVars
      <3> QED
        BY <3>1, CallbackFrame
    <2>2. CASE SetRanges
      <3>1. UNCHANGED <<mlock, onaction, log, ui, reader>>
        BY <2>2 DEF SetRanges, SetStep, SetBuild, SetWrite, SetWriteFails, SetLoad, SetStore,
                    SetSwap, SetReturn, appVars
      <3> QED
        BY <3>1, CallbackFrame
    <2>3. CASE Ui
      BY <2>3, CallbackUi
    <2>4. CASE Reader
      BY <2>4, CallbackReader
    <2>5. CASE UNCHANGED vars
      BY <2>5, CallbackFrame DEF vars, appVars
    <2> QED
      BY <2>1, <2>2, <2>3, <2>4, <2>5 DEF Next
  <1>3. CallbackInv => CallbackAlive
    BY DEF CallbackInv, ActionLives
  <1> QED
    BY <1>1, <1>2, <1>3, TypeCorrect, PTL DEF Spec

-----------------------------------------------------------------------------
(* The labels of the block list *)

\* The labels that a notification with the current id names, and the newest id given to
\* the driver: between SetStore and SetSwap the id is ahead of m_blocklabels, between
\* SetWrite and SetStore the driver is ahead of the id.
Current == IF set["ui"].pc = "swap" THEN set["ui"].buf ELSE labels["block"]
Issued  == IF set["ui"].pc \in {"load", "store"} THEN sid["block"] + 1 ELSE sid["block"]

\* What holds of an id and a pointer that the driver stores or that are in flight.
Named(id, b) ==
    /\ id <= Issued
    /\ id = sid["block"] => b = Current
    /\ id = sid["block"] + 1 => b = set["ui"].buf

NoteNamed(n) == n # None /\ n.action = "block" /\ n.label # Null => Named(n.sid, n.label)

DriverNamed  == drv["block"].buf # Null => Named(drv["block"].sid, drv["block"].buf)
CalloutNamed == \A c \in Cpus : NoteNamed(callout[c])
BufferNamed  == \A k \in 1 .. Len(buffer) : NoteNamed(buffer[k])
PbnNamed     == NoteNamed(pbn)
ReaderNamed  == ReaderAt("lock") => NoteNamed(reader.note)
LoadedId     == set["ui"].pc = "store" => set["ui"].tmp = sid["block"]

LabelsInv == ui # "gone" => /\ LoadedId /\ DriverNamed /\ CalloutNamed
                            /\ BufferNamed /\ PbnNamed /\ ReaderNamed

\* Ids can be compared.
LEMMA IdsNat == Ids \subseteq Nat
  BY MaxSetsAssumption DEF Ids

\* Lists are exchanged for one list by one thread: the block list by the UI thread.
LEMMA BlockSetter ==
    ASSUME NEW s \in Setters
    PROVE  (s = "ui" <=> ListOf(s) = "block") /\ ListOf(s) \in Lists
  BY UpdatersAssumption DEF ListOf, Setters, Lists

\* What is in flight stays named when the id, the labels, the UI thread's call of setranges
\* and the driver's entry for the block list do.
LEMMA NoteFrame ==
    ASSUME UNCHANGED <<sid["block"], labels["block"], set["ui"]>>, NEW id, NEW b, Named(id, b)
    PROVE  Named(id, b)'
  BY DEF Named, Issued, Current

\* Classify callouts pick up the driver's entry; Notification_Send moves it on.
LEMMA LabelsDriver ==
    ASSUME TypeOK, LabelsInv, ui # "gone", Driver
    PROVE  LabelsInv'
  <1> USE DEF LabelsInv, CalloutNamed, BufferNamed, PbnNamed, ReaderNamed, DriverNamed,
              LoadedId, NoteNamed, ReaderAt
  <1>1. ASSUME NEW c \in Cpus, NEW a \in Addrs, Classify(c, a) PROVE LabelsInv'
    <2>1. UNCHANGED <<drv, buffer, pbn, sid, labels, set, ui, reader>>
      BY <1>1 DEF Classify, chanVars, setVars, appVars
    <2>2. \A id, b : Named(id, b) => Named(id, b)'
      BY <2>1, NoteFrame
    <2>3. NoteNamed(CheckRanges(a)) /\ NoteNamed(NoMatch)
      BY DEF CheckRanges, NoMatch, Null, Lists
    <2>4. \A d \in Cpus : callout'[d] \in {callout[d], CheckRanges(a), NoMatch}
      BY <1>1 DEF Classify, TypeOK
    <2>5. \A d \in Cpus : NoteNamed(callout'[d])
      BY <2>3, <2>4
    <2> HIDE DEF Named
    <2> QED
      BY <2>1, <2>2, <2>5
  <1>2. ASSUME NEW c \in Cpus, NotificationSend(c) PROVE LabelsInv'
    <2>1. UNCHANGED <<drv, sid, labels, set, ui, reader>>
      BY <1>2 DEF NotificationSend, setVars, appVars
    <2>2. \A id, b : Named(id, b) => Named(id, b)'
      BY <2>1, NoteFrame
    <2>3. NoteNamed(callout[c]) /\ (pbn' = pbn \/ pbn' = callout[c])
      BY <1>2 DEF NotificationSend
    <2>4. buffer \in Seq(Note) /\ callout[c] \in Note
      BY <1>2 DEF NotificationSend, TypeOK
    <2>5. buffer' = buffer \/ buffer' = Append(buffer, callout[c])
      BY <1>2 DEF NotificationSend
    <2>6. \A k \in 1 .. Len(buffer') : NoteNamed(buffer'[k])
      <3>1. CASE buffer' = buffer
        BY <3>1
      <3>2. CASE buffer' = Append(buffer, callout[c])
        <4>1. /\ Len(buffer') = Len(buffer) + 1 /\ Len(buffer) \in Nat
              /\ \A k \in 1 .. Len(buffer) : buffer'[k] = buffer[k]
              /\ buffer'[Len(buffer) + 1] = callout[c]
          BY <2>4, <3>2
        <4> HIDE DEF NoteNamed
        <4> QED
          BY <2>3, <4>1
      <3> QED
        BY <2>5, <3>1, <3>2
    <2>7. \A d \in Cpus : callout'[d] \in {callout[d], None}
      BY <1>2 DEF NotificationSend, TypeOK
    <2> QED
      BY <2>1, <2>2, <2>3, <2>6, <2>7
  <1> QED
    BY <1>1, <1>2 DEF Driver

\* A call of setranges for the allow list touches nothing the invariant speaks of.
LEMMA LabelsAllow ==
    ASSUME TypeOK, LabelsInv, ui # "gone", NEW s \in Updaters, SetStep(s)
    PROVE  LabelsInv'
  <1>1. s # "ui" /\ ListOf(s) # "block" /\ "ui" \in Setters /\ "block" \in Lists
    BY UpdatersAssumption DEF ListOf, Setters, Lists
  <1>2. /\ drv \in [Lists -> [hits : SUBSET Addrs, buf : Buffers, sid : Ids]]
        /\ sid \in [Lists -> Ids]
        /\ labels \in [Lists -> Buffers]
        /\ set \in [Setters -> [pc : SetPc, hits : SUBSET Addrs, buf : Buffers, tmp : Ids]]
    BY DEF TypeOK
  <1>3. UNCHANGED <<drv["block"], sid["block"], labels["block"], set["ui"]>>
    BY <1>1, <1>2 DEF SetStep, SetWrite, SetWriteFails, SetLoad, SetStore, SetSwap, SetReturn,
                      DriverSetRanges, drvVars
  <1>4. UNCHANGED <<callout, buffer, pbn, ui, reader>>
    BY DEF SetStep, SetWrite, SetWriteFails, SetLoad, SetStore, SetSwap, SetReturn,
           drvVars, chanVars, appVars
  <1>5. \A id, b : Named(id, b) => Named(id, b)'
    BY <1>3, NoteFrame
  <1> QED
    BY <1>3, <1>4, <1>5
    DEF LabelsInv, CalloutNamed, BufferNamed, PbnNamed, ReaderNamed, DriverNamed, LoadedId,
        NoteNamed, ReaderAt

\* What is in flight stays named whenever every id and pointer does; the driver's entry
\* needs an argument of its own.
LEMMA LabelsStep ==
    ASSUME LabelsInv, ui # "gone", UNCHANGED <<callout, buffer, pbn, ui, reader>>,
           \A n \in Note : NoteNamed(n) => NoteNamed(n)', TypeOK, DriverNamed', LoadedId'
    PROVE  LabelsInv'
  <1>1. \A c \in Cpus : callout[c] = None \/ callout[c] \in Note
    BY DEF TypeOK
  <1>2. \A k \in 1 .. Len(buffer) : buffer[k] \in Note
    BY DEF TypeOK
  <1>3. pbn = None \/ pbn \in Note
    BY DEF TypeOK
  <1>4. reader.note = None \/ reader.note \in Note
    BY DEF TypeOK
  <1>5. \A n : (n = None \/ n \in Note) /\ NoteNamed(n) => NoteNamed(n)'
    BY DEF NoteNamed
  <1> HIDE DEF NoteNamed
  <1>6. CalloutNamed' /\ BufferNamed' /\ PbnNamed' /\ ReaderNamed'
    BY <1>1, <1>2, <1>3, <1>4, <1>5
    DEF LabelsInv, CalloutNamed, BufferNamed, PbnNamed, ReaderNamed, ReaderAt
  <1> QED
    BY <1>6 DEF LabelsInv

\* A call of setranges for the block list: after each of its steps an id that equals
\* m_blocklabelsid, or that the driver has ahead of it, still names the right labels.
LEMMA LabelsBlock ==
    ASSUME TypeOK, LabelsInv, ui # "gone", SetStep("ui")
    PROVE  LabelsInv'
  <1> DEFINE s == set["ui"]
  <1>1. "ui" \in Setters /\ "block" \in Lists /\ ListOf("ui") = "block"
    BY DEF ListOf, Setters, Lists
  <1>2. /\ drv \in [Lists -> [hits : SUBSET Addrs, buf : Buffers, sid : Ids]]
        /\ sid \in [Lists -> Ids] /\ sid["block"] \in Nat
        /\ labels \in [Lists -> Buffers]
        /\ set \in [Setters -> [pc : SetPc, hits : SUBSET Addrs, buf : Buffers, tmp : Ids]]
    BY <1>1, IdsNat DEF TypeOK
  <1>3. UNCHANGED <<callout, buffer, pbn, ui, reader>>
    BY DEF SetStep, SetWrite, SetWriteFails, SetLoad, SetStore, SetSwap, SetReturn,
           drvVars, chanVars, appVars
  <1>4. DriverNamed /\ LoadedId
    BY DEF LabelsInv
  <1>5. drv["block"].sid \in Nat /\ \A n \in Note : n.sid \in Nat
    BY <1>1, <1>2, IdsNat DEF Note
  <1>6. CASE SetWrite("ui")
    <2>1. /\ s.pc = "write" /\ set'["ui"].pc = "load" /\ set'["ui"].buf = s.buf
          /\ UNCHANGED <<sid, labels>>
      BY <1>1, <1>2, <1>6 DEF SetWrite
    <2>2. \/ drv'["block"] = drv["block"]
          \/ drv'["block"] = NoRanges
          \/ drv'["block"].buf = s.buf /\ drv'["block"].sid = sid["block"] + 1
      BY <1>1, <1>2, <1>6 DEF SetWrite, DriverSetRanges
    <2>3. \A id \in Nat : \A b : Named(id, b) => Named(id, b)'
      BY <1>2, <2>1 DEF Named, Issued, Current
    <2>4. DriverNamed'
      BY <1>2, <1>4, <1>5, <2>1, <2>2, <2>3
      DEF DriverNamed, Named, Issued, Current, NoRanges, Null
    <2> QED
      BY <1>3, <1>4, <1>5, <2>1, <2>3, <2>4, LabelsStep DEF NoteNamed, LoadedId
  <1>7. CASE SetWriteFails("ui")
    <2>1. /\ s.pc = "write" /\ set'["ui"].pc = "return" /\ set'["ui"].buf = s.buf
          /\ UNCHANGED <<drv, sid, labels>>
      BY <1>1, <1>2, <1>7 DEF SetWriteFails, drvVars
    <2>2. \A id \in Nat : \A b : Named(id, b) => Named(id, b)'
      BY <1>2, <2>1 DEF Named, Issued, Current
    <2> QED
      BY <1>3, <1>4, <1>5, <2>1, <2>2, LabelsStep DEF DriverNamed, NoteNamed, LoadedId
  <1>8. CASE SetLoad("ui")
    <2>1. /\ s.pc = "load" /\ set'["ui"].pc = "store" /\ set'["ui"].buf = s.buf
          /\ set'["ui"].tmp = sid["block"] /\ UNCHANGED <<drv, sid, labels>>
      BY <1>1, <1>2, <1>8 DEF SetLoad, drvVars
    <2>2. \A id \in Nat : \A b : Named(id, b) => Named(id, b)'
      BY <1>2, <2>1 DEF Named, Issued, Current
    <2> QED
      BY <1>3, <1>4, <1>5, <2>1, <2>2, LabelsStep DEF DriverNamed, NoteNamed, LoadedId
  <1>9. CASE SetStore("ui")
    <2>1. /\ s.pc = "store" /\ set'["ui"].pc = "swap" /\ set'["ui"].buf = s.buf
          /\ UNCHANGED <<drv, labels>>
      BY <1>1, <1>2, <1>9 DEF SetStore, drvVars
    <2>2. sid'["block"] = sid["block"] + 1
      BY <1>1, <1>2, <1>4, <1>9 DEF SetStore, LoadedId
    <2>3. \A id \in Nat : \A b : Named(id, b) => Named(id, b)'
      BY <1>2, <2>1, <2>2 DEF Named, Issued, Current
    <2> QED
      BY <1>3, <1>4, <1>5, <2>1, <2>3, LabelsStep DEF DriverNamed, NoteNamed, LoadedId
  <1>10. CASE SetSwap("ui")
    <2>1. /\ s.pc = "swap" /\ set'["ui"].pc = "return" /\ labels'["block"] = s.buf
          /\ UNCHANGED <<drv, sid>>
      BY <1>1, <1>2, <1>10 DEF SetSwap, drvVars
    <2>2. \A id \in Nat : \A b : Named(id, b) => Named(id, b)'
      BY <1>2, <2>1 DEF Named, Issued, Current
    <2> QED
      BY <1>3, <1>4, <1>5, <2>1, <2>2, LabelsStep DEF DriverNamed, NoteNamed, LoadedId
  <1>11. CASE SetReturn("ui")
    <2>1. /\ s.pc = "return" /\ set'["ui"].pc = "idle" /\ UNCHANGED <<drv, sid, labels>>
      BY <1>1, <1>2, <1>11 DEF SetReturn, IdleSet, drvVars
    <2>2. \A id \in Nat : \A b : Named(id, b) => Named(id, b)'
      BY <1>2, <2>1 DEF Named, Issued, Current
    <2> QED
      BY <1>3, <1>4, <1>5, <2>1, <2>2, LabelsStep DEF DriverNamed, NoteNamed, LoadedId
  <1> QED
    BY <1>6, <1>7, <1>8, <1>9, <1>10, <1>11 DEF SetStep

\* A call of setranges begins with labels nothing names yet.
LEMMA LabelsBuild ==
    ASSUME TypeOK, LabelsInv, ui # "gone", NEW s \in Setters, NEW hits \in SUBSET Addrs,
           SetBuild(s, hits)
    PROVE  LabelsInv'
  <1>1. "ui" \in Setters /\ "block" \in Lists
    BY DEF Setters, Lists
  <1>2. /\ set \in [Setters -> [pc : SetPc, hits : SUBSET Addrs, buf : Buffers, tmp : Ids]]
        /\ sid["block"] \in Nat /\ drv["block"].sid \in Nat
        /\ \A n \in Note : n.sid \in Nat
    BY <1>1, IdsNat DEF TypeOK, Note
  <1>3. UNCHANGED <<drv, callout, buffer, pbn, sid, labels, ui, reader>>
    BY DEF SetBuild, drvVars, chanVars, appVars
  <1>4. \/ set'["ui"] = set["ui"]
        \/ set["ui"].pc = "idle" /\ set'["ui"].pc = "write"
    BY <1>1, <1>2 DEF SetBuild
  <1>5. \A id \in Nat : \A b : Named(id, b) => Named(id, b)'
    BY <1>2, <1>3, <1>4 DEF Named, Issued, Current
  <1>6. DriverNamed /\ LoadedId
    BY DEF LabelsInv
  <1>7. DriverNamed'
    BY <1>2, <1>3, <1>5, <1>6 DEF DriverNamed
  <1>8. LoadedId'
    BY <1>3, <1>4, <1>6 DEF LoadedId
  <1>9. \A n \in Note : NoteNamed(n) => NoteNamed(n)'
    BY <1>2, <1>5 DEF NoteNamed
  <1> QED
    BY <1>3, <1>7, <1>8, <1>9, LabelsStep

\* The UI thread's other steps leave lists and notifications alone, or close the driver.
LEMMA LabelsUi ==
    ASSUME LabelsInv, ui # "gone", Ui
    PROVE  LabelsInv'
  <1>1. \/ ui' = "gone"
        \/ UNCHANGED <<drv, callout, buffer, pbn, sid, labels, set, reader>>
    BY DEF Ui, Window, SetBlock, OpenLog, SetActionFunc, DestroyLog, ClearActionFunc, StopThread,
           CloseFilter, drvVars, chanVars, setVars
  <1> QED
    BY <1>1
    DEF LabelsInv, CalloutNamed, BufferNamed, PbnNamed, ReaderNamed, DriverNamed, LoadedId,
        NoteNamed, ReaderAt, Named, Issued, Current

\* thread_func passes a notification from the queue to its comparison.
LEMMA LabelsReader ==
    ASSUME TypeOK, LabelsInv, ui # "gone", Reader
    PROVE  LabelsInv'
  <1>1. UNCHANGED <<drv, callout, sid, labels, set, ui>>
    BY DEF Reader, ReadNotification, ReadFails, WaitExit, Cancelled, LoopExit, GetResult,
           GetResultFails, CheckLabel, ShowMessage, DoNotShow, CopyLabel, InsertMessage, StoreAction, ReleaseLock,
           drvVars, setVars, appVars
  <1>2. \A id, b : Named(id, b) => Named(id, b)'
    BY <1>1, NoteFrame
  <1>3. \A n : NoteNamed(n) => NoteNamed(n)'
    BY <1>2 DEF NoteNamed
  <1>4. DriverNamed' /\ LoadedId' /\ CalloutNamed'
    BY <1>1, <1>2, <1>3 DEF LabelsInv, DriverNamed, LoadedId, CalloutNamed
  <1>5. BufferNamed /\ PbnNamed /\ ReaderNamed
    BY DEF LabelsInv
  <1>0. /\ reader \in [pc : ReaderPc, note : Note \cup {None}, label : Buffers]
        /\ buffer \in Seq(Note)
    BY DEF TypeOK
  <1> HIDE DEF NoteNamed
  <1>6. CASE ReadNotification
    <2>1. reader'.pc = "wait"
      BY <1>0, <1>6 DEF ReadNotification, ReaderGoto
    <2>2. CASE buffer = <<>>
      BY <1>3, <1>4, <1>5, <1>6, <2>1, <2>2
      DEF ReadNotification, LabelsInv, BufferNamed, PbnNamed, ReaderNamed, ReaderAt
    <2>3. CASE buffer # <<>>
      <3>1. /\ Len(buffer) \in Nat \ {0} /\ Len(Tail(buffer)) = Len(buffer) - 1
            /\ Head(buffer) = buffer[1]
            /\ \A k \in 1 .. Len(buffer) - 1 : Tail(buffer)[k] = buffer[k + 1]
        BY <1>0, <2>3
      <3>2. pbn' = buffer[1] /\ buffer' = Tail(buffer)
        BY <1>6, <2>3, <3>1 DEF ReadNotification
      <3>3. NoteNamed(buffer[1]) /\ \A k \in 1 .. Len(buffer) - 1 : NoteNamed(buffer[k + 1])
        BY <1>5, <3>1 DEF BufferNamed
      <3>4. BufferNamed'
        BY <1>3, <3>1, <3>2, <3>3 DEF BufferNamed
      <3>5. PbnNamed'
        BY <1>1, <3>2, <3>3 DEF PbnNamed, NoteNamed, Named, Issued, Current
      <3> QED
        BY <1>4, <2>1, <3>4, <3>5 DEF LabelsInv, ReaderNamed, ReaderAt
    <2> QED
      BY <2>2, <2>3
  <1>7. CASE GetResult
    <2>1. reader'.note = pbn /\ pbn' = None /\ buffer' = buffer
      BY <1>7 DEF GetResult
    <2>2. PbnNamed' /\ BufferNamed' /\ ReaderNamed'
      BY <1>3, <1>5, <2>1 DEF PbnNamed, BufferNamed, ReaderNamed, NoteNamed
    <2> QED
      BY <1>4, <2>2 DEF LabelsInv
  <1>9. CASE Cancelled \/ GetResultFails
    <2>1. reader'.pc # "lock" /\ pbn' = None /\ buffer' = buffer
      BY <1>0, <1>9 DEF Cancelled, GetResultFails, ReaderGoto
    <2>2. NoteNamed(None)
      BY DEF NoteNamed
    <2>3. PbnNamed' /\ BufferNamed' /\ ReaderNamed'
      BY <1>3, <1>5, <2>1, <2>2 DEF PbnNamed, BufferNamed, ReaderNamed, ReaderAt
    <2> QED
      BY <1>4, <2>3 DEF LabelsInv
  <1>8. CASE ~(ReadNotification \/ GetResult \/ GetResultFails \/ Cancelled)
    <2>1. UNCHANGED <<buffer, pbn>>
      BY <1>8 DEF Reader, ReadFails, WaitExit, LoopExit, CheckLabel, ShowMessage, DoNotShow,
                  CopyLabel, InsertMessage, StoreAction, ReleaseLock, chanVars
    <2>2. reader'.pc # "lock"
      <3>1. CASE ReadFails \/ LoopExit \/ WaitExit
        BY <1>0, <3>1 DEF ReadFails, LoopExit, WaitExit, ReaderGoto
      <3>2. CASE CheckLabel
        BY <1>0, <3>2 DEF CheckLabel
      <3>6. CASE CopyLabel
        <4>1. reader'.pc = IF onaction THEN "show" ELSE "unlock"
          BY <1>0, <3>6 DEF CopyLabel
        <4> QED
          BY <4>1
      <3>3. CASE ShowMessage \/ StoreAction \/ ReleaseLock
        BY <1>0, <3>3 DEF ShowMessage, StoreAction, ReleaseLock, ReaderGoto
      <3>4. CASE DoNotShow
        BY <1>0, <3>4 DEF DoNotShow, ReaderGoto
      <3>5. CASE InsertMessage
        BY <1>0, <3>5 DEF InsertMessage, ReaderGoto
      <3> QED
        BY <1>8, <3>1, <3>2, <3>3, <3>4, <3>5, <3>6 DEF Reader
    <2> QED
      BY <1>3, <1>4, <1>5, <2>1, <2>2
      DEF LabelsInv, BufferNamed, PbnNamed, ReaderNamed, ReaderAt
  <1> QED
    BY <1>6, <1>7, <1>8, <1>9

\* Once the program is gone it stays gone.
LEMMA GoneStays ==
    ASSUME ui = "gone", [Next]_vars
    PROVE  ui' = "gone"
  BY DEF Next, Driver, Classify, NotificationSend, SetRanges, SetBuild, SetStep, SetWrite,
         SetWriteFails, SetLoad, SetStore, SetSwap, SetReturn, Ui, Window, SetBlock, OpenLog,
         SetActionFunc, DestroyLog, ClearActionFunc, StopThread, CloseFilter, Reader,
         ReadNotification, ReadFails, WaitExit, Cancelled, LoopExit, GetResult,
         GetResultFails, CheckLabel, ShowMessage, DoNotShow, CopyLabel, InsertMessage, StoreAction,
         ReleaseLock, vars, appVars, Pumping

\* The comparison of ids is safe for the block list: whatever is in flight while lists are
\* exchanged, without m_lock and even if the driver keeps ranges whose labels the program
\* frees, a notification whose id equals m_blocklabelsid names labels that exist.
THEOREM LabelsSafe == Spec => []BlockLabelsLive
  <1>1. Init => LabelsInv
    <2> SUFFICES ASSUME Init PROVE LabelsInv
      OBVIOUS
    <2>1. drv["block"] = NoRanges /\ set["ui"] = IdleSet
      BY DEF Init, Lists, Setters
    <2> QED
      BY <2>1 DEF Init, LabelsInv, LoadedId, DriverNamed, CalloutNamed, BufferNamed, PbnNamed,
                  ReaderNamed, NoteNamed, ReaderAt, NoRanges, IdleSet
  <1>2. TypeOK /\ LabelsInv /\ [Next]_vars => LabelsInv'
    <2> SUFFICES ASSUME TypeOK, LabelsInv, [Next]_vars PROVE LabelsInv'
      OBVIOUS
    <2>1. CASE ui = "gone"
      BY <2>1, GoneStays DEF LabelsInv
    <2>2. CASE ui # "gone" /\ Driver
      BY <2>2, LabelsDriver
    <2>3. CASE ui # "gone" /\ SetRanges
      BY <2>3, LabelsBuild, LabelsAllow, LabelsBlock DEF SetRanges, Setters
    <2>4. CASE ui # "gone" /\ Ui
      BY <2>4, LabelsUi
    <2>5. CASE ui # "gone" /\ Reader
      BY <2>5, LabelsReader
    <2>6. CASE UNCHANGED vars
      BY <2>6 DEF vars, drvVars, chanVars, setVars, appVars, LabelsInv, LoadedId, DriverNamed,
                  CalloutNamed, BufferNamed, PbnNamed, ReaderNamed, NoteNamed, ReaderAt, Named,
                  Issued, Current
    <2> QED
      BY <2>1, <2>2, <2>3, <2>4, <2>5, <2>6 DEF Next
  <1>3. TypeOK /\ LabelsInv => BlockLabelsLive
    <2> SUFFICES ASSUME TypeOK, LabelsInv, ui # "gone", NEW n \in InFlight \ {None},
                        n.action = "block", Matches(n)
                 PROVE  n.label \in Live
      BY DEF BlockLabelsLive
    <2>1. NoteNamed(n)
      BY DEF InFlight, LabelsInv, CalloutNamed, BufferNamed, PbnNamed, ReaderNamed, ReaderAt
    <2>2. n.label = Current
      BY <2>1 DEF NoteNamed, Named, Matches
    <2> QED
      BY <2>2 DEF Current, Live, Lists, Setters
  <1> QED
    BY <1>1, <1>2, <1>3, TypeCorrect, PTL DEF Spec

-----------------------------------------------------------------------------
(* The channel *)

\* thread_func has at most one request: it is out only from the read to its result, and pbn
\* is filled only by an answer.
OneRequest == /\ ~ReaderAt("wait") /\ ~ReaderAt("exit") => request = "idle"
              /\ ReaderAt("exit") => request # "waiting"
              /\ request # "answered" => pbn = None

LEMMA OneRequestInit == Init => OneRequest
  BY DEF Init, OneRequest, ReaderAt

LEMMA OneRequestNext == TypeOK /\ OneRequest /\ [Next]_vars => OneRequest'
  <1> SUFFICES ASSUME TypeOK, OneRequest, [Next]_vars PROVE OneRequest'
    OBVIOUS
  <1> USE DEF OneRequest, ReaderAt
  <1>0. reader \in [pc : ReaderPc, note : Note \cup {None}, label : Buffers]
    BY DEF TypeOK
  <1>1. CASE UNCHANGED <<request, pbn, reader>>
    BY <1>1
  <1>2. CASE Driver
    BY <1>2 DEF Driver, Classify, NotificationSend, chanVars
  <1>3. CASE SetRanges \/ Ui \/ UNCHANGED vars
    <2>1. UNCHANGED <<request, pbn, reader>>
      BY <1>3 DEF SetRanges, SetStep, SetBuild, SetWrite, SetWriteFails, SetLoad, SetStore,
                  SetSwap, SetReturn, Ui, Window, SetBlock, OpenLog, SetActionFunc, DestroyLog,
                  ClearActionFunc, StopThread, CloseFilter, vars, chanVars
    <2> QED
      BY <1>1, <2>1
  <1>4. CASE Reader
    <2>1. CASE ReadNotification
      BY <1>0, <2>1 DEF ReadNotification, ReaderGoto
    <2>2. CASE ReadFails
      BY <1>0, <2>2 DEF ReadFails, ReaderGoto, chanVars
    <2>3. CASE WaitExit
      BY <1>0, <2>3 DEF WaitExit, ReaderGoto
    <2>4. CASE Cancelled
      BY <1>0, <2>4 DEF Cancelled, ReaderGoto
    <2>5. CASE LoopExit
      BY <1>0, <2>5 DEF LoopExit, ReaderGoto, chanVars
    <2>6. CASE GetResult
      BY <1>0, <2>6 DEF GetResult
    <2>8. CASE GetResultFails
      <3>1. request' = "idle" /\ pbn' = None /\ reader'.pc \in {"loop", "done"}
        BY <1>0, <2>8 DEF GetResultFails, ReaderGoto
      <3> QED
        BY <3>1
    <2>7. CASE CheckLabel \/ ShowMessage \/ DoNotShow \/ CopyLabel \/ InsertMessage
               \/ StoreAction \/ ReleaseLock
      <3>1. UNCHANGED <<request, pbn>> /\ request = "idle"
        BY <2>7 DEF CheckLabel, ShowMessage, DoNotShow, CopyLabel, InsertMessage, StoreAction,
                    ReleaseLock, chanVars
      <3> QED
        BY <3>1
    <2> QED
      BY <1>4, <2>1, <2>2, <2>3, <2>4, <2>5, <2>6, <2>7, <2>8 DEF Reader
  <1> QED
    BY <1>2, <1>3, <1>4 DEF Next

\* The channel's requests and queue, seen from here.
Requests == [i \in {"irp"} |-> request]
Answers  == [i \in {"irp"} |-> pbn]
Waiting  == IF request = "waiting" THEN <<"irp">> ELSE <<>>

LEMMA RequestsChange ==
    /\ \A r : [Requests EXCEPT !["irp"] = r] = [i \in {"irp"} |-> r]
    /\ \A n : [Answers EXCEPT !["irp"] = n] = [i \in {"irp"} |-> n]
  BY DEF Requests, Answers

\* A callout offers its notification.
LEMMA ChannelOffer ==
    ASSUME TypeOK, NEW c \in Cpus, NotificationSend(c)
    PROVE  Channel!Offer(callout[c]) \/ UNCHANGED <<buffer, Waiting, Requests, Answers>>
  <1>1. CASE request = "waiting"
    <2>1. request' = "answered" /\ pbn' = callout[c] /\ buffer' = buffer
      BY <1>1 DEF NotificationSend
    <2>2. Waiting = <<"irp">> /\ Waiting' = <<>>
      BY <1>1, <2>1 DEF Waiting
    <2>3. Waiting # <<>> /\ Head(Waiting) = "irp" /\ Tail(Waiting) = <<>>
      BY <2>2
    <2>4. /\ Requests' = [Requests EXCEPT !["irp"] = "answered"]
          /\ Answers' = [Answers EXCEPT !["irp"] = callout[c]]
      BY <2>1, RequestsChange DEF Requests, Answers
    <2> QED
      BY <2>1, <2>2, <2>3, <2>4 DEF Channel!Offer, Requests, Answers, Waiting
  <1>2. CASE request # "waiting"
    <2>1. UNCHANGED <<request, pbn>>
      BY <1>2 DEF NotificationSend
    <2>2. Waiting = <<>> /\ UNCHANGED <<Waiting, Requests, Answers>>
      BY <1>2, <2>1 DEF Waiting, Requests, Answers
    <2> QED
      BY <1>2, <2>2 DEF NotificationSend, Channel!Offer, Waiting, Requests, Answers
  <1> QED
    BY <1>1, <1>2

\* thread_func asks, gives up, and collects what became of its request.
LEMMA ChannelReader ==
    ASSUME TypeOK, OneRequest, Reader
    PROVE  \/ Channel!Ask("irp") \/ Channel!Collect("irp") \/ Channel!Withdraw
           \/ UNCHANGED <<buffer, Waiting, Requests, Answers>>
  <1>0. /\ reader \in [pc : ReaderPc, note : Note \cup {None}, label : Buffers]
        /\ request \in {"idle", "waiting", "answered", "withdrawn"}
    BY DEF TypeOK
  <1>1. CASE ReadNotification
    <2>1. request = "idle" /\ Waiting = <<>> /\ Requests["irp"] = "idle"
      BY <1>1 DEF ReadNotification, OneRequest, ReaderAt, Waiting, Requests
    <2>2. CASE buffer = <<>>
      <3>1. request' = "waiting" /\ UNCHANGED <<buffer, pbn>>
        BY <1>1, <2>2 DEF ReadNotification
      <3>2. Waiting' = Append(Waiting, "irp")
        BY <2>1, <3>1 DEF Waiting
      <3>3. Requests' = [Requests EXCEPT !["irp"] = "waiting"] /\ Answers' = Answers
        BY <3>1, RequestsChange DEF Requests, Answers
      <3> QED
        BY <2>1, <2>2, <3>1, <3>2, <3>3 DEF Channel!Ask, Waiting, Requests, Answers
    <2>3. CASE buffer # <<>>
      <3>1. request' = "answered" /\ pbn' = Head(buffer) /\ buffer' = Tail(buffer)
        BY <1>1, <2>3 DEF ReadNotification
      <3>2. Waiting' = Waiting
        BY <2>1, <3>1 DEF Waiting
      <3>3. /\ Requests' = [Requests EXCEPT !["irp"] = "answered"]
            /\ Answers' = [Answers EXCEPT !["irp"] = Head(buffer)]
        BY <3>1, RequestsChange DEF Requests, Answers
      <3> QED
        BY <2>1, <2>3, <3>1, <3>2, <3>3 DEF Channel!Ask, Waiting, Requests, Answers
    <2> QED
      BY <2>2, <2>3
  <1>2. CASE WaitExit
    <2>1. UNCHANGED <<buffer, pbn>> /\ Answers' = Answers
      BY <1>2 DEF WaitExit, Answers
    <2>2. CASE request = "waiting"
      <3>1. request' = "withdrawn"
        BY <1>2, <2>2 DEF WaitExit
      <3>2. Waiting = <<"irp">> /\ Waiting' = <<>>
        BY <2>2, <3>1 DEF Waiting
      <3>3. Len(Waiting) = 1 /\ 1 \in 1 .. Len(Waiting) /\ Waiting[1] = "irp"
        BY <3>2
      <3>4. Waiting' = Channel!Without(Waiting, 1)
        BY <3>2, <3>3 DEF Channel!Without
      <3>5. Requests' = [Requests EXCEPT ![Waiting[1]] = "withdrawn"]
        BY <3>1, <3>3, RequestsChange DEF Requests
      <3> QED
        BY <2>1, <3>3, <3>4, <3>5 DEF Channel!Withdraw, Waiting, Requests, Answers
    <2>3. CASE request # "waiting"
      BY <1>2, <2>1, <2>3 DEF WaitExit, Waiting, Requests
    <2> QED
      BY <2>2, <2>3
  <1>3. CASE Cancelled \/ GetResult \/ GetResultFails
    <2>1. request # "waiting" /\ request' = "idle" /\ pbn' = None /\ buffer' = buffer
      BY <1>3 DEF Cancelled, GetResult, GetResultFails, OneRequest, ReaderAt
    <2>2. Waiting' = Waiting
      BY <2>1 DEF Waiting
    <2>3. CASE request = "idle"
      BY <2>1, <2>2, <2>3 DEF OneRequest, Requests, Answers
    <2>4. CASE request # "idle"
      <3>1. Requests["irp"] \in Channel!Decided
        BY <1>0, <2>1, <2>4 DEF Requests, Channel!Decided
      <3>2. /\ Requests' = [Requests EXCEPT !["irp"] = "idle"]
            /\ Answers' = [Answers EXCEPT !["irp"] = None]
        BY <2>1, RequestsChange DEF Requests, Answers
      <3> QED
        BY <2>1, <2>2, <3>1, <3>2 DEF Channel!Collect, Waiting, Requests, Answers
    <2> QED
      BY <2>3, <2>4
  <1>4. CASE ~(ReadNotification \/ WaitExit \/ Cancelled \/ GetResult \/ GetResultFails)
    <2>1. UNCHANGED <<buffer, request, pbn>>
      BY <1>4 DEF Reader, ReadFails, LoopExit, CheckLabel, ShowMessage, DoNotShow, CopyLabel,
                  InsertMessage, StoreAction, ReleaseLock, chanVars
    <2> QED
      BY <2>1 DEF Waiting, Requests, Answers
  <1> QED
    BY <1>1, <1>2, <1>3, <1>4

\* The queue of this module is the channel that NotifyQueue is proved to implement: every
\* step of callouts, thread_func and the closing of the device is one of the channel's, or
\* none of its business.
THEOREM ClientChannel == Spec => ChannelSpec
  <1>1. Init => Channel!Init
    BY DEF Init, Channel!Init
  <1>2. TypeOK /\ OneRequest /\ [Next]_vars
           => [Channel!Next]_<<buffer, Waiting, Requests, Answers>>
    <2> SUFFICES ASSUME TypeOK, OneRequest, [Next]_vars
                 PROVE  Channel!Next \/ UNCHANGED <<buffer, Waiting, Requests, Answers>>
      OBVIOUS
    <2>1. CASE Driver
      <3>1. ASSUME NEW c \in Cpus, NotificationSend(c)
            PROVE  Channel!Next \/ UNCHANGED <<buffer, Waiting, Requests, Answers>>
        <4>1. callout[c] \in Note
          BY <3>1 DEF NotificationSend, TypeOK
        <4> QED
          BY <3>1, <4>1, ChannelOffer DEF Channel!Next
      <3>2. ASSUME NEW c \in Cpus, NEW a \in Addrs, Classify(c, a)
            PROVE  UNCHANGED <<buffer, Waiting, Requests, Answers>>
        BY <3>2 DEF Classify, chanVars, Waiting, Requests, Answers
      <3> QED
        BY <2>1, <3>1, <3>2 DEF Driver
    <2>2. CASE CloseFilter
      <3>1. buffer' = <<>> /\ UNCHANGED <<Waiting, Requests, Answers>>
        BY <2>2 DEF CloseFilter, DriverCleanup, Waiting, Requests, Answers
      <3> QED
        BY <3>1 DEF Channel!Next, Channel!Discard, Waiting, Requests, Answers
    <2>3. CASE SetRanges \/ (Ui /\ ~CloseFilter) \/ UNCHANGED vars
      <3>1. UNCHANGED <<buffer, request, pbn>>
        BY <2>3 DEF SetRanges, SetStep, SetBuild, SetWrite, SetWriteFails, SetLoad, SetStore,
                    SetSwap, SetReturn, Ui, Window, SetBlock, OpenLog, SetActionFunc,
                    DestroyLog, ClearActionFunc, StopThread, vars, chanVars
      <3> QED
        BY <3>1 DEF Waiting, Requests, Answers
    <2>4. CASE Reader
      BY <2>4, ChannelReader DEF Channel!Next
    <2> QED
      BY <2>1, <2>2, <2>3, <2>4 DEF Next
  <1> QED
    BY <1>1, <1>2, TypeCorrect, OneRequestInit, OneRequestNext, PTL
       DEF Spec, ChannelSpec, Channel!Spec, Channel!chanVars, Waiting, Requests, Answers
=============================================================================
