--------------------------- MODULE TempRulesProofs ---------------------------
(***************************************************************************)
(* Theorems about TempRules: its types, that what is allowed for a time    *)
(* passes until the time is over, and that HTTP is allowed as it was asked *)
(* for, for all addresses, times and mishaps.                              *)
(***************************************************************************)
EXTENDS TempRules, TLAPS

(***************************************************************************)
(* Types.  The rules, HTTP and the save are typed apart: an action changes *)
(* one of them or two.                                                     *)
(***************************************************************************)

RulesOK ==
    /\ now \in 0 .. MaxTime
    /\ allowlist \subseteq Rules /\ blocklist \subseteq Rules
    /\ tempallow \subseteq Addrs(allowlist) /\ tempblock \subseteq Addrs(blocklist)
    /\ passes \subseteq Addresses /\ again \subseteq Addresses
    /\ ui \in {"loop", "loading", "stopped"}

HttpOK ==
    /\ now \in 0 .. MaxTime
    /\ http \in BOOLEAN /\ temp \in {"no", "short", "long"} /\ timer \in {None} \cup 0 .. Horizon
    /\ due \in BOOLEAN /\ mishap \subseteq {"queued", "thread"}
    /\ asked \in {"block", "temp", "allow"}
    /\ saver \in {"idle", "block", "kill", "write"}
    /\ disk \in BOOLEAN /\ granted \in BOOLEAN

\* The addresses of rules are Addresses.
LEMMA AddrsOK ==
    ASSUME NEW L, L \subseteq Rules
    PROVE  Addrs(L) \subseteq Addresses
  BY DEF Addrs, Rules

LEMMA TypeParts == TypeOK <=> RulesOK /\ HttpOK
  BY AddrsOK DEF TypeOK, RulesOK, HttpOK

\* A rule made now ends before the horizon.
LEMMA RuleOK ==
    ASSUME now \in 0 .. MaxTime, NEW a \in Addresses, NEW d \in {Short, Long}
    PROVE  Rule(a, d) \in Rules
  BY RulesAssumption DEF Rule, Rules, Horizon

\* A list's addresses when a rule is added, and when the ended ones go.
LEMMA AddrsAdd ==
    ASSUME NEW L, NEW a, NEW d
    PROVE  Addrs(L \cup {Rule(a, d)}) = Addrs(L) \cup {a}
<1>1. Rule(a, d).addr = a
  BY DEF Rule
<1>2. QED
  BY <1>1 DEF Addrs

LEMMA AddrsWithout ==
    ASSUME NEW L, NEW T, T \subseteq Addrs(L)
    PROVE  Without(T, L) \subseteq Addrs(L \ Ended(L))
  BY DEF Addrs, Without, Ended

LEMMA InitTyped == Init => TypeOK
<1> SUFFICES ASSUME Init PROVE TypeOK
  OBVIOUS
<1>1. RulesOK
  BY RulesAssumption DEF Init, RulesOK
<1>2. now \in 0 .. MaxTime /\ timer \in {None} \cup 0 .. Horizon
  BY RulesAssumption DEF Init
<1>3. disk \in BOOLEAN /\ granted \in BOOLEAN
  BY DEF Init
<1>4. HttpOK
  BY <1>2, <1>3 DEF Init, HttpOK
<1>5. QED
  BY <1>1, <1>4, TypeParts

\* What an action does to HTTP that the UI thread does: the values stay in their types.
LEMMA InUiThreadTyped ==
    ASSUME HttpOK, NEW block \in BOOLEAN, NEW minutes \in {0, 15, 60}, InUiThread(block, minutes)
    PROVE  /\ http' \in BOOLEAN /\ temp' \in {"no", "short", "long"}
           /\ timer' \in {None} \cup 0 .. Horizon
           /\ mishap' \subseteq {"queued", "thread"}
<1>1. Units(minutes) \in Nat /\ Units(minutes) <= Short + Long
  BY RulesAssumption DEF Units
<1>2. timer' \in {None} \cup 0 .. Horizon
  BY <1>1, RulesAssumption DEF HttpOK, InUiThread, SetBlockHttp, Horizon
<1>3. QED
  BY <1>2 DEF HttpOK, InUiThread, SetBlockHttp, For, Notes

LEMMA UserTyped ==
    ASSUME HttpOK, NEW block \in BOOLEAN, NEW minutes \in {0, 15, 60}, UserHttp(block, minutes)
    PROVE  HttpOK'
<1>1. InUiThread(block, minutes)
  BY DEF UserHttp
<1>2. due' \in BOOLEAN
  BY DEF HttpOK, UserHttp, Queued
<1>3. asked' \in {"block", "temp", "allow"} /\ granted' \in BOOLEAN
  BY DEF HttpOK, UserHttp
<1>4. QED
  BY <1>1, <1>2, <1>3, InUiThreadTyped DEF HttpOK, UserHttp

\* The actions about HTTP are the user's, of a few kinds.
LEMMA UserKinds ==
    ASSUME HttpOK,
           TrayBlockHttp \/ ToggleHttp \/ \E m \in {15, 60} : TrayTempAllow(m)
    PROVE  \E block \in BOOLEAN, minutes \in {0, 15, 60} : UserHttp(block, minutes)
<1>1. CASE TrayBlockHttp
  <2> DEFINE b == IF temp = "no" THEN http ELSE FALSE
  <2>1. b \in BOOLEAN /\ UserHttp(b, 0)
    BY <1>1 DEF HttpOK, TrayBlockHttp
  <2>2. QED
    BY <2>1
<1>2. CASE ToggleHttp
  BY <1>2 DEF HttpOK, ToggleHttp
<1>3. CASE \E m \in {15, 60} : TrayTempAllow(m)
  <2>1. PICK m \in {15, 60} : TrayTempAllow(m)
    BY <1>3
  <2>2. UserHttp(FALSE, m) \/ UserHttp(TRUE, 0)
    BY <2>1 DEF TrayTempAllow
  <2>3. QED
    BY <2>2
<1>4. QED
  BY <1>1, <1>2, <1>3

LEMMA RulesTyped == RulesOK /\ [Next]_vars => RulesOK'
<1> SUFFICES ASSUME RulesOK, [Next]_vars PROVE RulesOK'
  OBVIOUS
<1> USE RulesAssumption
<1>0. tempallow \subseteq Addresses /\ Addrs(allowlist) \subseteq Addresses
  BY AddrsOK DEF RulesOK
<1>1. CASE Tick
  BY <1>1 DEF RulesOK, Tick, rules
<1>2. ASSUME NEW a \in Addresses, NEW d \in {Short, Long}, AllowFor(a, d) PROVE RulesOK'
  <2>1. Rule(a, d) \in Rules
    BY RuleOK DEF RulesOK
  <2>2. Addrs(allowlist') = Addrs(allowlist) \cup {a}
    BY <1>2, AddrsAdd DEF AllowFor
  <2>3. passes' \subseteq Addresses /\ ui' \in {"loop", "loading"}
    BY <1>0, <1>2 DEF RulesOK, AllowFor, LoadLists
  <2>4. again' \subseteq Addresses
    BY <1>2 DEF RulesOK, AllowFor
  <2>5. QED
    BY <1>2, <2>1, <2>2, <2>3, <2>4 DEF RulesOK, AllowFor
<1>3. ASSUME NEW a \in Addresses, NEW d \in {Short, Long}, BlockFor(a, d) PROVE RulesOK'
  <2>1. Rule(a, d) \in Rules
    BY RuleOK DEF RulesOK
  <2>2. Addrs(blocklist') = Addrs(blocklist) \cup {a}
    BY <1>3, AddrsAdd DEF BlockFor
  <2>3. passes' \subseteq Addresses /\ ui' \in {"loop", "loading"}
    BY <1>0, <1>3 DEF RulesOK, BlockFor, LoadLists
  <2>4. QED
    BY <1>3, <2>1, <2>2, <2>3 DEF RulesOK, BlockFor
<1>4. CASE Loaded
  BY <1>0, <1>4 DEF RulesOK, Loaded
<1>5. CASE Reload
  BY <1>0, <1>5 DEF RulesOK, Reload, LoadLists
<1>6. CASE TempAllowTimer
  <2>1. tempallow' \subseteq Addrs(allowlist')
    BY <1>6, AddrsWithout DEF RulesOK, TempAllowTimer
  <2>2. tempblock' \subseteq Addrs(blocklist')
    BY <1>6, AddrsWithout DEF RulesOK, TempAllowTimer
  <2>3. allowlist' \subseteq Rules /\ blocklist' \subseteq Rules
    BY <1>6 DEF RulesOK, TempAllowTimer
  <2>4. tempallow' \subseteq Addresses
    BY <2>1, <2>3, AddrsOK
  <2>5. passes' \subseteq Addresses /\ ui' \in {"loop", "stopped"}
    BY <1>6, <2>4 DEF RulesOK, TempAllowTimer, TimerLoads
  <2>6. QED
    BY <1>6, <2>1, <2>2, <2>3, <2>5 DEF RulesOK, TempAllowTimer
<1>7. CASE UNCHANGED <<now, rules>>
  BY <1>7 DEF RulesOK, rules
<1>8. CASE \/ TrayBlockHttp \/ ToggleHttp \/ \E m \in {15, 60} : TrayTempAllow(m)
           \/ HttpTimer \/ SaveConfig \/ HttpTimerFires
           \/ SaveStarts \/ SaveBlocks \/ SaveKills \/ SaveWrites
  BY <1>7, <1>8 DEF TrayBlockHttp, ToggleHttp, TrayTempAllow, UserHttp, HttpTimer, SaveConfig,
       HttpTimerFires, SaveStarts, SaveBlocks, SaveKills, SaveWrites
<1>9. QED
  BY <1>1, <1>2, <1>3, <1>4, <1>5, <1>6, <1>7, <1>8 DEF Next, Ui, vars

LEMMA HttpTyped == HttpOK /\ [Next]_vars => HttpOK'
<1> SUFFICES ASSUME HttpOK, [Next]_vars PROVE HttpOK'
  OBVIOUS
<1>1. CASE Tick
  BY <1>1, RulesAssumption DEF HttpOK, Tick, httpNow, saving, Horizon
<1>2. ASSUME TrayBlockHttp \/ ToggleHttp \/ \E m \in {15, 60} : TrayTempAllow(m)
      PROVE  HttpOK'
  BY <1>2, UserKinds, UserTyped
<1>3. CASE HttpTimer
  <2>1. http' \in BOOLEAN /\ temp' = "no" /\ timer' = None
    BY <1>3 DEF HttpOK, HttpTimer, SetBlockHttp
  <2>2. mishap' \subseteq {"queued", "thread"} /\ asked' \in {"block", "temp", "allow"}
    BY <1>3 DEF HttpOK, HttpTimer, Notes, Ends
  <2>3. QED
    BY <1>3, <2>1, <2>2 DEF HttpOK, HttpTimer, saving
<1>4. CASE SaveConfig
  <2>1. CASE temp = "no"
    BY <1>4, <2>1 DEF HttpOK, SaveConfig
  <2>2. CASE temp # "no"
    <3>1. InUiThread(http, 0)
      BY <1>4, <2>2 DEF SaveConfig
    <3>2. due' \in BOOLEAN /\ asked' \in {"block", "temp", "allow"}
      BY <1>4, <2>2 DEF HttpOK, SaveConfig, Queued, Ends
    <3>3. http \in BOOLEAN
      BY DEF HttpOK
    <3>4. QED
      BY <1>4, <3>1, <3>2, <3>3, InUiThreadTyped DEF HttpOK, SaveConfig
  <2>3. QED
    BY <2>1, <2>2
<1>5. CASE HttpTimerFires
  BY <1>5 DEF HttpOK, HttpTimerFires, saving
<1>6. CASE SaveStarts
  BY <1>6 DEF HttpOK, SaveStarts, httpNow
<1>7. CASE SaveBlocks
  BY <1>7 DEF HttpOK, SaveBlocks, Ends
<1>8. CASE SaveKills
  BY <1>8 DEF HttpOK, SaveKills, Notes, Queued
<1>9. CASE SaveWrites
  BY <1>9 DEF HttpOK, SaveWrites, httpNow
<1>10. CASE UNCHANGED <<now, httpNow, saving>>
  BY <1>10 DEF HttpOK, httpNow, saving
<1>11. ASSUME \/ \E a \in Addresses, d \in {Short, Long} : AllowFor(a, d) \/ BlockFor(a, d)
              \/ Loaded \/ Reload \/ TempAllowTimer
       PROVE  HttpOK'
  BY <1>10, <1>11 DEF AllowFor, BlockFor, Loaded, Reload, TempAllowTimer
<1>12. QED
  BY <1>1, <1>2, <1>3, <1>4, <1>5, <1>6, <1>7, <1>8, <1>9, <1>10, <1>11 DEF Next, Ui, vars

\* Whatever is allowed, for how long, and whichever thread saves, every variable of TempRules
\* keeps its type, and g_tempallow holds only addresses that a rule of g_allowlist names
\* (logproc.cpp:926, :1114).
THEOREM TempRulesTyped == Spec => []TypeOK
<1>1. TypeOK /\ [Next]_vars => TypeOK'
  <2>1. RulesOK' /\ HttpOK' => TypeOK'
    BY AddrsOK DEF TypeOK, RulesOK, HttpOK
  <2>2. QED
    BY <2>1, TypeParts, RulesTyped, HttpTyped
<1>2. QED
  BY InitTyped, <1>1, PTL DEF Spec

-----------------------------------------------------------------------------
(***************************************************************************)
(* Addresses.  The driver has the lists of the last change only while the  *)
(* UI thread is in its loop; and a rule whose address was not allowed a    *)
(* second time is the only one of its address, so that its end takes no    *)
(* other rule's address with it.                                           *)
(***************************************************************************)

RulesInv ==
    /\ ui = "loop" => passes = tempallow
    /\ tempallow \subseteq Listed
    /\ \A e \in allowlist : e.addr \notin again =>
          /\ e.addr \in tempallow
          /\ \A f \in allowlist : f.addr = e.addr => f = e

LEMMA RulesInvInit == Init => RulesInv
  BY DEF Init, RulesInv

LEMMA RulesInvNext == RulesInv /\ [Next]_vars => RulesInv'
<1> SUFFICES ASSUME RulesInv, [Next]_vars PROVE RulesInv'
  OBVIOUS
<1>1. ASSUME NEW a \in Addresses, NEW d \in {Short, Long}, AllowFor(a, d) PROVE RulesInv'
  <2>1. ui' = "loop" => passes' = tempallow'
    BY <1>1 DEF AllowFor, LoadLists
  <2>2. Listed' = Listed \cup {a} /\ tempallow' = tempallow \cup {a}
    BY <1>1, AddrsAdd DEF AllowFor, Listed
  <2>3. ASSUME NEW e \in allowlist', e.addr \notin again'
        PROVE  /\ e.addr \in tempallow'
               /\ \A f \in allowlist' : f.addr = e.addr => f = e
    <3>1. allowlist' = allowlist \cup {Rule(a, d)} /\ Rule(a, d).addr = a
      BY <1>1 DEF AllowFor, Rule
    <3>2. again \subseteq again' /\ (a \in Listed => a \in again')
      BY <1>1 DEF AllowFor
    <3>3. \A f \in allowlist : f.addr \in Listed
      BY DEF Listed, Addrs
    <3>4. CASE e.addr = a
      BY <2>2, <2>3, <3>1, <3>2, <3>3, <3>4
    <3>5. CASE e.addr # a
      BY <2>2, <2>3, <3>1, <3>2, <3>5 DEF RulesInv
    <3>6. QED
      BY <3>4, <3>5
  <2>4. QED
    BY <2>1, <2>2, <2>3 DEF RulesInv
<1>2. ASSUME NEW a \in Addresses, NEW d \in {Short, Long}, BlockFor(a, d) PROVE RulesInv'
  BY <1>2 DEF RulesInv, BlockFor, LoadLists, Listed
<1>3. CASE Loaded
  BY <1>3 DEF RulesInv, Loaded, Listed
<1>4. CASE Reload
  BY <1>4 DEF RulesInv, Reload, LoadLists, Listed
<1>5. CASE TempAllowTimer
  <2>1. /\ allowlist' = allowlist \ Ended(allowlist)
        /\ tempallow' = tempallow \ Addrs(Ended(allowlist))
        /\ again' = again
    BY <1>5 DEF TempAllowTimer, Without
  <2>2. ui' = "loop" => passes' = tempallow'
    BY <1>5 DEF TempAllowTimer, TimerLoads
  <2>3. tempallow' \subseteq Listed'
    BY <1>5, AddrsWithout DEF RulesInv, TempAllowTimer, Listed
  <2>4. ASSUME NEW e \in allowlist', e.addr \notin again'
        PROVE  e.addr \in tempallow' /\ \A f \in allowlist' : f.addr = e.addr => f = e
    <3>1. e.addr \in tempallow /\ \A f \in allowlist : f.addr = e.addr => f = e
      BY <2>1, <2>4 DEF RulesInv
    <3>2. e.addr \notin Addrs(Ended(allowlist))
      BY <2>1, <2>4, <3>1 DEF Addrs, Ended
    <3>3. QED
      BY <2>1, <3>1, <3>2
  <2>5. QED
    BY <2>2, <2>3, <2>4 DEF RulesInv
<1>6. CASE UNCHANGED rules
  BY <1>6 DEF RulesInv, rules, Listed
<1>7. ASSUME \/ TrayBlockHttp \/ ToggleHttp \/ \E m \in {15, 60} : TrayTempAllow(m)
             \/ HttpTimer \/ SaveConfig \/ HttpTimerFires \/ Tick
             \/ SaveStarts \/ SaveBlocks \/ SaveKills \/ SaveWrites
      PROVE  RulesInv'
  BY <1>6, <1>7 DEF TrayBlockHttp, ToggleHttp, TrayTempAllow, UserHttp, HttpTimer, SaveConfig,
       HttpTimerFires, Tick, SaveStarts, SaveBlocks, SaveKills, SaveWrites
<1>8. QED
  BY <1>1, <1>2, <1>3, <1>4, <1>5, <1>6, <1>7 DEF Next, Ui, vars

\* For any addresses and any sequence of rules: as long as the UI thread is in its loop, an
\* address passes from when it is allowed until its time is over, unless it was allowed a
\* second time while the first rule was there, and nothing passes that no rule names
\* (TempAllowRemovePred, logproc.cpp:1106; TIMER_TEMPALLOW, logproc.cpp:1143).
THEOREM AllowedLast == Spec => []AllowLasts
<1>1. RulesInv => AllowLasts
  BY DEF RulesInv, AllowLasts, Unended, Addrs
<1>2. QED
  BY RulesInvInit, RulesInvNext, <1>1, PTL DEF Spec

-----------------------------------------------------------------------------
(***************************************************************************)
(* HTTP.  Between the two halves of a save in an update thread HTTP is     *)
(* blocked and its timer still runs; the message of the timer, which only  *)
(* toggles, finds HTTP allowed for a time as long as no other message was  *)
(* in the queue when the timer was killed.                                 *)
(***************************************************************************)

\* HTTP, its flags and its timer are as asked.
Agrees ==
    /\ http <=> asked # "block"
    /\ temp # "no" <=> asked = "temp"
    /\ timer # None <=> asked = "temp"

HttpInv ==
    mishap = {} =>
        /\ saver # "kill" => Agrees
        /\ saver = "block" => asked = "temp"
        /\ saver = "write" => asked # "temp"
        /\ saver = "kill" => ~http /\ asked = "block" /\ temp # "no"
        /\ due => temp # "no"
        /\ asked = "allow" => granted
        /\ disk => granted

LEMMA HttpInvInit == Init => HttpInv
  BY DEF Init, HttpInv, Agrees

\* The user's changes leave nothing of what was before.
LEMMA UserAgrees ==
    ASSUME HttpOK, HttpInv, NEW block \in BOOLEAN, NEW minutes \in {0, 15, 60},
           UserHttp(block, minutes)
    PROVE  HttpInv'
<1> SUFFICES ASSUME mishap' = {} PROVE HttpInv'
  BY DEF HttpInv
<1>1. mishap = {} /\ saver = "idle" /\ ~Queued
  BY DEF HttpOK, UserHttp, InUiThread, Notes
<1>2. due' = FALSE /\ saver' = "idle" /\ disk' = disk
  BY <1>1 DEF UserHttp
<1>3. now + Units(minutes) # None
  BY RulesAssumption DEF HttpOK, Units, None
<1>4. Agrees'
  BY <1>3 DEF UserHttp, InUiThread, SetBlockHttp, For, Agrees
<1>5. asked' = "allow" => granted'
  <2>1. minutes > 0 \/ minutes = 0
    OBVIOUS
  <2>2. QED
    BY <2>1, Zenon DEF UserHttp
<1>6. disk' => granted'
  <2>1. disk => granted
    BY <1>1 DEF HttpInv
  <2>2. granted => granted'
    BY Zenon DEF UserHttp
  <2>3. QED
    BY <1>2, <2>1, <2>2, Zenon
<1>7. QED
  BY <1>2, <1>4, <1>5, <1>6 DEF HttpInv

LEMMA HttpInvNext == HttpOK /\ HttpInv /\ [Next]_vars => HttpInv'
<1> SUFFICES ASSUME HttpOK, HttpInv, [Next]_vars PROVE HttpInv'
  OBVIOUS
<1>1. ASSUME TrayBlockHttp \/ ToggleHttp \/ \E m \in {15, 60} : TrayTempAllow(m)
      PROVE  HttpInv'
  BY <1>1, UserKinds, UserAgrees
<1>2. CASE HttpTimer
  BY <1>2 DEF HttpOK, HttpInv, Agrees, HttpTimer, SetBlockHttp, Notes, Ends, saving
<1>3. CASE SaveConfig
  <2>1. CASE temp = "no"
    BY <1>3, <2>1 DEF HttpOK, HttpInv, Agrees, SaveConfig
  <2>2. CASE temp # "no"
    <3> SUFFICES ASSUME mishap' = {} PROVE HttpInv'
      BY DEF HttpInv
    <3>1. InUiThread(http, 0)
      BY <1>3, <2>2 DEF SaveConfig
    <3>2. mishap = {} /\ saver = "idle" /\ ~Queued
      BY <3>1 DEF HttpOK, InUiThread, Notes
    <3>3. http /\ asked = "temp"
      BY <2>2, <3>2 DEF HttpOK, HttpInv, Agrees
    <3>4. http' = FALSE /\ temp' = "no" /\ timer' = None /\ asked' = "block" /\ due' = FALSE
      <4>1. http = TRUE
        BY <3>3 DEF HttpOK
      <4>2. http' = FALSE /\ temp' = "no" /\ timer' = None
        BY <3>1, <4>1 DEF InUiThread, SetBlockHttp
      <4>3. asked' = "block" /\ due' = FALSE
        BY <1>3, <2>2, <3>2, <3>3 DEF SaveConfig, Ends
      <4>4. QED
        BY <4>2, <4>3
    <3>5. QED
      BY <1>3, <3>2, <3>4 DEF SaveConfig, HttpInv, Agrees
  <2>3. QED
    BY <2>1, <2>2
<1>4. CASE HttpTimerFires
  BY <1>4 DEF HttpOK, HttpInv, Agrees, HttpTimerFires, saving
<1>5. CASE SaveStarts
  BY <1>5 DEF HttpOK, HttpInv, Agrees, SaveStarts, httpNow
<1>6. CASE SaveBlocks
  BY <1>6 DEF HttpOK, HttpInv, Agrees, SaveBlocks, Ends
<1>7. CASE SaveKills
  <2> SUFFICES ASSUME mishap' = {} PROVE HttpInv'
    BY DEF HttpInv
  <2>1. mishap = {} /\ ~Queued
    BY <1>7 DEF HttpOK, SaveKills, Notes
  <2>2. QED
    BY <1>7, <2>1 DEF HttpOK, HttpInv, Agrees, SaveKills
<1>8. CASE SaveWrites
  BY <1>8 DEF HttpOK, HttpInv, Agrees, SaveWrites, httpNow
<1>9. CASE UNCHANGED <<httpNow, saving>>
  BY <1>9 DEF HttpInv, Agrees, httpNow, saving
<1>10. ASSUME \/ \E a \in Addresses, d \in {Short, Long} : AllowFor(a, d) \/ BlockFor(a, d)
              \/ Loaded \/ Reload \/ TempAllowTimer \/ Tick
       PROVE  HttpInv'
  BY <1>9, <1>10 DEF AllowFor, BlockFor, Loaded, Reload, TempAllowTimer, Tick
<1>11. QED
  BY <1>1, <1>2, <1>3, <1>4, <1>5, <1>6, <1>7, <1>8, <1>9, <1>10 DEF Next, Ui, vars

\* For any times and mishaps: HTTP, its menu flags and its timer agree with what the user asked
\* for last, and the file never says that HTTP is allowed when it was only allowed for a time,
\* as long as no message of the timer was in the queue when the timer was killed and no update
\* thread saved beside a change (SetBlockHttp, mainproc.cpp:175; configuration.cpp:873).
THEOREM HttpAgrees == Spec => []HttpAsAsked
<1>1. HttpInv => HttpAsAsked
  BY DEF HttpInv, HttpAsAsked, Agrees
<1>2. TypeOK => HttpOK
  BY TypeParts
<1>3. Spec => []HttpOK
  BY TempRulesTyped, <1>2, PTL
<1>4. QED
  BY HttpInvInit, HttpInvNext, <1>1, <1>3, PTL DEF Spec
=============================================================================
