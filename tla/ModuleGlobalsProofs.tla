------------------------ MODULE ModuleGlobalsProofs ------------------------
(***************************************************************************)
(* What the main thread calls through the globals is alive, and the        *)
(* references of the globals balance, for any number of functions and of   *)
(* library threads.  RefsBalanced speaks of the moments between two calls  *)
(* of set methods; GlobalsInv adds what holds at each statement of one,    *)
(* which differs, because the three methods have orders of their own.      *)
(***************************************************************************)
EXTENDS ModuleGlobals, TLAPS

(* The statement at which a set method of s is has x behind it. *)
Passed(s, x) ==
  main.at \in
    CASE x = "retain" -> (CASE s = "serializer" -> {"cache"}
                            [] s = "deserializer" -> {"cache", "flag"}
                            [] OTHER -> {"info", "cache", "flag", "hook"})
      [] x = "info" -> (CASE s = "serializer" -> {"flag", "retain", "cache"}
                          [] s = "deserializer" -> {"retain", "cache", "flag"}
                          [] OTHER -> {"cache", "flag", "hook"})
      [] x = "cache" -> (CASE s = "serializer" -> {}
                           [] s = "deserializer" -> {"flag"}
                           [] OTHER -> {"flag", "hook"})
      [] OTHER -> (CASE s = "serializer" -> {"retain", "cache"}
                     [] s = "deserializer" -> {}
                     [] OTHER -> {"hook"})

Own(s) ==
  CASE s = "serializer" -> Statement \ {"hook"}
    [] s = "deserializer" -> Statement \ {"clear", "hook"}
    [] OTHER -> Statement

(* A slot that no set method is at work on. *)
Settled(s) ==
  /\ \A g \in Fun : <<s, g>> \in refs <=> slot[s].flag /\ g = slot[s].info
  /\ slot[s].flag => slot[s].info \in Fun /\ slot[s].cache = slot[s].info

(* The slot of a set method, once it has let go of the function before. *)
Underway(s) ==
  /\ \A g \in Fun : <<s, g>> \in refs <=> Passed(s, "retain") /\ g = main.f
  /\ Passed(s, "info") => slot[s].info = main.f
  /\ Passed(s, "cache") => slot[s].cache = main.f
  /\ Passed(s, "flag") => slot[s].flag

MainOK ==
  ~Idle => /\ request = "in" /\ main.f \in Fun
           /\ main.at \in Own(main.s)

SlotsOK ==
  request = "in" =>
    \A s \in Slot :
      IF Idle \/ main.s # s \/ main.at = "release" THEN Settled(s) ELSE Underway(s)

GlobalsInv ==
  /\ TypeOK
  /\ MainOK
  /\ SlotsOK
  /\ request # "in" => refs = {}
  /\ CalledIsAlive

(* When every slot is settled, the references are those of the flagged slots. *)
LEMMA SettledIsBalanced ==
  ASSUME TypeOK, \A s \in Slot : Settled(s)
  PROVE  refs = {<<s, slot[s].info>> : s \in {x \in Slot : slot[x].flag}}
<1>1. ASSUME NEW p \in refs
      PROVE  p \in {<<s, slot[s].info>> : s \in {x \in Slot : slot[x].flag}}
  <2>1. PICK s \in Slot, g \in Fun : p = <<s, g>>
    BY <1>1 DEF TypeOK
  <2>2. slot[s].flag /\ g = slot[s].info
    BY <1>1, <2>1 DEF Settled
  <2> QED
    BY <2>1, <2>2
<1>2. ASSUME NEW s \in Slot, slot[s].flag
      PROVE  <<s, slot[s].info>> \in refs
  BY <1>2 DEF Settled
<1> QED
  BY <1>1, <1>2

(* Between two set methods every slot is settled. *)
LEMMA InvImpliesBalanced == GlobalsInv => RefsBalanced
<1> SUFFICES ASSUME GlobalsInv, request = "in", Idle
             PROVE  refs = {<<s, slot[s].info>> : s \in {x \in Slot : slot[x].flag}}
  BY DEF RefsBalanced, GlobalsInv
<1> QED
  BY SettledIsBalanced DEF GlobalsInv, SlotsOK

(* PHP_GINIT_FUNCTION leaves the globals in order. *)
LEMMA InitInv == Init => GlobalsInv
<1> SUFFICES ASSUME Init PROVE GlobalsInv
  OBVIOUS
<1>1. Zeroed \in [flag : BOOLEAN, info : MaybeFun, cache : MaybeFun]
  BY DEF Zeroed, MaybeFun
<1>2. slot \in [Slot -> [flag : BOOLEAN, info : MaybeFun, cache : MaybeFun]]
  BY <1>1 DEF Init
<1>3. main \in [at : Statement \cup {"idle"}, s : Slot, f : MaybeFun]
  BY DEF Init, MaybeFun, Slot
<1>4. lib \in [Thread -> [at : {"idle", "info", "cache", "call"}, info : MaybeFun, cache : MaybeFun]]
  BY DEF Init, MaybeFun
<1>5. TypeOK
  BY <1>2, <1>3, <1>4 DEF Init, TypeOK
<1> QED
  BY <1>5 DEF Init, GlobalsInv, MainOK, SlotsOK, CalledIsAlive, Idle

(* Every step keeps the types. *)
LEMMA TypeStep ==
  ASSUME TypeOK, MainOK, [Next]_vars PROVE TypeOK'
<1> USE DEF MaybeFun, Slot
<1>1. CASE RInit
  BY <1>1 DEF TypeOK, RInit, Zeroed
<1>2. CASE RShutdown
  BY <1>2 DEF TypeOK, RShutdown
<1>3. CASE SymbolsGone
  BY <1>3 DEF TypeOK, SymbolsGone
<1>4. ASSUME NEW f \in Fun, Make(f) \/ Drop(f) PROVE TypeOK'
  BY <1>4 DEF TypeOK, Make, Drop
<1>5. ASSUME NEW s \in Slot, NEW f \in Fun, Set(s, f) PROVE TypeOK'
  BY <1>5 DEF TypeOK, Set, Statement
<1>6. CASE Statements
  <2>1. \A s \in Slot, x \in Statement : Follows(s, x) \in Statement \cup {"idle"}
    BY DEF Follows, Statement
  <2>2. ASSUME NEW x \in Statement, At(x)
        PROVE  main' \in [at : Statement \cup {"idle"}, s : Slot, f : MaybeFun]
    BY <2>1, <2>2 DEF TypeOK, At
  <2>3. CASE Release \/ Retain \/ Hook
    <3>1. main' \in [at : Statement \cup {"idle"}, s : Slot, f : MaybeFun]
      BY <2>2, <2>3 DEF Release, Retain, Hook, Statement
    <3>2. refs' \subseteq Slot \X Fun
      <4>1. main.s \in Slot /\ (Retain => main.f \in Fun)
        BY DEF TypeOK, MainOK, Idle, Retain, At
      <4>2. CASE Release
        BY <4>2 DEF TypeOK, Release
      <4>3. CASE Retain
        BY <4>1, <4>3 DEF TypeOK, Retain
      <4>4. CASE Hook
        BY <4>4 DEF TypeOK, Hook
      <4> QED
        BY <2>3, <4>2, <4>3, <4>4
    <3> QED
      BY <2>3, <3>1, <3>2 DEF TypeOK, Release, Retain, Hook
  <2>4. CASE Clear \/ CopyInfo \/ CopyCache \/ Raise
    <3>1. main' \in [at : Statement \cup {"idle"}, s : Slot, f : MaybeFun]
      BY <2>2, <2>4 DEF Clear, CopyInfo, CopyCache, Raise, Statement
    <3>2. slot' \in [Slot -> [flag : BOOLEAN, info : MaybeFun, cache : MaybeFun]]
      <4>1. main.s \in Slot /\ main.f \in MaybeFun
        BY DEF TypeOK
      <4>2. ASSUME NEW v \in [flag : BOOLEAN, info : MaybeFun, cache : MaybeFun], Assign(v)
            PROVE  slot' \in [Slot -> [flag : BOOLEAN, info : MaybeFun, cache : MaybeFun]]
        BY <4>1, <4>2 DEF TypeOK, Assign
      <4>3. slot[main.s] \in [flag : BOOLEAN, info : MaybeFun, cache : MaybeFun]
        BY <4>1 DEF TypeOK
      <4>4. /\ [slot[main.s] EXCEPT !.flag = FALSE] \in [flag : BOOLEAN, info : MaybeFun, cache : MaybeFun]
            /\ [slot[main.s] EXCEPT !.flag = TRUE] \in [flag : BOOLEAN, info : MaybeFun, cache : MaybeFun]
            /\ [slot[main.s] EXCEPT !.info = main.f] \in [flag : BOOLEAN, info : MaybeFun, cache : MaybeFun]
            /\ [slot[main.s] EXCEPT !.cache = main.f] \in [flag : BOOLEAN, info : MaybeFun, cache : MaybeFun]
        BY <4>1, <4>3
      <4> QED
        BY <2>4, <4>2, <4>4 DEF Clear, CopyInfo, CopyCache, Raise
    <3> QED
      BY <2>4, <3>1, <3>2 DEF TypeOK, Clear, CopyInfo, CopyCache, Raise, Assign
  <2> QED
    BY <1>6, <2>3, <2>4 DEF Statements
<1>7. ASSUME NEW s \in Slot, MainCalls(s) PROVE TypeOK'
  BY <1>7 DEF TypeOK, MainCalls, Called
<1>8. CASE ShutdownLogs
  BY <1>8 DEF TypeOK, ShutdownLogs, Called
<1>9. ASSUME NEW t \in Thread, LogCheck(t) \/ LogCopyInfo(t) \/ LogCopyCache(t) \/ LogCall(t)
      PROVE  TypeOK'
  BY <1>9 DEF TypeOK, LogCheck, LogCopyInfo, LogCopyCache, LogCall, Called
<1>10. CASE UNCHANGED vars
  BY <1>10 DEF TypeOK, vars
<1> QED
  BY <1>1, <1>2, <1>3, <1>4, <1>5, <1>6, <1>7, <1>8, <1>9, <1>10 DEF Next

-----------------------------------------------------------------------------
(* A step that leaves the slots, their references and the set method alone. *)
LEMMA Untouched ==
  ASSUME SlotsOK, MainOK, UNCHANGED <<request, slot, refs, main>>
  PROVE  SlotsOK' /\ MainOK'
BY DEF SlotsOK, MainOK, Settled, Underway, Passed, Idle

(* Each statement of a set method keeps the slots in order.                 *)
LEMMA StatementStep ==
  ASSUME GlobalsInv, Statements
  PROVE  SlotsOK' /\ MainOK'
<1> DEFINE s == main.s
<1> USE DEF Slot
<1>1. /\ ~Idle /\ request = "in" /\ main.f \in Fun /\ s \in Slot
      /\ main.at \in Own(s) /\ main' = [main EXCEPT !.at = Follows(s, main.at)]
      /\ request' = "in"
  BY DEF GlobalsInv, TypeOK, MainOK, Idle, Statements, Statement, At, Assign,
         Release, Clear, CopyInfo, CopyCache, Raise, Retain, Hook
<1>2. main'.s = s /\ main'.f = main.f /\ main'.at = Follows(s, main.at)
  BY <1>1 DEF GlobalsInv, TypeOK
<1>3. main'.at \in Own(s) \cup {"idle"} /\ main'.at # "release"
  BY <1>1, <1>2 DEF Own, Follows, Statement
<1>4. MainOK'
  BY <1>1, <1>2, <1>3 DEF MainOK, Idle, Own
<1>5. ASSUME NEW r \in Slot, r # s PROVE Settled(r)'
  <2>1. Settled(r)
    BY <1>1, <1>5 DEF GlobalsInv, SlotsOK
  <2>2. slot'[r] = slot[r]
    BY <1>5 DEF GlobalsInv, TypeOK, Statements, Assign, Release, Clear, CopyInfo, CopyCache, Raise, Retain, Hook
  <2>3. \A g \in Fun : <<r, g>> \in refs' <=> <<r, g>> \in refs
    BY <1>5 DEF Statements, Assign, Release, Clear, CopyInfo, CopyCache, Raise, Retain, Hook
  <2> QED
    BY <2>1, <2>2, <2>3 DEF Settled
<1>6. IF Idle' THEN Settled(s)' ELSE Underway(s)'
  <2>1. CASE Release
    <3>1. main.at = "release" /\ Settled(s)
      BY <1>1, <2>1 DEF GlobalsInv, SlotsOK, Release, At
    <3>2. \A g \in Fun : <<s, g>> \notin refs'
      BY <2>1, <3>1 DEF Release, Settled
    <3>3. main'.at \in {"clear", "info"} /\ (main'.at = "info" => s = "deserializer")
      BY <1>1, <1>2, <3>1 DEF Follows
    <3> QED
      BY <1>1, <1>2, <3>2, <3>3 DEF Underway, Passed, Idle
  <2>2. main.at # "release" => Underway(s)
    BY <1>1 DEF GlobalsInv, SlotsOK
  <2>3. CASE Clear
    <3>1. /\ main.at = "clear" /\ Underway(s) /\ refs' = refs
          /\ ~slot'[s].flag
          /\ slot'[s].info = slot[s].info
          /\ slot'[s].cache = slot[s].cache
      BY <1>1, <2>2, <2>3 DEF GlobalsInv, TypeOK, Clear, Assign, At
    <3>2. CASE s = "serializer"
      BY <1>1, <1>2, <3>1, <3>2 DEF Underway, Passed, Settled, Idle, Follows, Own, Statement
    <3>3. CASE s = "deserializer"
      BY <1>1, <1>2, <3>1, <3>3 DEF Underway, Passed, Settled, Idle, Follows, Own, Statement
    <3>4. CASE s = "log"
      BY <1>1, <1>2, <3>1, <3>4 DEF Underway, Passed, Settled, Idle, Follows, Own, Statement
    <3> QED
      BY <1>1, <3>2, <3>3, <3>4
  <2>6. CASE CopyInfo
    <3>1. /\ main.at = "info" /\ Underway(s) /\ refs' = refs
          /\ slot'[s].flag = slot[s].flag
          /\ slot'[s].info = main.f
          /\ slot'[s].cache = slot[s].cache
      BY <1>1, <2>2, <2>6 DEF GlobalsInv, TypeOK, CopyInfo, Assign, At
    <3>2. CASE s = "serializer"
      BY <1>1, <1>2, <3>1, <3>2 DEF Underway, Passed, Settled, Idle, Follows, Own, Statement
    <3>3. CASE s = "deserializer"
      BY <1>1, <1>2, <3>1, <3>3 DEF Underway, Passed, Settled, Idle, Follows, Own, Statement
    <3>4. CASE s = "log"
      BY <1>1, <1>2, <3>1, <3>4 DEF Underway, Passed, Settled, Idle, Follows, Own, Statement
    <3> QED
      BY <1>1, <3>2, <3>3, <3>4
  <2>7. CASE CopyCache
    <3>1. /\ main.at = "cache" /\ Underway(s) /\ refs' = refs
          /\ slot'[s].flag = slot[s].flag
          /\ slot'[s].info = slot[s].info
          /\ slot'[s].cache = main.f
      BY <1>1, <2>2, <2>7 DEF GlobalsInv, TypeOK, CopyCache, Assign, At
    <3>2. CASE s = "serializer"
      BY <1>1, <1>2, <3>1, <3>2 DEF Underway, Passed, Settled, Idle, Follows, Own, Statement
    <3>3. CASE s = "deserializer"
      BY <1>1, <1>2, <3>1, <3>3 DEF Underway, Passed, Settled, Idle, Follows, Own, Statement
    <3>4. CASE s = "log"
      BY <1>1, <1>2, <3>1, <3>4 DEF Underway, Passed, Settled, Idle, Follows, Own, Statement
    <3> QED
      BY <1>1, <3>2, <3>3, <3>4
  <2>8. CASE Raise
    <3>1. /\ main.at = "flag" /\ Underway(s) /\ refs' = refs
          /\ slot'[s].flag
          /\ slot'[s].info = slot[s].info
          /\ slot'[s].cache = slot[s].cache
      BY <1>1, <2>2, <2>8 DEF GlobalsInv, TypeOK, Raise, Assign, At
    <3>2. CASE s = "serializer"
      BY <1>1, <1>2, <3>1, <3>2 DEF Underway, Passed, Settled, Idle, Follows, Own, Statement
    <3>3. CASE s = "deserializer"
      BY <1>1, <1>2, <3>1, <3>3 DEF Underway, Passed, Settled, Idle, Follows, Own, Statement
    <3>4. CASE s = "log"
      BY <1>1, <1>2, <3>1, <3>4 DEF Underway, Passed, Settled, Idle, Follows, Own, Statement
    <3> QED
      BY <1>1, <3>2, <3>3, <3>4
  <2>4. CASE Retain
    <3>1. /\ main.at = "retain" /\ Underway(s) /\ slot' = slot
          /\ \A g \in Fun : <<s, g>> \in refs' <=> <<s, g>> \in refs \/ g = main.f
      BY <1>1, <2>2, <2>4 DEF Retain, At
    <3> QED
      BY <1>1, <1>2, <3>1 DEF Underway, Passed, Settled, Idle, Follows, Own, Statement
  <2>5. CASE Hook
    <3>1. main.at = "hook" /\ Underway(s) /\ slot' = slot /\ refs' = refs
      BY <1>1, <2>2, <2>5 DEF Hook, At
    <3> QED
      BY <1>1, <1>2, <3>1 DEF Underway, Passed, Settled, Idle, Follows, Own, Statement
  <2> QED
    BY <2>1, <2>3, <2>4, <2>5, <2>6, <2>7, <2>8 DEF Statements
<1> QED
  BY <1>1, <1>2, <1>3, <1>4, <1>5, <1>6 DEF SlotsOK, Idle

(* Every step keeps the invariant.                                          *)
LEMMA InvStep == GlobalsInv /\ [Next]_vars => GlobalsInv'
<1> SUFFICES ASSUME GlobalsInv, [Next]_vars PROVE GlobalsInv'
  OBVIOUS
<1>0. TypeOK'
  BY TypeStep DEF GlobalsInv
<1>1. CASE RInit
  <2>1. request = "out" /\ refs' = {} /\ Idle /\ Idle' /\ \A s \in Slot : ~slot'[s].flag
    BY <1>1 DEF GlobalsInv, MainOK, RInit, Zeroed, Idle
  <2>2. \A s \in Slot : Settled(s)'
    BY <2>1 DEF Settled
  <2> QED
    BY <1>0, <1>1, <2>1, <2>2 DEF GlobalsInv, MainOK, SlotsOK, CalledIsAlive, RInit
<1>2. CASE RShutdown
  <2>1. refs = {<<s, slot[s].info>> : s \in {x \in Slot : slot[x].flag}}
    BY <1>2, InvImpliesBalanced DEF RefsBalanced, RShutdown
  <2>2. refs' = {}
    BY <1>2, <2>1 DEF RShutdown
  <2> QED
    BY <1>0, <1>2, <2>2 DEF GlobalsInv, MainOK, SlotsOK, CalledIsAlive, RShutdown, Idle
<1>3. CASE SymbolsGone
  BY <1>0, <1>3 DEF GlobalsInv, MainOK, SlotsOK, CalledIsAlive, SymbolsGone, Idle
<1>4. ASSUME NEW f \in Fun, Make(f) \/ Drop(f) PROVE GlobalsInv'
  BY <1>0, <1>4, Untouched DEF GlobalsInv, CalledIsAlive, Make, Drop
<1>5. ASSUME NEW s \in Slot, NEW f \in Fun, Set(s, f) PROVE GlobalsInv'
  <2>1. /\ request = "in" /\ Idle /\ ~Idle' /\ main'.at = "release" /\ main'.s = s /\ main'.f = f
        /\ UNCHANGED <<request, slot, refs, dead>>
    BY <1>5 DEF Set, Idle
  <2>2. \A r \in Slot : Settled(r)'
    BY <2>1 DEF GlobalsInv, SlotsOK, Settled
  <2>3. "release" \in Own(s)
    BY DEF Own, Statement
  <2> QED
    BY <1>0, <2>1, <2>2, <2>3 DEF GlobalsInv, MainOK, SlotsOK, CalledIsAlive, Own
<1>6. CASE Statements
  <2>1. request = "in" /\ request' = "in" /\ dead' = dead
    BY <1>6 DEF GlobalsInv, MainOK, Idle, At, Statements, Assign, Release, Clear, CopyInfo, CopyCache, Raise, Retain, Hook
  <2> QED
    BY <1>0, <1>6, <2>1, StatementStep DEF GlobalsInv, CalledIsAlive
<1>7. ASSUME NEW s \in Slot, MainCalls(s) PROVE GlobalsInv'
  <2>1. Settled(s) /\ slot[s].flag
    BY <1>7 DEF GlobalsInv, SlotsOK, MainCalls
  <2>2. Callable(slot[s].info, slot[s].cache)
    BY <2>1 DEF Settled, Callable, Alive
  <2>3. dead' = dead
    BY <1>7, <2>2 DEF MainCalls, Called
  <2> QED
    BY <1>0, <1>7, <2>3, Untouched DEF GlobalsInv, CalledIsAlive, MainCalls
<1>8. CASE ShutdownLogs
  BY <1>0, <1>8, Untouched DEF GlobalsInv, CalledIsAlive, ShutdownLogs, Called
<1>9. ASSUME NEW t \in Thread, LogCheck(t) \/ LogCopyInfo(t) \/ LogCopyCache(t) \/ LogCall(t)
      PROVE  GlobalsInv'
  BY <1>0, <1>9, Untouched DEF GlobalsInv, CalledIsAlive, LogCheck, LogCopyInfo, LogCopyCache, LogCall, Called
<1>10. CASE UNCHANGED vars
  BY <1>0, <1>10, Untouched DEF GlobalsInv, CalledIsAlive, vars
<1> QED
  BY <1>1, <1>2, <1>3, <1>4, <1>5, <1>6, <1>7, <1>8, <1>9, <1>10 DEF Next

-----------------------------------------------------------------------------
(* The globals are in order at every statement of every set method.         *)
THEOREM GlobalsInvariance == Spec => []GlobalsInv
BY InitInv, InvStep, PTL DEF Spec

(* The function a method calls through the globals is alive and called as   *)
(* itself, in whatever order setSerializer, setDeserializer and             *)
(* setLogHandler replaced others, and whatever the script dropped.          *)
THEOREM RegisteredIsAlive == Spec => []CalledIsAlive
<1>1. GlobalsInv => CalledIsAlive
  BY DEF GlobalsInv
<1> QED
  BY <1>1, GlobalsInvariance, PTL

(* The globals hold one reference for each registered function, and none    *)
(* once RSHUTDOWN has run.                                                  *)
THEOREM ReferencesBalance == Spec => []RefsBalanced
BY InvImpliesBalanced, GlobalsInvariance, PTL
=============================================================================
