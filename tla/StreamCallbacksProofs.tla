----------------------- MODULE StreamCallbacksProofs -----------------------
(***************************************************************************)
(* The safety of streams for any number of nodes and records, nested or    *)
(* not, concurrent or in turn.                                             *)
(***************************************************************************)
EXTENDS StreamCallbacks, TLAPS

USE RecordsAssumption, FlagsAssumption

(* A thread is a stream and a node, and never the free mutex. *)
LEMMA ThreadFacts ==
    /\ \A t \in Thread : t[1] \in Stream /\ t[2] \in Node /\ t = <<t[1], t[2]>>
    /\ \A s \in Stream, n \in Node : <<s, n>> \in Thread
    /\ Nobody \notin Thread
  <1>1. \A s \in Stream, n \in Node : <<s, n>> \in Thread
    BY DEF Thread
  <1>2. ASSUME NEW t \in Thread
        PROVE  t[1] \in Stream /\ t[2] \in Node /\ t = <<t[1], t[2]>>
    BY DEF Thread
  <1>3. 0 \notin Stream
    BY DEF Stream
  <1>4. Nobody \notin Thread
    <2> SUFFICES ASSUME Nobody \in Thread PROVE FALSE
      OBVIOUS
    <2>1. Nobody[1] \in Stream
      BY <1>2
    <2> QED
      BY <2>1, <1>3 DEF Nobody
  <1> QED
    BY <1>1, <1>2, <1>4

(* Before the first stream nobody holds the mutex and no error is set. *)
LEMMA InitInv == Init => Inv
  <1> SUFFICES ASSUME Init PROVE Inv
    OBVIOUS
  <1>1. TypeOK
    <2>1. left \in [Thread -> 0 .. MaxRecords]
      BY DEF Init
    <2>2. exception \in BOOLEAN /\ cb_mutex = Nobody /\ caller = Nobody
      BY DEF Init
    <2>3. /\ stream \in [Stream -> {"idle", "running", "done"}]
          /\ pc \in [Thread -> PC]
          /\ err \in [Stream -> Code]
      BY DEF Init, PC, Code
    <2>4. /\ latch \in [Stream -> BOOLEAN]
          /\ cb_failed \in [Stream -> BOOLEAN]
          /\ node_failed \in [Stream -> BOOLEAN]
          /\ halted \in [Stream -> BOOLEAN]
          /\ late \in [Stream -> BOOLEAN]
          /\ skipped \in [Stream -> BOOLEAN]
      BY DEF Init
    <2> QED
      BY <2>1, <2>2, <2>3, <2>4 DEF TypeOK
  <1>2. LockHeldInside
    BY ThreadFacts DEF Init, LockHeldInside, InPhp
  <1> QED
    BY <1>1, <1>2, ThreadFacts DEF Init, Inv

(* Starting a stream and returning from one keep the invariant. *)
LEMMA MethodInv ==
    ASSUME Inv,
           \/ StartScript
           \/ \E t \in Thread : StartNested(t)
           \/ \E s \in Stream : Return(s)
    PROVE  Inv'
  <1> USE ThreadFacts DEF Inv, TypeOK, LockHeldInside, history, Stream
  <1>1. CASE StartScript
    BY <1>1 DEF StartScript
  <1>2. ASSUME NEW t \in Thread, StartNested(t)
        PROVE  Inv'
    BY <1>2 DEF StartNested
  <1>3. ASSUME NEW s \in Stream, Return(s)
        PROVE  Inv'
    BY <1>3 DEF Return
  <1> QED
    BY <1>1, <1>2, <1>3

(* What the library does on a delivering thread keeps the invariant. *)
LEMMA LibraryInv ==
    ASSUME Inv, NEW t \in Thread,
           \/ NodeStarts(t) \/ RecordArrives(t) \/ NodeEnds(t)
           \/ NodeFails(t) \/ NodeAborts(t)
    PROVE  Inv'
  <1> USE ThreadFacts DEF Inv, TypeOK, LockHeldInside, history, MoveTo, PC,
          InPhp, Code
  <1>1. CASE NodeStarts(t)
    BY <1>1 DEF NodeStarts
  <1>2. CASE RecordArrives(t)
    BY <1>2 DEF RecordArrives
  <1>3. CASE NodeEnds(t)
    BY <1>3 DEF NodeEnds
  <1>4. CASE NodeFails(t)
    BY <1>4 DEF NodeFails
  <1>5. CASE NodeAborts(t)
    BY <1>5 DEF NodeAborts
  <1> QED
    BY <1>1, <1>2, <1>3, <1>4, <1>5

(* Every way through user_callback_wrapper keeps the invariant. *)
LEMMA WrapperInv ==
    ASSUME Inv, NEW t \in Thread,
           \/ Lock(t) \/ Convert(t) \/ CallbackReturns(t) \/ CallbackSkipped(t)
           \/ CallbackThrows(t) \/ CallbackReturnsFalse(t) \/ CallbackFails(t)
           \/ Raise(t)
    PROVE  Inv'
  <1> USE ThreadFacts DEF Inv, TypeOK, LockHeldInside, history, MoveTo, PC,
          InPhp, Code, Unlock, CallbackRuns
  <1>1. CASE Lock(t)
    BY <1>1 DEF Lock
  <1>2. CASE Convert(t)
    <2>1. t[1] \in Stream /\ pc[t] = "convert"
      BY <1>2 DEF Convert
    <2>2. exception' \in BOOLEAN /\ (exception => exception' = TRUE)
      BY <1>2 DEF Convert
    <2>3. /\ UNCHANGED <<stream, left, latch, cb_mutex, caller, node_failed,
                         halted, skipped>>
          /\ \A s \in Stream : skipped'[s] => exception'
      BY <1>2, <2>2 DEF Convert
    <2>4. CASE /\ MoveTo(t, "call")
               /\ late' = [late EXCEPT ![t[1]] = @ \/ (halted[t[1]] /\ ~exception')]
               /\ UNCHANGED <<err, cb_failed>>
      <3>1. late' \in [Stream -> BOOLEAN]
        BY <2>4
      <3> QED
        BY <2>1, <2>2, <2>3, <2>4, <3>1
    <2>5. CASE /\ MoveTo(t, "raise")
               /\ err[t[1]] # "OK"
               /\ UNCHANGED <<err, late, cb_failed>>
      BY <2>1, <2>2, <2>3, <2>5
    <2>6. CASE /\ MoveTo(t, "raise")
               /\ err' = [err EXCEPT ![t[1]] = "CLIENT"]
               /\ cb_failed' = [cb_failed EXCEPT ![t[1]] = TRUE]
               /\ UNCHANGED late
      <3>1. err'[t[1]] = "CLIENT" /\ \A s \in Stream : s # t[1] =>
              err'[s] = err[s] /\ cb_failed'[s] = cb_failed[s]
        BY <2>1, <2>6
      <3>2. TypeOK' /\ LockHeldInside'
        BY <2>1, <2>2, <2>3, <2>6
      <3> QED
        BY <2>1, <2>3, <2>6, <3>1, <3>2
    <2> QED
      BY <1>2, <2>4, <2>5, <2>6 DEF Convert
  <1>3. CASE CallbackReturns(t)
    BY <1>3 DEF CallbackReturns
  <1>4. CASE CallbackThrows(t)
    BY <1>4 DEF CallbackThrows
  <1>5. CASE CallbackReturnsFalse(t)
    BY <1>5 DEF CallbackReturnsFalse
  <1>6. CASE CallbackFails(t)
    BY <1>6 DEF CallbackFails
  <1>7. CASE Raise(t)
    BY <1>7 DEF Raise
  <1>8. CASE CallbackSkipped(t)
    BY <1>8 DEF CallbackSkipped
  <1> QED
    BY <1>1, <1>2, <1>3, <1>4, <1>5, <1>6, <1>7, <1>8

(* The invariant that ties the mutex, the shared error and the library's   *)
(* latch together, for any cluster.                                        *)
THEOREM StreamInvariance == Spec => []Inv
  <1>1. ASSUME Inv, [Next]_vars
        PROVE  Inv'
    <2>1. CASE UNCHANGED vars
      BY <1>1, <2>1 DEF vars, history, Inv, TypeOK, LockHeldInside
    <2>2. CASE Next
      BY <1>1, <2>1, <2>2, MethodInv, LibraryInv, WrapperInv
         DEF Next, ThreadStep, Finished
    <2> QED
      BY <1>1, <2>1, <2>2
  <1> QED
    BY <1>1, InitInv, PTL DEF Spec

(* user_callback_wrapper serialises script code for any number of nodes. *)
THEOREM MutualExclusion == Spec => []OneThreadInPhp
  <1>1. Inv => OneThreadInPhp
    BY DEF Inv, LockHeldInside, OneThreadInPhp
  <1> QED
    BY <1>1, StreamInvariance, PTL

(* No failure of a callback, a record or a node is reported as success. *)
THEOREM FailuresAreReported == Spec => []ErrorsAreReported
  <1>1. Inv => ErrorsAreReported
    BY DEF Inv, ErrorsAreReported
  <1> QED
    BY <1>1, StreamInvariance, PTL

(* Success without a halt means that every record arrived, and was given   *)
(* to the callback unless an exception reaches the script.                 *)
THEOREM SuccessIsComplete == Spec => []OkIsComplete
  <1>1. Inv => OkIsComplete
    BY ThreadFacts DEF Inv, OkIsComplete
  <1> QED
    BY <1>1, StreamInvariance, PTL

-----------------------------------------------------------------------------
(* A callback that returns false is the last one of its stream, when the   *)
(* nodes deliver in turn.                                                  *)

(* A thread that moves among the active places changes nothing for the     *)
(* others.                                                                 *)
LEMMA ActiveMoves ==
    ASSUME TypeOK, HaltInv, NEW t \in Thread, NEW where,
           pc[t] \notin {"off", "end", "abort"}, where \in PC, MoveTo(t, where),
           UNCHANGED <<halted, latch, late>>
    PROVE  HaltInv'
<1>1. pc' = [pc EXCEPT ![t] = where] /\ DOMAIN pc = Thread /\ t[1] \in Stream
    BY ThreadFacts DEF TypeOK, MoveTo
<1>2. ~halted[t[1]]
    BY DEF HaltInv
<1>3. \A u \in Thread : u # t => pc'[u] = pc[u]
    BY <1>1
<1>4. ASSUME NEW u \in Thread, NEW v \in Thread, u[1] = v[1],
             pc'[u] \notin {"off", "end"}, pc'[v] \notin {"off", "end"}
      PROVE  u = v
    BY <1>3, <1>4 DEF HaltInv
<1>5. ASSUME NEW u \in Thread, halted'[u[1]]
      PROVE  pc'[u] \in {"off", "end", "abort"}
    BY <1>2, <1>3, <1>5 DEF HaltInv
<1>6. ASSUME NEW s \in Stream, halted'[s]
      PROVE  latch'[s] \/ \E u \in Thread : u[1] = s /\ pc'[u] = "abort"
    <2>1. s # t[1] /\ halted[s]
        BY <1>2, <1>6
    <2>2. CASE latch[s]
        BY <2>2
    <2>3. CASE \E u \in Thread : u[1] = s /\ pc[u] = "abort"
        BY <1>3, <2>1, <2>3
    <2> QED
        BY <2>1, <2>2, <2>3 DEF HaltInv
<1>7. FalseHaltsStream'
    BY DEF HaltInv, FalseHaltsStream
<1> QED
    BY <1>4, <1>5, <1>6, <1>7 DEF HaltInv

(* A thread that is done leaves the latch behind, when the stream was      *)
(* halted.                                                                 *)
LEMMA ThreadEnds ==
    ASSUME TypeOK, HaltInv, NEW t \in Thread, pc[t] # "off",
           MoveTo(t, "end"), latch' = [latch EXCEPT ![t[1]] = TRUE],
           UNCHANGED <<halted, late>>
    PROVE  HaltInv'
<1>1. pc' = [pc EXCEPT ![t] = "end"] /\ DOMAIN pc = Thread /\ t[1] \in Stream
    BY ThreadFacts DEF TypeOK, MoveTo
<1>2. DOMAIN latch = Stream
    BY DEF TypeOK
<1>3. \A u \in Thread : u # t => pc'[u] = pc[u]
    BY <1>1
<1>4. pc'[t] = "end"
    BY <1>1
<1>5. ASSUME NEW s \in Stream, halted'[s]
      PROVE  latch'[s] \/ \E u \in Thread : u[1] = s /\ pc'[u] = "abort"
    <2>1. CASE s = t[1]
        BY <1>2, <2>1
    <2>2. CASE s # t[1]
        BY <1>2, <1>3, <1>5, <2>2 DEF HaltInv
    <2> QED
        BY <2>1, <2>2
<1>6. FalseHaltsStream'
    BY DEF HaltInv, FalseHaltsStream
<1>7. ASSUME NEW u \in Thread, NEW v \in Thread, u[1] = v[1],
             pc'[u] \notin {"off", "end"}, pc'[v] \notin {"off", "end"}
      PROVE  u = v
    BY <1>3, <1>4, <1>7 DEF HaltInv
<1>8. ASSUME NEW u \in Thread, halted'[u[1]]
      PROVE  pc'[u] \in {"off", "end", "abort"}
    BY <1>3, <1>4, <1>8 DEF HaltInv
<1> QED
    BY <1>5, <1>6, <1>7, <1>8 DEF HaltInv

(* One step, with the nodes in turn. *)
LEMMA HaltStep ==
    ASSUME ~Concurrent, Inv, HaltInv, [Next]_vars
    PROVE  HaltInv'
<1> USE DEF history
<1>1. TypeOK
    BY DEF Inv
<1>2. ASSUME UNCHANGED <<pc, latch, halted, late>> PROVE HaltInv'
    BY <1>2 DEF HaltInv, FalseHaltsStream
<1>3. ASSUME NEW t \in Thread, NodeStarts(t) PROVE HaltInv'
    <2>1. /\ pc[t] = "off" /\ ~latch[t[1]] /\ pc' = [pc EXCEPT ![t] = "receive"]
          /\ \A n \in Node : pc[<<t[1], n>>] \in {"off", "end"}
          /\ latch' = latch /\ halted' = halted /\ late' = late
        BY <1>3 DEF NodeStarts, MoveTo
    <2>2. DOMAIN pc = Thread /\ t[1] \in Stream
        BY <1>1, ThreadFacts DEF TypeOK
    <2>3. \A u \in Thread : u[1] = t[1] => pc[u] \in {"off", "end"}
        <3>1. ASSUME NEW u \in Thread, u[1] = t[1] PROVE pc[u] \in {"off", "end"}
            <4>1. u = <<t[1], u[2]>> /\ u[2] \in Node
                BY <3>1, ThreadFacts
            <4> QED
                BY <2>1, <4>1
        <3> QED
            BY <3>1
    <2>4. ~halted[t[1]]
        BY <2>1, <2>2, <2>3 DEF HaltInv
    <2>5. \A u \in Thread : u # t => pc'[u] = pc[u]
        BY <2>1, <2>2
    <2>6. ASSUME NEW u \in Thread, NEW v \in Thread, u[1] = v[1],
                 pc'[u] \notin {"off", "end"}, pc'[v] \notin {"off", "end"}
          PROVE  u = v
        BY <2>3, <2>5, <2>6 DEF HaltInv
    <2>7. ASSUME NEW u \in Thread, halted'[u[1]]
          PROVE  pc'[u] \in {"off", "end", "abort"}
        BY <2>1, <2>4, <2>5, <2>7 DEF HaltInv
    <2>8. ASSUME NEW s \in Stream, halted'[s]
          PROVE  latch'[s] \/ \E u \in Thread : u[1] = s /\ pc'[u] = "abort"
        BY <2>1, <2>4, <2>5, <2>8 DEF HaltInv
    <2> QED
        BY <2>1, <2>6, <2>7, <2>8 DEF HaltInv, FalseHaltsStream
<1>4. ASSUME NEW t \in Thread,
             RecordArrives(t) \/ NodeEnds(t) \/ Lock(t) \/ CallbackReturns(t)
               \/ CallbackSkipped(t) \/ CallbackThrows(t) \/ CallbackFails(t)
               \/ Raise(t)
      PROVE  HaltInv'
    <2>1. /\ pc[t] \notin {"off", "end", "abort"}
          /\ \E where \in PC : MoveTo(t, where)
          /\ UNCHANGED <<halted, latch, late>>
        BY <1>4 DEF RecordArrives, NodeEnds, Lock, CallbackReturns, CallbackSkipped,
                    CallbackThrows, CallbackFails, Raise, CallbackRuns, PC
    <2>2. PICK where \in PC : MoveTo(t, where)
        BY <2>1
    <2> QED
        BY <1>1, <2>1, <2>2, ActiveMoves
<1>5. ASSUME NEW t \in Thread, NodeFails(t) \/ NodeAborts(t) PROVE HaltInv'
    <2>1. /\ pc[t] # "off" /\ MoveTo(t, "end") /\ latch' = [latch EXCEPT ![t[1]] = TRUE]
          /\ UNCHANGED <<halted, late>>
        BY <1>5 DEF NodeFails, NodeAborts
    <2> QED
        BY <1>1, <2>1, ThreadEnds
<1>6. ASSUME NEW t \in Thread, Convert(t) PROVE HaltInv'
    <2>1. /\ pc[t] \notin {"off", "end", "abort"}
          /\ \E where \in PC : MoveTo(t, where)
          /\ halted' = halted /\ latch' = latch
        BY <1>6 DEF Convert, PC
    <2>2. late' = late
        <3>1. ~halted[t[1]] /\ t[1] \in Stream
            BY <2>1, ThreadFacts DEF HaltInv
        <3>2. late \in [Stream -> BOOLEAN] /\ (late[t[1]] \/ (halted[t[1]] /\ ~exception')) = late[t[1]]
            BY <1>1, <3>1 DEF TypeOK
        <3>3. CASE late' = late
            BY <3>3
        <3>4. CASE late' = [late EXCEPT ![t[1]] = late[t[1]] \/ (halted[t[1]] /\ ~exception')]
            BY <3>1, <3>2, <3>4
        <3> QED
            BY <1>6, <3>3, <3>4 DEF Convert
    <2>3. PICK where \in PC : MoveTo(t, where)
        BY <2>1
    <2> QED
        BY <1>1, <2>1, <2>2, <2>3, ActiveMoves
<1>7. ASSUME NEW t \in Thread, CallbackReturnsFalse(t) PROVE HaltInv'
    <2>1. /\ pc[t] = "call" /\ pc' = [pc EXCEPT ![t] = "abort"]
          /\ halted' = [halted EXCEPT ![t[1]] = TRUE]
          /\ latch' = latch /\ late' = late
        BY <1>7 DEF CallbackReturnsFalse, CallbackRuns, MoveTo
    <2>2. DOMAIN pc = Thread /\ DOMAIN halted = Stream /\ t[1] \in Stream
        BY <1>1, ThreadFacts DEF TypeOK
    <2>3. \A u \in Thread : u # t => pc'[u] = pc[u]
        BY <2>1, <2>2
    <2>4. \A s \in Stream : s # t[1] => halted'[s] = halted[s]
        BY <2>1, <2>2
    <2>5. pc'[t] = "abort"
        BY <2>1, <2>2
    <2>6. ASSUME NEW u \in Thread, NEW v \in Thread, u[1] = v[1],
                 pc'[u] \notin {"off", "end"}, pc'[v] \notin {"off", "end"}
          PROVE  u = v
        BY <2>1, <2>3, <2>6 DEF HaltInv
    <2>7. ASSUME NEW u \in Thread, halted'[u[1]]
          PROVE  pc'[u] \in {"off", "end", "abort"}
        <3>1. CASE u = t
            BY <2>5, <3>1
        <3>2. CASE u # t /\ u[1] = t[1]
            BY <2>1, <2>3, <3>2 DEF HaltInv
        <3>3. CASE u[1] # t[1]
            BY <2>3, <2>4, <2>7, <3>3, ThreadFacts DEF HaltInv
        <3> QED
            BY <3>1, <3>2, <3>3
    <2>8. ASSUME NEW s \in Stream, halted'[s]
          PROVE  latch'[s] \/ \E u \in Thread : u[1] = s /\ pc'[u] = "abort"
        <3>1. CASE s = t[1]
            BY <2>5, <3>1
        <3>2. CASE s # t[1]
            BY <2>1, <2>3, <2>4, <2>8, <3>2 DEF HaltInv
        <3> QED
            BY <3>1, <3>2
    <2> QED
        BY <2>1, <2>6, <2>7, <2>8 DEF HaltInv, FalseHaltsStream
<1>8. ASSUME NEW t \in Thread, ThreadStep(t) PROVE HaltInv'
    <2>1. CASE StartNested(t)
        BY <1>2, <2>1 DEF StartNested
    <2> QED
        BY <1>3, <1>4, <1>5, <1>6, <1>7, <1>8, <2>1 DEF ThreadStep
<1>9. CASE StartScript \/ (\E s \in Stream : Return(s)) \/ Finished \/ UNCHANGED vars
    BY <1>2, <1>9 DEF StartScript, Return, Finished, vars
<1> QED
    BY <1>8, <1>9 DEF Next

(* In a scan of one node after another a stream has one active thread at   *)
(* most, and one that was halted has none but the one that aborts.         *)
THEOREM HaltInvariance ==
    ASSUME ~Concurrent
    PROVE  Spec => []HaltInv
<1>1. Init => HaltInv
    <2> SUFFICES ASSUME Init PROVE HaltInv
        OBVIOUS
    <2>1. /\ \A t \in Thread : pc[t] = "off"
          /\ \A s \in Stream : ~halted[s] /\ ~late[s]
        BY DEF Init
    <2> QED
        BY <2>1, ThreadFacts DEF HaltInv, FalseHaltsStream
<1>2. Inv /\ HaltInv /\ [Next]_vars => HaltInv'
    BY HaltStep
<1> QED
    BY <1>1, <1>2, StreamInvariance, PTL DEF Spec

(* In a scan of one node after another, a callback that returns false is   *)
(* the last one of its stream.                                             *)
THEOREM FalseIsFinal ==
    ASSUME ~Concurrent
    PROVE  Spec => []FalseHaltsStream
<1>1. HaltInv => FalseHaltsStream
    BY DEF HaltInv
<1> QED
    BY <1>1, HaltInvariance, PTL

=============================================================================
