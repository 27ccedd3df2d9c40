-------------------------- MODULE StreamCallbacks --------------------------
(***************************************************************************)
(* Aerospike::scan() and Aerospike::query() while records stream back.     *)
(*                                                                         *)
(* The C client delivers records from one thread per node; every thread    *)
(* calls user_callback_wrapper, which runs the script's callback under     *)
(* AEROSPIKE_G(query_cb_mutex).  The method, the library and all callbacks *)
(* of a stream share one as_error on the method's stack: the library       *)
(* writes a node's failure into it without holding the mutex, and the      *)
(* record conversion returns whatever code it finds there.                 *)
(*                                                                         *)
(* A callback is script code and may start a stream of its own: stream 2   *)
(* is run by a callback of stream 1.                                       *)
(*                                                                         *)
(* A definition named Mut_<fault>_<name> is <name> with that fault in it:  *)
(* the properties are tested against them.                                 *)
(*                                                                         *)
(* Source: user_callbacks.c, client/scan.c, client/query.c.                *)
(***************************************************************************)
EXTENDS Naturals, FiniteSets

CONSTANTS
    Node,           \* the cluster's nodes, one delivering thread each
    MaxRecords,     \* bound on the records a node delivers
    Concurrent,     \* all nodes at once (query, OPT_SCAN_CONCURRENTLY) or in turn
    MayNest         \* whether a callback may start a stream

ASSUME RecordsAssumption == MaxRecords \in Nat
ASSUME FlagsAssumption == Concurrent \in BOOLEAN /\ MayNest \in BOOLEAN

Stream == {1, 2}
Thread == Stream \X Node
Nobody == <<0, 0>>                  \* query_cb_mutex is free

VARIABLES
    stream,         \* each stream: not started, in aerospike_*_foreach, returned
    pc,             \* where each delivering thread is
    left,           \* the records its node has still to deliver
    err,            \* the code of the stream's shared as_error
    latch,          \* the library's error_mutex: a node failed or was aborted
    cb_mutex,       \* the thread that holds query_cb_mutex
    caller,         \* the thread whose callback runs stream 2
    exception,      \* EG(exception): a callback or a deserializer threw
    cb_failed,      \* history: a callback or a conversion of the stream failed
    node_failed,    \* history: a node's failure was written to err
    halted,         \* history: a callback of the stream returned false
    late,           \* history: a callback began after another returned false
    skipped         \* history: a record of the stream was not given to it

history == <<cb_failed, node_failed, halted, late, skipped>>
vars == <<stream, pc, left, err, latch, cb_mutex, caller, exception, history>>

Code == {"OK", "PARAM", "CLIENT", "NODE"}

(* off: not started.  receive: in the library.  lock: in the wrapper,      *)
(* before the mutex.  convert, call, raise: inside it.  abort: the wrapper *)
(* returned false.  end: the thread is done.                               *)
PC == {"off", "receive", "lock", "convert", "call", "raise", "abort", "end"}
InPhp == {"convert", "call", "raise"}

TypeOK ==
    /\ stream \in [Stream -> {"idle", "running", "done"}]
    /\ pc \in [Thread -> PC]
    /\ left \in [Thread -> 0 .. MaxRecords]
    /\ err \in [Stream -> Code]
    /\ latch \in [Stream -> BOOLEAN]
    /\ cb_mutex \in Thread \cup {Nobody}
    /\ caller \in Thread \cup {Nobody}
    /\ exception \in BOOLEAN
    /\ cb_failed \in [Stream -> BOOLEAN]
    /\ node_failed \in [Stream -> BOOLEAN]
    /\ halted \in [Stream -> BOOLEAN]
    /\ late \in [Stream -> BOOLEAN]
    /\ skipped \in [Stream -> BOOLEAN]

Init ==
    /\ stream = [s \in Stream |-> "idle"]
    /\ pc = [t \in Thread |-> "off"]
    /\ left = [t \in Thread |-> 0]
    /\ err = [s \in Stream |-> "OK"]
    /\ latch = [s \in Stream |-> FALSE]
    /\ cb_mutex = Nobody
    /\ caller = Nobody
    /\ exception = FALSE
    /\ cb_failed = [s \in Stream |-> FALSE]
    /\ node_failed = [s \in Stream |-> FALSE]
    /\ halted = [s \in Stream |-> FALSE]
    /\ late = [s \in Stream |-> FALSE]
    /\ skipped = [s \in Stream |-> FALSE]

MoveTo(t, where) == pc' = [pc EXCEPT ![t] = where]

-----------------------------------------------------------------------------
(* The methods.  What they refuse before the library is called is left out.*)

StartScript ==
    /\ stream[1] = "idle"
    /\ stream' = [stream EXCEPT ![1] = "running"]
    /\ UNCHANGED <<pc, left, err, latch, cb_mutex, caller, exception, history>>

(* A callback calls scan() or query(); its thread now waits in the nested  *)
(* aerospike_*_foreach.                                                    *)
StartNested(t) ==
    /\ MayNest
    /\ t[1] = 1
    /\ pc[t] = "call"
    /\ ~exception
    /\ stream[2] = "idle"
    /\ stream' = [stream EXCEPT ![2] = "running"]
    /\ caller' = t
    /\ UNCHANGED <<pc, left, err, latch, cb_mutex, exception, history>>

(* aerospike_*_foreach returns when every thread of the stream is done; a  *)
(* stream run in turn does not start further nodes after a failure.  The   *)
(* method reports the code in err, whatever the library returned.          *)
Return(s) ==
    /\ stream[s] = "running"
    /\ \A n \in Node : \/ pc[<<s, n>>] = "end"
                       \/ pc[<<s, n>>] = "off" /\ latch[s]
    /\ stream' = [stream EXCEPT ![s] = "done"]
    /\ UNCHANGED <<pc, left, err, latch, cb_mutex, caller, exception, history>>

-----------------------------------------------------------------------------
(* The library (external). *)

NodeStarts(t) ==
    /\ stream[t[1]] = "running"
    /\ pc[t] = "off"
    /\ \/ Concurrent
       \/ /\ ~latch[t[1]]
          /\ \A n \in Node : pc[<<t[1], n>>] \in {"off", "end"}
    /\ MoveTo(t, "receive")
    /\ \E records \in 0 .. MaxRecords : left' = [left EXCEPT ![t] = records]
    /\ UNCHANGED <<stream, err, latch, cb_mutex, caller, exception, history>>

(* A record arrives and the library calls user_callback_wrapper with it. *)
RecordArrives(t) ==
    /\ pc[t] = "receive"
    /\ left[t] > 0
    /\ left' = [left EXCEPT ![t] = @ - 1]
    /\ MoveTo(t, "lock")
    /\ UNCHANGED <<stream, err, latch, cb_mutex, caller, exception, history>>

(* The last record was delivered, or the thread notices that another node  *)
(* failed or was aborted.                                                  *)
NodeEnds(t) ==
    /\ pc[t] = "receive"
    /\ left[t] = 0 \/ latch[t[1]]
    /\ MoveTo(t, "end")
    /\ UNCHANGED <<stream, left, err, latch, cb_mutex, caller, exception,
                   history>>

(* A timeout, a lost connection, a server error: the first of a stream is  *)
(* copied to the shared error.                                             *)
NodeFails(t) ==
    /\ pc[t] = "receive"
    /\ MoveTo(t, "end")
    /\ latch' = [latch EXCEPT ![t[1]] = TRUE]
    /\ err' = IF latch[t[1]] THEN err ELSE [err EXCEPT ![t[1]] = "NODE"]
    /\ node_failed' = [node_failed EXCEPT ![t[1]] = @ \/ ~latch[t[1]]]
    /\ UNCHANGED <<stream, left, cb_mutex, caller, exception, cb_failed,
                   halted, late, skipped>>

(* The wrapper returned false: an abort, which is not copied to err. *)
NodeAborts(t) ==
    /\ pc[t] = "abort"
    /\ MoveTo(t, "end")
    /\ latch' = [latch EXCEPT ![t[1]] = TRUE]
    /\ UNCHANGED <<stream, left, err, cb_mutex, caller, exception, history>>

-----------------------------------------------------------------------------
(* user_callback_wrapper. *)

Mut_NoLock_Lock(t) ==
    /\ pc[t] = "lock"
    /\ cb_mutex' = t
    /\ MoveTo(t, "convert")
    /\ UNCHANGED <<stream, left, err, latch, caller, exception, history>>

Lock(t) ==
    /\ pc[t] = "lock"
    /\ cb_mutex = Nobody
    /\ cb_mutex' = t
    /\ MoveTo(t, "convert")
    /\ UNCHANGED <<stream, left, err, latch, caller, exception, history>>

(* as_record_to_zval returns err->code: it fails when this record cannot   *)
(* be converted, and when the shared error was already set.  A             *)
(* deserializer of the script may throw meanwhile, whatever comes of it.   *)
Convert(t) ==
    LET s == t[1] IN
    /\ pc[t] = "convert"
    /\ exception' \in {exception, TRUE}
    /\ \/ /\ err[s] = "OK"
          /\ MoveTo(t, "call")
          /\ late' = [late EXCEPT ![s] = @ \/ (halted[s] /\ ~exception')]
          /\ UNCHANGED <<err, cb_failed>>
       \/ /\ err[s] # "OK"
          /\ MoveTo(t, "raise")
          /\ UNCHANGED <<err, late, cb_failed>>
       \/ /\ err' = [err EXCEPT ![s] = "CLIENT"]
          /\ cb_failed' = [cb_failed EXCEPT ![s] = TRUE]
          /\ MoveTo(t, "raise")
          /\ UNCHANGED late
    /\ UNCHANGED <<stream, left, latch, cb_mutex, caller, node_failed, halted,
                   skipped>>

Unlock == cb_mutex' = Nobody

(* The callback is not in a stream of its own. *)
CallbackRuns(t) == pc[t] = "call" /\ (caller = t => stream[2] = "done")

Mut_NeedsTrue_CallbackReturns(t) ==
    /\ CallbackRuns(t)
    /\ ~exception
    /\ Unlock
    /\ \E where \in {"receive", "abort"} : MoveTo(t, where)
    /\ UNCHANGED <<stream, left, err, latch, caller, exception, history>>

(* The callback returns something other than false: go on. *)
CallbackReturns(t) ==
    /\ CallbackRuns(t)
    /\ ~exception
    /\ Unlock
    /\ MoveTo(t, "receive")
    /\ UNCHANGED <<stream, left, err, latch, caller, exception, history>>

(* While an exception is pending the callback is not called.  From PHP 8.2 *)
(* on, zend_call_function succeeds all the same, without a return value:   *)
(* the stream goes on and the script never sees the record.                *)
CallbackSkipped(t) ==
    /\ CallbackRuns(t)
    /\ exception
    /\ skipped' = [skipped EXCEPT ![t[1]] = TRUE]
    /\ Unlock
    /\ MoveTo(t, "receive")
    /\ UNCHANGED <<stream, left, err, latch, caller, exception, cb_failed,
                   node_failed, halted, late>>

(* The callback throws.  zend_call_function succeeds without a return      *)
(* value, so the stream goes on with the exception pending.                *)
CallbackThrows(t) ==
    /\ CallbackRuns(t)
    /\ ~exception
    /\ exception' = TRUE
    /\ Unlock
    /\ MoveTo(t, "receive")
    /\ UNCHANGED <<stream, left, err, latch, caller, history>>

Mut_GoesOn_CallbackReturnsFalse(t) ==
    /\ CallbackRuns(t)
    /\ ~exception
    /\ halted' = [halted EXCEPT ![t[1]] = TRUE]
    /\ Unlock
    /\ MoveTo(t, "receive")
    /\ UNCHANGED <<stream, left, err, latch, caller, exception, cb_failed,
                   node_failed, late, skipped>>

CallbackReturnsFalse(t) ==
    /\ CallbackRuns(t)
    /\ ~exception
    /\ halted' = [halted EXCEPT ![t[1]] = TRUE]
    /\ Unlock
    /\ MoveTo(t, "abort")
    /\ UNCHANGED <<stream, left, err, latch, caller, exception, cb_failed,
                   node_failed, late, skipped>>

Mut_UnlocksFirst_CallbackFails(t) ==
    /\ CallbackRuns(t)
    /\ err' = [err EXCEPT ![t[1]] = "CLIENT"]
    /\ cb_failed' = [cb_failed EXCEPT ![t[1]] = TRUE]
    /\ Unlock
    /\ MoveTo(t, "raise")
    /\ UNCHANGED <<stream, left, latch, caller, exception, node_failed,
                   halted, late, skipped>>

(* zend_call_function fails, before PHP 8.2 always while an exception is   *)
(* pending.                                                                *)
CallbackFails(t) ==
    /\ CallbackRuns(t)
    /\ err' = [err EXCEPT ![t[1]] = "CLIENT"]
    /\ cb_failed' = [cb_failed EXCEPT ![t[1]] = TRUE]
    /\ MoveTo(t, "raise")
    /\ UNCHANGED <<stream, left, latch, cb_mutex, caller, exception,
                   node_failed, halted, late, skipped>>

Mut_ForgetsError_Raise(t) ==
    /\ pc[t] = "raise"
    /\ err' = [err EXCEPT ![t[1]] = "OK"]
    /\ Unlock
    /\ MoveTo(t, "abort")
    /\ UNCHANGED <<stream, left, latch, caller, exception, history>>

Mut_KeepsLock_Raise(t) ==
    /\ pc[t] = "raise"
    /\ err' = [err EXCEPT ![t[1]] = "PARAM"]
    /\ MoveTo(t, "abort")
    /\ UNCHANGED <<stream, left, latch, cb_mutex, caller, exception, history>>

(* "Callback raised an error" *)
Raise(t) ==
    /\ pc[t] = "raise"
    /\ err' = [err EXCEPT ![t[1]] = "PARAM"]
    /\ Unlock
    /\ MoveTo(t, "abort")
    /\ UNCHANGED <<stream, left, latch, caller, exception, history>>

-----------------------------------------------------------------------------
ThreadStep(t) ==
    \/ NodeStarts(t)
    \/ RecordArrives(t)
    \/ NodeEnds(t)
    \/ NodeFails(t)
    \/ NodeAborts(t)
    \/ Lock(t)
    \/ Convert(t)
    \/ CallbackReturns(t)
    \/ CallbackSkipped(t)
    \/ CallbackThrows(t)
    \/ CallbackReturnsFalse(t)
    \/ CallbackFails(t)
    \/ Raise(t)
    \/ StartNested(t)

Finished == stream[1] = "done" /\ UNCHANGED vars

Next ==
    \/ StartScript
    \/ \E t \in Thread : ThreadStep(t)
    \/ \E s \in Stream : Return(s)
    \/ Finished

Spec == Init /\ [][Next]_vars

(* The operating system runs every thread, the mutex is handed to each     *)
(* waiter in the end (at most MaxRecords others are ahead of it per node), *)
(* and the library gives up on a silent node.                              *)
Fairness ==
    /\ \A t \in Thread : WF_vars(ThreadStep(t))
    /\ \A s \in Stream : WF_vars(Return(s))

FairSpec == Spec /\ Fairness

-----------------------------------------------------------------------------
(* Properties. *)

(* However many nodes deliver at once, one thread at a time converts       *)
(* records and runs script code (query_cb_mutex in user_callback_wrapper), *)
(* on every way out of the wrapper.                                        *)
OneThreadInPhp ==
    \A t, u \in Thread : pc[t] \in InPhp /\ pc[u] \in InPhp => t = u

(* The mutex is held exactly by the thread that is inside. *)
LockHeldInside == \A t \in Thread : pc[t] \in InPhp <=> cb_mutex = t

(* A stream that reports OK had no failed callback, no failed conversion   *)
(* and no node failure, although threads write the shared error without    *)
(* a common lock and an abort is not an error.                             *)
ErrorsAreReported ==
    \A s \in Stream : stream[s] = "done" /\ err[s] = "OK"
        => ~cb_failed[s] /\ ~node_failed[s]

(* A stream that reports OK and was not halted by the script brought every *)
(* record of every node, and gave each to the callback unless an exception *)
(* is on its way to the script: scan() and query() may return OK with      *)
(* records the callback never saw, but then the script does not see that   *)
(* status either.                                                          *)
OkIsComplete ==
    \A s \in Stream : stream[s] = "done" /\ err[s] = "OK" /\ ~halted[s] =>
        /\ \A n \in Node : pc[<<s, n>>] = "end" /\ left[<<s, n>>] = 0
        /\ skipped[s] => exception

(* Why they hold: the error is never cleared, so a latched stream has an   *)
(* error or was halted, and nothing in PHP runs that could catch an        *)
(* exception before the method returns.                                    *)
Inv ==
    /\ TypeOK
    /\ LockHeldInside
    /\ \A s \in Stream : err[s] = "OK" => ~cb_failed[s] /\ ~node_failed[s]
    /\ \A s \in Stream : skipped[s] => exception
    /\ \A t \in Thread : pc[t] = "raise" => err[t[1]] # "OK"
    /\ \A t \in Thread : pc[t] = "abort" => err[t[1]] # "OK" \/ halted[t[1]]
    /\ \A s \in Stream : latch[s] => err[s] # "OK" \/ halted[s]
    /\ \A t \in Thread : pc[t] = "end" =>
          left[t] = 0 \/ err[t[1]] # "OK" \/ halted[t[1]]
    /\ \A s \in Stream : stream[s] = "done" => \A n \in Node :
          pc[<<s, n>>] = "end" \/ (pc[<<s, n>>] = "off" /\ latch[s])

(* "halt the stream by returning a false" (phpdoc of scan): the callback   *)
(* is not called again.                                                    *)
FalseHaltsStream == \A s \in Stream : ~late[s]

(* Why it holds when the nodes deliver in turn: a stream has one active    *)
(* thread at most, a stream that was halted has none but the one that      *)
(* aborts, and once that one is done the latch starts no further node.     *)
HaltInv ==
    /\ \A t, u \in Thread :
          t[1] = u[1] /\ pc[t] \notin {"off", "end"} /\ pc[u] \notin {"off", "end"} => t = u
    /\ \A t \in Thread : halted[t[1]] => pc[t] \in {"off", "end", "abort"}
    /\ \A s \in Stream :
          halted[s] => latch[s] \/ \E t \in Thread : t[1] = s /\ pc[t] = "abort"
    /\ FalseHaltsStream

(* "The status code of the operation" is returned: a stream that was       *)
(* started ends, whatever fails, throws or halts.                          *)
StreamReturns ==
    \A s \in Stream : stream[s] = "running" ~> stream[s] = "done"

=============================================================================
