------------------------------ MODULE ApiCalls ------------------------------
(***************************************************************************)
(* One call of a method of the Aerospike class after another, on one       *)
(* client, and how each reports and cleans up.                             *)
(*                                                                         *)
(* Nearly every method of client/*.c follows one protocol: forget the last *)
(* error, check the object, validate and convert the arguments one by one  *)
(* (each conversion may allocate), call the C client, convert the answer,  *)
(* and leave through a CLEANUP label that records the error in the object  *)
(* and destroys what was made.  The protocol is kept by hand, and a test   *)
(* reaches few of the ways out.  Here a method is a sequence of steps,     *)
(* each with what its failure leaves behind and where it goes (ApiMethods  *)
(* holds the table), and this module runs them.                            *)
(*                                                                         *)
(* A definition named Mut_<fault>_<name> is <name> with that fault in it:  *)
(* the properties are tested against them.                                 *)
(*                                                                         *)
(* Source: client/php_client_utils.c, client/aerospike_class.c.            *)
(***************************************************************************)
EXTENDS Naturals, Sequences

CONSTANTS
    Table,          \* the methods: [steps, frees, reports, answers, unset]
    Unreported,     \* methods exempt from ErrornoIsStatus
    Unfinished,     \* methods exempt from OkIsDone
    Unchecked,      \* methods exempt from RefusedIsUnsent
    Leaks           \* what AllReleased allows a method to leave: <<method, thing>>

Method == DOMAIN Table

(* PARAM stands for every code that the validation of an argument sets,    *)
(* SERVER for every code that a request brings back.  unset: an as_error   *)
(* that was never initialised.                                             *)
Code == {"OK", "PARAM", "CLIENT", "CLUSTER", "SERVER"}

VARIABLES
    usable,         \* the object: invalid, closed (is_connected false), open
    errorno,        \* client_error.code, what errorno() returns
    running,        \* the method that runs, or "none"
    last,           \* the method called last
    at,             \* its next step; past the last one: CLEANUP
    err,            \* the code in its as_error
    status,         \* what the last call returned
    held,           \* what the call made and has not destroyed
    failed          \* history: a step of the call failed

vars == <<usable, errorno, running, last, at, err, status, held, failed>>

TypeOK ==
    /\ usable \in {"invalid", "closed", "open"}
    /\ errorno \in Code
    /\ running \in Method \cup {"none"}
    /\ last \in Method \cup {"close", "reconnect", "none"}
    /\ at \in Nat
    /\ err \in Code \cup {"unset"}
    /\ status \in Code \cup {"unset", "NULL", "value"}
    /\ failed \in BOOLEAN

(* The constructor returned, or threw and left the object invalid. *)
Init ==
    /\ usable \in {"invalid", "open"}
    /\ errorno = "OK"
    /\ running = "none"
    /\ last = "none"
    /\ at = 1
    /\ err = "OK"
    /\ status = "OK"
    /\ held = {}
    /\ failed = FALSE

Steps == Table[running].steps
Here == Steps[at]
InSteps == running # "none" /\ at <= Len(Steps)

-----------------------------------------------------------------------------
(* The error kept in the object. *)

update_client_error(code) == errorno' = code

Mut_KeepsLast_reset_client_error == UNCHANGED errorno

reset_client_error == errorno' = "OK"

(* The codes with which the tests of the object refuse the call: those of  *)
(* check_object_and_connection, or ERR_CLIENT for both (kind own_check).   *)
check_object_and_connection(kind) ==
    CASE usable = "open"                            -> {}
      [] usable = "closed" /\ kind = "check"        -> {"CLUSTER"}
      [] usable = "invalid" \/ kind = "own_check"   -> {"CLIENT"}

-----------------------------------------------------------------------------
(* close() and reconnect(), which change the object. *)

(* close() neither forgets nor records an error.  It is refused only on an *)
(* object that has no handle; an invalid object may have one.              *)
Close ==
    /\ running = "none"
    /\ last' = "close"
    /\ \/ /\ usable = "invalid"
          /\ status' = "CLIENT"
          /\ UNCHANGED usable
       \/ /\ status' = "OK"
          /\ usable' = IF usable = "invalid" THEN "invalid" ELSE "closed"
    /\ failed' = (status' # "OK")
    /\ held' = {}
    /\ UNCHANGED <<errorno, running, at, err>>

Reconnect ==
    /\ running = "none"
    /\ last' = "reconnect"
    /\ \/ /\ usable # "closed"
          /\ update_client_error("CLIENT")
          /\ status' = "CLIENT"
          /\ UNCHANGED usable
       \/ /\ usable = "closed"
          /\ update_client_error("SERVER")
          /\ status' = "SERVER"
          /\ UNCHANGED usable
       \/ /\ usable = "closed"
          /\ reset_client_error
          /\ status' = "OK"
          /\ usable' = "open"
    /\ failed' = (status' # "OK")
    /\ held' = {}
    /\ UNCHANGED <<running, at, err>>

-----------------------------------------------------------------------------
(* A method's steps. *)

Call(m) ==
    /\ running = "none"
    /\ running' = m
    /\ last' = m
    /\ at' = 1
    /\ err' = IF Table[m].unset THEN "unset" ELSE "OK"
    /\ held' = {}
    /\ failed' = FALSE
    /\ UNCHANGED <<usable, errorno, status>>

(* reset_client_error is a step of its own: some methods check the object  *)
(* before it.                                                              *)
StepReset ==
    /\ InSteps
    /\ Here.kind = "reset"
    /\ reset_client_error
    /\ at' = at + 1
    /\ UNCHANGED <<usable, running, last, err, status, held, failed>>

Mut_SkipsErrTest_StepPasses ==
    /\ InSteps
    /\ \/ Here.kind \in {"check", "own_check"} /\ usable = "open"
       \/ Here.kind \in {"test", "call", "err_test"}
    /\ at' = at + 1
    /\ held' = held \cup Here.gives
    /\ err' = IF Here.kind = "call" THEN "OK" ELSE err
    /\ UNCHANGED <<usable, errorno, running, last, status, failed>>

(* A step succeeds.  A request resets err first (external): append and     *)
(* increment return an err that nothing else initialises.                  *)
StepPasses ==
    /\ InSteps
    /\ \/ Here.kind \in {"check", "own_check"} /\ usable = "open"
       \/ Here.kind \in {"test", "call"}
       \/ Here.kind = "err_test" /\ err = "OK"
    /\ at' = at + 1
    /\ held' = held \cup Here.gives
    /\ err' = IF Here.kind = "call" THEN "OK" ELSE err
    /\ UNCHANGED <<usable, errorno, running, last, status, failed>>

Mut_DropsAnswer_Leaves ==
    CASE Here.kind \in {"check", "own_check"}   -> check_object_and_connection(Here.kind)
      [] Here.kind = "call"                     -> {err}
      [] Here.kind = "err_test"                 -> {err} \ {"OK"}
      [] Here.kind = "reset"                    -> {}
      [] Here.kind = "test" -> {IF c = "kept" THEN err ELSE c : c \in Here.errs}

(* The codes that the failing step may leave in err. *)
Leaves ==
    CASE Here.kind \in {"check", "own_check"}   -> check_object_and_connection(Here.kind)
      [] Here.kind = "call"                     -> {"SERVER"}
      [] Here.kind = "err_test"                 -> {err} \ {"OK"}
      [] Here.kind = "reset"                    -> {}
      [] Here.kind = "test" -> {IF c = "kept" THEN err ELSE c : c \in Here.errs}

(* What the step, or the way out, passes to update_client_error. *)
Says(what, code) ==
    IF what = "nothing" THEN UNCHANGED errorno
    ELSE update_client_error(IF what = "err" THEN code ELSE what)

(* A step fails, and may leave behind what it lost: it may record the      *)
(* failure, and then goes on, goes to CLEANUP or returns from where it     *)
(* stands.                                                                 *)
StepFails ==
    /\ InSteps
    /\ \E code \in Leaves :
        /\ err' = code
        /\ Says(Here.says, code)
        /\ \/ /\ Here.to = "go_on"
              /\ at' = at + 1
              /\ UNCHANGED <<running, status>>
           \/ /\ Here.to = "cleanup"
              /\ at' = Len(Steps) + 1
              /\ UNCHANGED <<running, status>>
           \/ /\ Here.to \notin {"go_on", "cleanup"}
              /\ status' = IF Here.to = "err" THEN code ELSE Here.to
              /\ running' = "none"
              /\ UNCHANGED at
    /\ \E lost \in SUBSET Here.loses : held' = held \cup lost
    /\ failed' = TRUE
    /\ UNCHANGED <<usable, last>>

Mut_FreesOnErrorOnly_Cleanup ==
    /\ running # "none"
    /\ at > Len(Steps)
    /\ held' = IF err = "OK" THEN held ELSE held \ Table[running].frees
    /\ IF Table[running].reports /\ err # "OK" THEN update_client_error(err)
       ELSE UNCHANGED errorno
    /\ status' = err
    /\ running' = "none"
    /\ UNCHANGED <<usable, last, at, err, failed>>

(* The CLEANUP label, which a method without a failure reaches as well. *)
Cleanup ==
    /\ running # "none"
    /\ at > Len(Steps)
    /\ held' = held \ Table[running].frees
    /\ IF Table[running].reports /\ err # "OK" THEN update_client_error(err)
       ELSE UNCHANGED errorno
    /\ status' = CASE Table[running].answers = "code"           -> err
                   [] Table[running].answers = "value"          -> 
                        IF err = "OK" /\ ~failed THEN "value" ELSE "NULL"
                   [] Table[running].answers = "always_value"   -> "value"
    /\ running' = "none"
    /\ UNCHANGED <<usable, last, at, err, failed>>

Next ==
    \/ Close
    \/ Reconnect
    \/ \E m \in Method : Call(m)
    \/ StepReset
    \/ StepPasses
    \/ StepFails
    \/ Cleanup

Spec == Init /\ [][Next]_vars

-----------------------------------------------------------------------------
(* Properties. *)

Idle == running = "none"

(* errorno() after a call is what the call returned; a method that answers *)
(* with a value has left an error exactly when it answered NULL            *)
(* (doc/phpdoc/aerospike.php, errorno(): the code of the last operation).  *)
ErrornoIsStatus ==
    Idle /\ last \notin Unreported =>
        CASE status = "NULL"                    -> errorno # "OK"
          [] status = "value"                   -> errorno = "OK"
          [] status \notin {"NULL", "value"}    -> errorno = status

(* A call that reports success had no failing step: no validation,         *)
(* conversion or request of it failed without the script being told.       *)
OkIsDone ==
    Idle /\ last \notin Unfinished /\ status \in {"OK", "value"} => ~failed

(* No request leaves the client after a step of its call has failed: not   *)
(* on a client that is not connected, and never with arguments that could  *)
(* not be converted.                                                       *)
RefusedIsUnsent ==
    InSteps /\ last \notin Unchecked /\ Here.kind = "call" => ~failed

(* What a method has allocated, or a conversion that failed has left half  *)
(* made, is destroyed when the method returns, whichever way it leaves:    *)
(* all of it but the known leaks, which are named thing by thing.          *)
AllReleased ==
    Idle => \A x \in held : <<last, x>> \in Leaks

=============================================================================
