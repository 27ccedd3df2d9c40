--------------------------- MODULE ModuleGlobals ---------------------------
(***************************************************************************)
(* The script functions kept in the module's globals: the serializer, the  *)
(* deserializer and the log handler, from the request in which a script    *)
(* registers them to its end and beyond.                                   *)
(*                                                                         *)
(* Each has a slot: a flag, the call info (which names the function and    *)
(* holds a reference to it) and a cache of the resolved function.  Setting *)
(* one takes several assignments, without a lock; the library's own        *)
(* threads, which live as long as the persistent connections, read the log *)
(* slot whenever they log.  The build is not thread-safe PHP (ZTS), where  *)
(* log handlers are refused.                                               *)
(*                                                                         *)
(* A definition named Mut_<fault>_<name> is <name> with that fault in it.  *)
(*                                                                         *)
(* Source: aerospike.c, client/user_serializers.c, client/log_handlers.c,  *)
(* serializers.c.                                                          *)
(***************************************************************************)
EXTENDS Naturals

CONSTANTS
    Fun,            \* functions and closures of scripts
    NoFun,          \* a zeroed call info or cache
    Thread          \* the library's own threads

ASSUME FunAssumption == NoFun \notin Fun

Slot == {"serializer", "deserializer", "log"}

VARIABLES
    request,        \* "out", "in", or "ending": RSHUTDOWN is done and the script's symbols are not yet gone
    slot,           \* the globals
    script,         \* the functions the script itself keeps a reference to
    refs,           \* the references the globals hold, as pairs of a slot and a function
    main,           \* the statement the main thread is at in a set method, and its arguments
    hook,           \* as_log_set_callback was called
    lib,            \* each library thread in aerospike_helper_log_callback
    dead            \* history: where a function was called that was gone, or with the cache of another

vars == <<request, slot, script, refs, main, hook, lib, dead>>

MaybeFun == Fun \cup {NoFun}
Statement == {"release", "clear", "info", "retain", "cache", "flag", "hook"}

TypeOK ==
  /\ request \in {"out", "in", "ending"}
  /\ slot \in [Slot -> [flag : BOOLEAN, info : MaybeFun, cache : MaybeFun]]
  /\ script \subseteq Fun
  /\ refs \subseteq Slot \X Fun
  /\ main \in [at : Statement \cup {"idle"}, s : Slot, f : MaybeFun]
  /\ hook \in BOOLEAN
  /\ lib \in [Thread -> [at : {"idle", "info", "cache", "call"}, info : MaybeFun, cache : MaybeFun]]
  /\ dead \subseteq {"main", "shutdown", "thread"}

Alive(f) == f \in script \/ \E s \in Slot : <<s, f>> \in refs

Callable(info, cache) == info = cache /\ Alive(info)

Zeroed == [flag |-> FALSE, info |-> NoFun, cache |-> NoFun]

(* PHP_GINIT_FUNCTION *)
Init ==
  /\ request = "out"
  /\ slot = [s \in Slot |-> Zeroed]
  /\ script = {} /\ refs = {}
  /\ main = [at |-> "idle", s |-> "log", f |-> NoFun]
  /\ hook = FALSE
  /\ lib = [t \in Thread |-> [at |-> "idle", info |-> NoFun, cache |-> NoFun]]
  /\ dead = {}

Idle == main.at = "idle"

-----------------------------------------------------------------------------
(* The request. *)

RInit ==
  /\ request = "out"
  /\ request' = "in"
  /\ slot' = [s \in Slot |-> Zeroed]
  /\ UNCHANGED <<script, refs, main, hook, lib, dead>>

(* The functions are released; the flags stay until the next RINIT. *)
RShutdown ==
  /\ request = "in" /\ Idle
  /\ request' = "ending"
  /\ refs' = refs \ {<<s, slot[s].info>> : s \in {x \in Slot : slot[x].flag}}
  /\ UNCHANGED <<slot, script, main, hook, lib, dead>>

(* External: the engine destroys the script's symbols. *)
SymbolsGone ==
  /\ request = "ending"
  /\ request' = "out" /\ script' = {}
  /\ UNCHANGED <<slot, refs, main, hook, lib, dead>>

(* The script makes a function, and lets go of one it is not passing on. *)
Make(f) ==
  /\ request = "in" /\ ~Alive(f)
  /\ script' = script \cup {f}
  /\ UNCHANGED <<request, slot, refs, main, hook, lib, dead>>

Drop(f) ==
  /\ request = "in" /\ f \in script
  /\ Idle \/ main.f # f
  /\ script' = script \ {f}
  /\ UNCHANGED <<request, slot, refs, main, hook, lib, dead>>

-----------------------------------------------------------------------------
(* setSerializer, setDeserializer and setLogHandler: one statement a step.  *)

Follows(s, at) ==
  CASE s = "serializer" ->
         CASE at = "release" -> "clear" [] at = "clear" -> "info" [] at = "info" -> "flag"
           [] at = "flag" -> "retain" [] at = "retain" -> "cache" [] OTHER -> "idle"
    [] s = "deserializer" ->
         CASE at = "release" -> "info" [] at = "info" -> "retain" [] at = "retain" -> "cache"
           [] at = "cache" -> "flag" [] OTHER -> "idle"
    [] OTHER ->
         CASE at = "release" -> "clear" [] at = "clear" -> "retain" [] at = "retain" -> "info"
           [] at = "info" -> "cache" [] at = "cache" -> "flag" [] at = "flag" -> "hook" [] OTHER -> "idle"

Set(s, f) ==
  /\ request = "in" /\ Idle /\ f \in script
  /\ main' = [at |-> "release", s |-> s, f |-> f]
  /\ UNCHANGED <<request, slot, script, refs, hook, lib, dead>>

At(statement) == main.at = statement /\ main' = [main EXCEPT !.at = Follows(main.s, statement)]

(* The function registered before is let go. *)
Mut_KeepsOld_Release ==
  /\ At("release")
  /\ UNCHANGED <<request, slot, script, refs, hook, lib, dead>>

Release ==
  /\ At("release")
  /\ refs' = IF slot[main.s].flag THEN refs \ {<<main.s, slot[main.s].info>>} ELSE refs
  /\ UNCHANGED <<request, slot, script, hook, lib, dead>>

Assign(value) ==
  /\ slot' = [slot EXCEPT ![main.s] = value]
  /\ UNCHANGED <<request, script, refs, hook, lib, dead>>

Clear == At("clear") /\ Assign([slot[main.s] EXCEPT !.flag = FALSE])
CopyInfo == At("info") /\ Assign([slot[main.s] EXCEPT !.info = main.f])
CopyCache == At("cache") /\ Assign([slot[main.s] EXCEPT !.cache = main.f])
Raise == At("flag") /\ Assign([slot[main.s] EXCEPT !.flag = TRUE])

(* Z_TRY_ADDREF *)
Mut_NoAddref_Retain ==
  /\ At("retain")
  /\ UNCHANGED <<request, slot, script, refs, hook, lib, dead>>

Retain ==
  /\ At("retain")
  /\ refs' = refs \cup {<<main.s, main.f>>}
  /\ UNCHANGED <<request, slot, script, hook, lib, dead>>

Hook ==
  /\ At("hook")
  /\ hook' = TRUE
  /\ UNCHANGED <<request, slot, script, refs, lib, dead>>

-----------------------------------------------------------------------------
(* Calls.  A slot that is not flagged calls nothing. *)

Called(info, cache, where) ==
  dead' = IF Callable(info, cache) THEN dead ELSE dead \cup {where}

(* serialize_with_user_function, unserialize_with_user_function, and the    *)
(* log callback in a library call of a method.                              *)
MainCalls(s) ==
  /\ request = "in" /\ Idle /\ slot[s].flag
  /\ s = "log" => hook
  /\ Called(slot[s].info, slot[s].cache, "main")
  /\ UNCHANGED <<request, slot, script, refs, main, hook, lib>>

(* The log callback while connections are closed at the end of the process. *)
ShutdownLogs ==
  /\ request = "out" /\ hook /\ slot["log"].flag
  /\ Called(slot["log"].info, slot["log"].cache, "shutdown")
  /\ UNCHANGED <<request, slot, script, refs, main, hook, lib>>

(* aerospike_helper_log_callback on a thread of the library. *)
LogCheck(t) ==
  /\ lib[t].at = "idle" /\ hook /\ slot["log"].flag
  /\ lib' = [lib EXCEPT ![t].at = "info"]
  /\ UNCHANGED <<request, slot, script, refs, main, hook, dead>>

LogCopyInfo(t) ==
  /\ lib[t].at = "info"
  /\ lib' = [lib EXCEPT ![t].at = "cache", ![t].info = slot["log"].info]
  /\ UNCHANGED <<request, slot, script, refs, main, hook, dead>>

LogCopyCache(t) ==
  /\ lib[t].at = "cache"
  /\ lib' = [lib EXCEPT ![t].at = "call", ![t].cache = slot["log"].cache]
  /\ UNCHANGED <<request, slot, script, refs, main, hook, dead>>

LogCall(t) ==
  /\ lib[t].at = "call"
  /\ Called(lib[t].info, lib[t].cache, "thread")
  /\ lib' = [lib EXCEPT ![t].at = "idle", ![t].info = NoFun, ![t].cache = NoFun]
  /\ UNCHANGED <<request, slot, script, refs, main, hook>>

Statements == Release \/ Clear \/ CopyInfo \/ CopyCache \/ Raise \/ Retain \/ Hook

Next ==
  \/ RInit \/ RShutdown \/ SymbolsGone
  \/ \E f \in Fun : Make(f) \/ Drop(f)
  \/ \E s \in Slot, f \in Fun : Set(s, f)
  \/ Statements
  \/ \E s \in Slot : MainCalls(s)
  \/ ShutdownLogs
  \/ \E t \in Thread : LogCheck(t) \/ LogCopyInfo(t) \/ LogCopyCache(t) \/ LogCall(t)

Spec == Init /\ [][Next]_vars

-----------------------------------------------------------------------------
(* A function the script registered is alive whenever a method calls it,    *)
(* and called as itself: the globals hold a reference of their own, so the  *)
(* script may let go of it, register it twice or in two slots, or replace   *)
(* it.                                                                      *)
CalledIsAlive == "main" \notin dead

(* The globals hold one reference for each registered function and none     *)
(* otherwise: nothing is kept beyond the request, or released under the     *)
(* script that still has it.                                                *)
RefsBalanced ==
  /\ (request = "in" /\ Idle) => refs = {<<s, slot[s].info>> : s \in {x \in Slot : slot[x].flag}}
  /\ request # "in" => refs = {}

(* A log handler is alive and whole whenever it is called, on whatever      *)
(* thread: setLogHandler clears the flag while it replaces a handler.       *)
LoggedToLive == dead = {}
=============================================================================
