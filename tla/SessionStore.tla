---------------------------- MODULE SessionStore ----------------------------
(***************************************************************************)
(* The records behind PHP's session handler (session.save_handler =        *)
(* aerospike): one record per session id, shared by every web server.      *)
(*                                                                         *)
(* A request opens the session, has its id validated or created, reads the *)
(* record, runs the script, and writes, touches or removes the record.     *)
(* Nothing locks the record in between.  Each of these is one call to the  *)
(* server, which may succeed, fail before it reached the server (lost), or *)
(* fail at the client and be executed later (delayed: the answer timed     *)
(* out).  The session engine decides which handler runs: what it does is   *)
(* modelled from the handlers' side and marked external.                   *)
(*                                                                         *)
(* A definition named Mut_<fault>_<name> is <name> with that fault in it:  *)
(* the properties are tested against them.                                 *)
(*                                                                         *)
(* Source: client/aerospike_session.c.                                     *)
(***************************************************************************)
EXTENDS Naturals, FiniteSets

CONSTANTS
    Request,        \* PHP requests, on any number of web servers
    Sid,            \* session ids
    NoSid,          \* the client sent no cookie
    None,           \* no record
    Foreign,        \* what a record that is not a session's holds
    Lifetime,       \* session.gc_maxlifetime, in ticks
    TtlSize,        \* a ttl is kept modulo this: 2^32 in the code
    DefaultTtl,     \* what a ttl of 0 means: the namespace's own
    MaxDestroys     \* bound on the destroys counted for an id

ASSUME SidAssumption == NoSid \notin Sid /\ None \notin [data : SUBSET (Request \cup {Foreign}),
                                                         life : Nat, epoch : Nat, late : BOOLEAN]
ASSUME ForeignAssumption == Foreign \notin Request
ASSUME BoundAssumption == MaxDestroys \in Nat /\ DefaultTtl \in Nat

(* The two largest ttls mean "never" and "as it was".  Lifetimes below      *)
(* them survive the cast to uint32_t.                                       *)
ASSUME LifetimeAssumption ==
  TtlSize \in Nat /\ Lifetime \in 1..(TtlSize - 3)

VARIABLES
    strict,         \* session.use_strict_mode
    lazy,           \* session.lazy_write
    store,          \* the record of each id
    req,            \* each request
    issued,         \* history: the ids the servers made themselves
    epoch,          \* history: destroys of the id that were reported done
    idle,           \* history: ticks since a request on the id closed well
    safe            \* history: changes acknowledged while nobody else was at work on the id

history == <<issued, epoch, idle, safe>>
vars == <<strict, lazy, store, req, history>>

(* The record's one bin as the set of requests whose changes it holds; the  *)
(* time it has left; history: the epoch in which its session began, and     *)
(* whether it was written by a request a destroy overtook.                  *)
Record == [data : SUBSET (Request \cup {Foreign}), life : Nat, epoch : Nat, late : BOOLEAN]

(* none: no session.  validate, create, read: about to call that handler.   *)
(* active: the script runs.  put, touch, remove: given up by the client and *)
(* still on its way to the server.  done: a request has one session.        *)
Stage == {"none", "validate", "create", "read", "active", "put", "touch", "remove", "done"}

max_attempts == 5

(* data, epoch and late are as read.  sole: history, the id was made here   *)
(* by an answered check and is nobody else's.  empty: history, there was no *)
(* record when it was read.                                                 *)
RequestState ==
  [stage : Stage, sid : Sid \cup {NoSid}, left : 0..max_attempts,
   data : SUBSET (Request \cup {Foreign}), epoch : Nat, late : BOOLEAN,
   changed : BOOLEAN, sole : BOOLEAN, empty : BOOLEAN]

NoSession ==
  [stage |-> "none", sid |-> NoSid, left |-> max_attempts, data |-> {}, epoch |-> 0,
   late |-> FALSE, changed |-> FALSE, sole |-> FALSE, empty |-> FALSE]

Ended == [NoSession EXCEPT !.stage = "done"]

TypeOK ==
  /\ strict \in BOOLEAN /\ lazy \in BOOLEAN
  /\ store \in [Sid -> Record \cup {None}]
  /\ req \in [Request -> RequestState]
  /\ \A r \in Request : req[r].stage \notin {"none", "create", "done"} => req[r].sid \in Sid
  /\ issued \subseteq Sid
  /\ epoch \in [Sid -> Nat] /\ idle \in [Sid -> Nat]
  /\ safe \in [Sid -> SUBSET (Request \cup {Foreign})]

Exists(s) == store[s] # None

(* r has read the session s and may still write it. *)
Holds(r, s) == req[r].sid = s /\ req[r].stage \in {"active", "put", "touch", "remove", "done"}
Involved(r, s) == req[r].sid = s /\ req[r].stage \notin {"none", "done"}

(* The set may already hold records of other programs. *)
Init ==
  /\ strict \in BOOLEAN /\ lazy \in BOOLEAN
  /\ \E others \in SUBSET Sid :
       /\ store = [s \in Sid |-> IF s \in others
                                 THEN [data |-> {Foreign}, life |-> Lifetime, epoch |-> 0, late |-> FALSE]
                                 ELSE None]
       /\ issued = others
       /\ safe = [s \in Sid |-> IF s \in others THEN {Foreign} ELSE {}]
  /\ req = [r \in Request |-> NoSession]
  /\ epoch = [s \in Sid |-> 0]
  /\ idle = [s \in Sid |-> Lifetime]

-----------------------------------------------------------------------------
(* Starting a session (external: session_start() in the session engine).    *)

(* PS_OPEN succeeded; the client's cookie names an id or there is none.     *)
Start(r, cookie) ==
  /\ req[r].stage = "none"
  /\ req' = [req EXCEPT ![r] = [NoSession EXCEPT
                !.sid = cookie,
                !.stage = IF cookie = NoSid THEN "create"
                          ELSE IF strict THEN "validate" ELSE "read"]]
  /\ UNCHANGED <<strict, lazy, store, history>>

(* aerospike_session_exists: a failed check (answered FALSE) is no record. *)
Mut_FailsOpen_aerospike_session_exists(s, answered) == answered => Exists(s)

aerospike_session_exists(s, answered) == answered /\ Exists(s)

(* PS_VALIDATE_SID; the engine has a new id created for one that is refused. *)
Validate(r, answered) ==
  /\ req[r].stage = "validate"
  /\ req' = [req EXCEPT ![r].stage =
               IF aerospike_session_exists(req[r].sid, answered) THEN "read" ELSE "create"]
  /\ UNCHANGED <<strict, lazy, store, history>>

(* An id becomes r's.  History: whether it is r's alone. *)
Give(r, s, checked) ==
  /\ req' = [q \in Request |->
       IF q = r
       THEN [NoSession EXCEPT !.stage = "read", !.sid = s,
                           !.sole = checked /\ strict /\ ~\E o \in Request \ {r} : Involved(o, s)]
       ELSE [req[q] EXCEPT !.sole = @ /\ req[q].sid # s]]
  /\ issued' = issued \cup {s}
  /\ UNCHANGED <<strict, lazy, store, epoch, idle, safe>>

(* One attempt of PS_CREATE_SID: s is what php_session_create_id made, if   *)
(* it made one.                                                             *)
Mut_TakesTheLast_CreateSid(r, s, answered) ==
  /\ req[r].stage = "create" /\ req[r].left > 0
  /\ IF s = NoSid \/ (aerospike_session_exists(s, answered) /\ req[r].left > 1)
     THEN /\ req' = [req EXCEPT ![r].left = @ - 1]
          /\ UNCHANGED <<strict, lazy, store, history>>
     ELSE Give(r, s, answered)

CreateSid(r, s, answered) ==
  /\ req[r].stage = "create" /\ req[r].left > 0
  /\ IF s = NoSid \/ aerospike_session_exists(s, answered)
     THEN /\ req' = [req EXCEPT ![r].left = @ - 1]
          /\ UNCHANGED <<strict, lazy, store, history>>
     ELSE Give(r, s, answered)

(* PS_CREATE_SID returned NULL.  The engine gives up, or, where the id of a *)
(* cookie was refused, takes an unchecked id of its own.                    *)
CreateSidFailed(r) ==
  /\ req[r].stage = "create" /\ req[r].left = 0
  /\ \/ /\ req' = [req EXCEPT ![r] = Ended]
        /\ UNCHANGED <<strict, lazy, store, history>>
     \/ \E s \in Sid : req[r].sid # NoSid /\ Give(r, s, FALSE)

(* PS_READ.  No record is an empty session; a failure, and a record without *)
(* the session's bin, ends the session before the script has it.            *)
Mut_FailureIsEmpty_Read(r, answered) ==
  LET s == req[r].sid
      rec == store[s]
  IN /\ req[r].stage = "read"
     /\ req' = [req EXCEPT ![r] =
          IF answered /\ Exists(s)
          THEN IF Foreign \in rec.data THEN Ended
               ELSE [@ EXCEPT !.stage = "active", !.data = rec.data, !.epoch = rec.epoch, !.late = rec.late]
          ELSE [@ EXCEPT !.stage = "active", !.epoch = epoch[s], !.empty = TRUE]]
     /\ UNCHANGED <<strict, lazy, store, history>>

Read(r, answered) ==
  LET s == req[r].sid
      rec == store[s]
  IN /\ req[r].stage = "read"
     /\ req' = [req EXCEPT ![r] =
          IF ~answered THEN Ended
          ELSE IF ~Exists(s) THEN [@ EXCEPT !.stage = "active", !.epoch = epoch[s], !.empty = TRUE]
          ELSE IF Foreign \in rec.data THEN Ended
          ELSE [@ EXCEPT !.stage = "active", !.data = rec.data, !.epoch = rec.epoch, !.late = rec.late]]
     /\ UNCHANGED <<strict, lazy, store, history>>

-----------------------------------------------------------------------------
(* The script changes $_SESSION. *)
Change(r) ==
  /\ req[r].stage = "active" /\ ~req[r].changed
  /\ req' = [req EXCEPT ![r].changed = TRUE]
  /\ UNCHANGED <<strict, lazy, store, history>>

(* The ttl a record gets (external: the server's reading of it). *)
ExpiresIn(ttl, life) ==
  CASE ttl = 0 -> DefaultTtl
    [] ttl = TtlSize - 2 -> life
    [] OTHER -> ttl

(* (uint32_t)maxlifetime *)
Ttl == Lifetime % TtlSize

Written(r) == req[r].data \cup (IF req[r].changed THEN {r} ELSE {})

(* What the server does on a put, a touch and a remove. *)
PutRecord(r) ==
  [store EXCEPT ![req[r].sid] =
     [data |-> Written(r), life |-> ExpiresIn(Ttl, 0), epoch |-> req[r].epoch, late |-> req[r].late]]

Mut_NoTtl_TouchRecord(r) ==
  IF Exists(req[r].sid)
  THEN [store EXCEPT ![req[r].sid].life = ExpiresIn(0, @)]
  ELSE store

TouchRecord(r) ==
  IF Exists(req[r].sid)
  THEN [store EXCEPT ![req[r].sid].life = ExpiresIn(Ttl, @)]
  ELSE store

RemoveRecord(r) == [store EXCEPT ![req[r].sid] = None]

(* The end of the request (external): the engine has an unchanged session   *)
(* touched when session.lazy_write is on, and written otherwise.            *)
Touches(r) == lazy /\ ~req[r].changed

(* PS_WRITE, answered. *)
Write(r) ==
  LET s == req[r].sid
      alone == ~\E o \in Request \ {r} : Holds(o, s)
  IN /\ req[r].stage = "active" /\ ~Touches(r)
     /\ store' = PutRecord(r)
     /\ idle' = [idle EXCEPT ![s] = 0]
     /\ safe' = [safe EXCEPT ![s] = IF alone THEN @ \cup Written(r) ELSE @]
     /\ req' = [req EXCEPT ![r] = Ended]
     /\ UNCHANGED <<strict, lazy, issued, epoch>>

(* PS_UPDATE_TIMESTAMP, answered.  Touching a record that is gone fails and *)
(* makes none.                                                              *)
UpdateTimestamp(r) ==
  LET s == req[r].sid
  IN /\ req[r].stage = "active" /\ Touches(r)
     /\ store' = TouchRecord(r)
     /\ idle' = IF Exists(s) THEN [idle EXCEPT ![s] = 0] ELSE idle
     /\ req' = [req EXCEPT ![r] = Ended]
     /\ UNCHANGED <<strict, lazy, issued, epoch, safe>>

(* A destroy of s by r is reported done: whoever has read s is overtaken.   *)
ReportDestroyed(r, s) ==
  /\ epoch' = [epoch EXCEPT ![s] = @ + 1]
  /\ req' = [q \in Request |-> IF q = r THEN Ended
                               ELSE IF Holds(q, s) THEN [req[q] EXCEPT !.late = TRUE]
                               ELSE req[q]]

(* PS_DESTROY, answered: not found is success too.  The engine forgets the  *)
(* session either way.                                                      *)
Destroy(r) ==
  /\ req[r].stage = "active" /\ epoch[req[r].sid] < MaxDestroys
  /\ store' = RemoveRecord(r)
  /\ safe' = [safe EXCEPT ![req[r].sid] = {}]
  /\ idle' = [idle EXCEPT ![req[r].sid] = Lifetime]
  /\ ReportDestroyed(r, req[r].sid)
  /\ UNCHANGED <<strict, lazy, issued>>

(* The answer to a write, touch or remove fails to come: FAILURE.  The      *)
(* server may still execute it (Delivered) or not (Gone).                   *)
Mut_ReportsDone_DestroyUnanswered(r) ==
  LET s == req[r].sid
  IN /\ req[r].stage = "active" /\ epoch[s] < MaxDestroys
     /\ ReportDestroyed(r, s)
     /\ UNCHANGED <<strict, lazy, store, issued, idle, safe>>

DestroyUnanswered(r) ==
  /\ req[r].stage = "active"
  /\ req' = [req EXCEPT ![r].stage = "remove"]
  /\ UNCHANGED <<strict, lazy, store, history>>

CloseUnanswered(r) ==
  /\ req[r].stage = "active"
  /\ req' = [req EXCEPT ![r].stage = IF Touches(r) THEN "touch" ELSE "put"]
  /\ UNCHANGED <<strict, lazy, store, history>>

(* External: the server executes what the client gave up on. *)
Delivered(r) ==
  LET s == req[r].sid
  IN /\ \/ req[r].stage = "put" /\ store' = PutRecord(r)
        \/ req[r].stage = "touch" /\ store' = TouchRecord(r)
        \/ req[r].stage = "remove" /\ store' = RemoveRecord(r)
     /\ safe' = IF req[r].stage = "remove" THEN [safe EXCEPT ![s] = {}] ELSE safe
     /\ req' = [req EXCEPT ![r] = Ended]
     /\ UNCHANGED <<strict, lazy, issued, epoch, idle>>

(* External: the call never reaches the server, or the worker dies before   *)
(* it makes one.                                                            *)
Gone(r) ==
  /\ req[r].stage \notin {"none", "done"}
  /\ req' = [req EXCEPT ![r] = Ended]
  /\ UNCHANGED <<strict, lazy, store, history>>

(* Time passes; the server drops what has expired. *)
Tick ==
  LET Expires(s) == Exists(s) /\ Foreign \notin store[s].data /\ store[s].life <= 1
  IN /\ \E s \in Sid : Exists(s) /\ Foreign \notin store[s].data
     /\ store' = [s \in Sid |->
          IF Expires(s) THEN None
          ELSE IF Exists(s) /\ Foreign \notin store[s].data THEN [store[s] EXCEPT !.life = @ - 1]
          ELSE store[s]]
     /\ idle' = [s \in Sid |-> IF Exists(s) /\ idle[s] < Lifetime THEN idle[s] + 1 ELSE Lifetime]
     /\ safe' = [s \in Sid |-> IF Expires(s) THEN {} ELSE safe[s]]
     /\ UNCHANGED <<strict, lazy, req, issued, epoch>>

Done == (\A r \in Request : req[r].stage = "done") /\ UNCHANGED vars

Next ==
  \/ \E r \in Request :
       \/ \E cookie \in Sid \cup {NoSid} : Start(r, cookie)
       \/ \E answered \in BOOLEAN : Validate(r, answered) \/ Read(r, answered)
       \/ \E answered \in BOOLEAN, s \in Sid \cup {NoSid} : CreateSid(r, s, answered)
       \/ CreateSidFailed(r)
       \/ Change(r)
       \/ Write(r) \/ UpdateTimestamp(r) \/ CloseUnanswered(r)
       \/ Destroy(r) \/ DestroyUnanswered(r)
       \/ Delivered(r) \/ Gone(r)
  \/ Tick
  \/ Done

Spec == Init /\ [][Next]_vars

-----------------------------------------------------------------------------
(* What an acknowledged PS_WRITE stored while no other request had the      *)
(* session open stays in the record until it expires or is destroyed,       *)
(* whatever fails at the requests that follow: PS_READ answers FAILURE, not *)
(* an empty session, when the server does not answer.  The records of other *)
(* programs are never touched at all.                                       *)
AcknowledgedIsKept ==
  \A s \in Sid : safe[s] # {} => Exists(s) /\ safe[s] \subseteq store[s].data

(* In strict mode a session lives only under an id that a server made: an   *)
(* id a client invented is never adopted, not even when the existence check *)
(* of PS_VALIDATE_SID fails.                                                *)
OnlyIssuedIds ==
  strict => /\ \A s \in Sid : Exists(s) => s \in issued
            /\ \A r \in Request : req[r].stage \notin {"none", "validate", "create", "done"} => req[r].sid \in issued

(* A destroyed session comes back only by a request that had read it before *)
(* the destroy and wrote it after; a request that merely touched it, or     *)
(* came later, does not bring it back.                                      *)
DestroyIsFinal ==
  \A s \in Sid : Exists(s) => store[s].epoch = epoch[s] \/ store[s].late

(* A session under an id that PS_CREATE_SID found unused, and that nobody   *)
(* else was given meanwhile, starts empty: the check is made on the id that *)
(* is returned, whatever number of attempts it took.                        *)
NewSessionIsEmpty ==
  \A r \in Request : (req[r].stage = "active" /\ req[r].sole) => req[r].empty

(* A session does not expire before it was idle for its lifetime: a close   *)
(* that reported SUCCESS has renewed the record, also when the engine only  *)
(* had its timestamp updated.                                               *)
RenewedOnClose ==
  \A s \in Sid : (Exists(s) /\ Foreign \notin store[s].data) => store[s].life + idle[s] >= Lifetime

=============================================================================
