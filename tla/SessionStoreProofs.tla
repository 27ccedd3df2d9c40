------------------------- MODULE SessionStoreProofs -------------------------
(***************************************************************************)
(* The five promises of the session store, for any number of requests, ids *)
(* and destroys, any lifetime that fits a ttl, and whatever answers are    *)
(* lost or late.                                                           *)
(*                                                                         *)
(* The properties speak of the records; what a request that has read one   *)
(* may still write has to be known too.  StoreInv adds it: a request that  *)
(* holds a session has all of its acknowledged changes, and is of the      *)
(* session's epoch or marked as overtaken; and an id given out as unused   *)
(* has no record, and nobody to write one, until its owner has read it.    *)
(***************************************************************************)
EXTENDS SessionStore, TLAPS

Away == {"none", "validate", "create", "done"}      \* has no session yet, or no longer
Using == {"active", "put", "touch", "remove"}       \* has read its session

EpochsOK ==
  /\ DestroyIsFinal
  /\ \A r \in Request, s \in Sid : Holds(r, s) => req[r].epoch = epoch[s] \/ req[r].late

SafeOK ==
  /\ AcknowledgedIsKept
  /\ \A r \in Request, s \in Sid : Holds(r, s) => safe[s] \subseteq req[r].data

(* r was given its id as unused and has not read it yet. *)
Fresh(r) == req[r].sole /\ req[r].stage = "read"

SolesOK ==
  /\ NewSessionIsEmpty
  /\ \A r \in Request : req[r].stage \in Away => ~req[r].sole
  /\ \A r \in Request :
       Fresh(r) => /\ strict /\ ~Exists(req[r].sid)
                   /\ \A q \in Request \ {r} : req[q].sid = req[r].sid => req[q].stage \in Away

StoreInv ==
  /\ TypeOK
  /\ OnlyIssuedIds
  /\ EpochsOK
  /\ SafeOK
  /\ SolesOK
  /\ RenewedOnClose

-----------------------------------------------------------------------------
(* A lifetime survives the cast to uint32_t and is no special ttl. *)
LEMMA LifetimeIsTtl ==
  /\ Lifetime \in Nat \ {0}
  /\ \A life : ExpiresIn(Ttl, life) = Lifetime
<1>1. /\ Lifetime \in Nat \ {0} /\ TtlSize \in Nat \ {0}
      /\ Lifetime < TtlSize - 2
  BY LifetimeAssumption
<1>2. Lifetime % TtlSize = Lifetime
  BY <1>1
<1> QED
  BY <1>1, <1>2 DEF ExpiresIn, Ttl

(* A request that has ended has no session. *)
LEMMA EndedType ==
  /\ Ended \in RequestState /\ NoSession \in RequestState
  /\ Ended.stage = "done" /\ Ended.sid = NoSid /\ ~Ended.sole
<1>1. NoSession \in RequestState /\ NoSession.sid = NoSid /\ NoSession.sole = FALSE
  BY DEF NoSession, RequestState, Stage, max_attempts
<1>2. Ended \in RequestState /\ Ended.stage = "done" /\ Ended.sid = NoSession.sid /\ Ended.sole = NoSession.sole
  BY <1>1 DEF Ended, RequestState, Stage
<1> QED
  BY <1>1, <1>2

(* A set that holds at most records of other programs is in order. *)
LEMMA InitInv == Init => StoreInv
<1> SUFFICES ASSUME Init PROVE StoreInv
  OBVIOUS
<1>1. PICK others \in SUBSET Sid :
        /\ store = [s \in Sid |-> IF s \in others
                                  THEN [data |-> {Foreign}, life |-> Lifetime, epoch |-> 0, late |-> FALSE]
                                  ELSE None]
        /\ issued = others
        /\ safe = [s \in Sid |-> IF s \in others THEN {Foreign} ELSE {}]
  BY DEF Init
<1>2. [data |-> {Foreign}, life |-> Lifetime, epoch |-> 0, late |-> FALSE] \in Record
  BY LifetimeIsTtl DEF Record
<1>3. None \notin Record
  BY SidAssumption DEF Record
<1>4. \A s \in Sid : /\ Exists(s) => s \in others
                     /\ s \in others => /\ store[s] = [data |-> {Foreign}, life |-> Lifetime, epoch |-> 0, late |-> FALSE]
                                        /\ Exists(s)
  BY <1>1, <1>2, <1>3 DEF Exists
<1>5. \A r \in Request : req[r] = NoSession /\ req[r].stage = "none" /\ ~req[r].sole
  BY DEF Init, NoSession
<1>6. TypeOK
  <2>1. store \in [Sid -> Record \cup {None}]
    BY <1>1, <1>2
  <2>2. req \in [Request -> RequestState]
    BY EndedType DEF Init
  <2>3. safe \in [Sid -> SUBSET (Request \cup {Foreign})]
    BY <1>1
  <2> QED
    BY <1>1, <1>5, <2>1, <2>2, <2>3, LifetimeIsTtl DEF Init, TypeOK
<1>7. OnlyIssuedIds /\ EpochsOK /\ SolesOK /\ RenewedOnClose
  BY <1>1, <1>4, <1>5 DEF Init, OnlyIssuedIds, EpochsOK, DestroyIsFinal, SolesOK, NewSessionIsEmpty, Fresh,
                          Holds, RenewedOnClose
<1>8. SafeOK
  BY <1>1, <1>4, <1>5 DEF SafeOK, AcknowledgedIsKept, Holds
<1> QED
  BY <1>6, <1>7, <1>8 DEF StoreInv

-----------------------------------------------------------------------------
(* A step of r that no record and no other request sees. *)
LEMMA QuietStep ==
  ASSUME StoreInv, NEW r \in Request, NEW v \in RequestState,
         req' = [req EXCEPT ![r] = v],
         UNCHANGED <<strict, lazy, store, issued, epoch, idle, safe>>,
         v.stage \notin {"none", "create", "done"} => v.sid \in Sid,
         v.stage \notin Away => /\ strict => v.sid \in issued
                                /\ \A q \in Request \ {r} : Fresh(q) => req[q].sid # v.sid,
         v.stage \in Using => /\ v.epoch = epoch[v.sid] \/ v.late
                              /\ safe[v.sid] \subseteq v.data,
         v.stage = "done" => v.sid = NoSid,
         v.sole => v.stage \notin Away \cup {"read"} /\ (v.stage = "active" => v.empty)
  PROVE  StoreInv'
<1> USE DEF Away, Using
<1>1. req'[r] = v /\ \A q \in Request \ {r} : req'[q] = req[q]
  BY DEF StoreInv, TypeOK
<1>2. TypeOK'
  BY <1>1 DEF StoreInv, TypeOK
<1>3. OnlyIssuedIds'
  BY <1>1 DEF StoreInv, OnlyIssuedIds, Exists
<1>4. \A s \in Sid : Holds(r, s)' => v.sid = s /\ v.stage \in Using
  BY <1>1, SidAssumption DEF Holds
<1>5. \A q \in Request \ {r}, s \in Sid : Holds(q, s)' <=> Holds(q, s)
  BY <1>1 DEF Holds
<1>6. EpochsOK'
  BY <1>1, <1>4, <1>5 DEF StoreInv, EpochsOK, DestroyIsFinal, Exists
<1>7. SafeOK'
  BY <1>1, <1>4, <1>5 DEF StoreInv, SafeOK, AcknowledgedIsKept, Exists
<1>8. SolesOK'
  <2>1. ~Fresh(r)'
    BY <1>1 DEF Fresh
  <2>2. ASSUME NEW q \in Request \ {r}, Fresh(q)'
        PROVE  /\ strict' /\ ~Exists(req[q].sid)'
               /\ \A o \in Request \ {q} : req'[o].sid = req'[q].sid => req'[o].stage \in Away
    <3>1. Fresh(q) /\ req'[q] = req[q]
      BY <1>1, <2>2 DEF Fresh
    <3>2. req'[r].sid = req[q].sid => req'[r].stage \in Away
      BY <1>1, <3>1
    <3> QED
      BY <1>1, <3>1, <3>2 DEF StoreInv, SolesOK, Exists
  <2>3. NewSessionIsEmpty' /\ \A q \in Request : req'[q].stage \in Away => ~req'[q].sole
    BY <1>1 DEF StoreInv, SolesOK, NewSessionIsEmpty
  <2> QED
    BY <1>1, <2>1, <2>2, <2>3 DEF SolesOK
<1>9. RenewedOnClose'
  BY DEF StoreInv, RenewedOnClose, Exists
<1> QED
  BY <1>2, <1>3, <1>6, <1>7, <1>8, <1>9 DEF StoreInv

(* A request that ends leaves nothing behind.                               *)
LEMMA EndQuietly ==
  ASSUME StoreInv, NEW r \in Request, req' = [req EXCEPT ![r] = Ended],
         UNCHANGED <<strict, lazy, store, issued, epoch, idle, safe>>
  PROVE  StoreInv'
<1>1. Ended.stage \in Away /\ Ended.stage \notin Using
  BY EndedType DEF Away, Using
<1> QED
  BY <1>1, QuietStep, EndedType

(* What is known of a request that has read its session, or is about to.    *)
LEMMA UserFacts ==
  ASSUME StoreInv, NEW r \in Request, req[r].stage \notin Away
  PROVE  /\ req[r] \in RequestState /\ req[r].sid \in Sid
         /\ strict => req[r].sid \in issued
         /\ \A q \in Request \ {r} : Fresh(q) => req[q].sid # req[r].sid
         /\ req[r].stage \in Using => /\ Holds(r, req[r].sid)
                                      /\ req[r].epoch = epoch[req[r].sid] \/ req[r].late
                                      /\ safe[req[r].sid] \subseteq req[r].data
<1>1. req[r] \in RequestState /\ req[r].sid \in Sid
  BY DEF StoreInv, TypeOK, Away
<1>2. strict => req[r].sid \in issued
  BY DEF StoreInv, OnlyIssuedIds, Away
<1>3. \A q \in Request \ {r} : Fresh(q) => req[q].sid # req[r].sid
  BY DEF StoreInv, SolesOK
<1>4. ASSUME req[r].stage \in Using
      PROVE  /\ Holds(r, req[r].sid)
             /\ req[r].epoch = epoch[req[r].sid] \/ req[r].late
             /\ safe[req[r].sid] \subseteq req[r].data
  <2>1. Holds(r, req[r].sid)
    BY <1>4 DEF Holds, Using
  <2> QED
    BY <1>1, <2>1 DEF StoreInv, EpochsOK, SafeOK
<1> QED
  BY <1>1, <1>2, <1>3, <1>4

(* session_start: a cookie is believed at once only outside strict mode. *)
LEMMA StartStep ==
  ASSUME StoreInv, NEW r \in Request, NEW cookie \in Sid \cup {NoSid}, Start(r, cookie)
  PROVE  StoreInv'
<1> DEFINE v == [NoSession EXCEPT !.sid = cookie,
                   !.stage = IF cookie = NoSid THEN "create" ELSE IF strict THEN "validate" ELSE "read"]
<1>1. v \in RequestState /\ v.sole = FALSE /\ v.sid = cookie
  BY EndedType DEF RequestState, Stage, NoSession
<1>2. v.stage = IF cookie = NoSid THEN "create" ELSE IF strict THEN "validate" ELSE "read"
  BY EndedType DEF RequestState
<1>3. req' = [req EXCEPT ![r] = v] /\ UNCHANGED <<strict, lazy, store, issued, epoch, idle, safe>>
  BY DEF Start, history
<1>4. v.stage \notin Away => ~strict /\ v.stage = "read"
  BY <1>2 DEF Away
<1>5. \A q \in Request : Fresh(q) => strict
  BY DEF StoreInv, SolesOK
<1>6. v.stage \notin {"none", "create", "done"} => v.sid \in Sid
  BY <1>1, <1>2
<1>7. v.stage \notin Using /\ v.stage # "done"
  BY <1>2 DEF Using
<1> HIDE DEF v
<1> QED
  BY <1>1, <1>3, <1>4, <1>5, <1>6, <1>7, QuietStep

(* Steps in which a request only moves on with the session it has.          *)
LEMMA StageStep ==
  ASSUME StoreInv, NEW r \in Request, NEW stage \in Stage,
         req[r].stage = "active", stage \in Using \ {"active"},
         req' = [req EXCEPT ![r].stage = stage],
         UNCHANGED <<strict, lazy, store, issued, epoch, idle, safe>>
  PROVE  StoreInv'
<1> DEFINE v == [req[r] EXCEPT !.stage = stage]
<1>1. req[r].stage \notin Away /\ req[r].stage \in Using
  BY DEF Away, Using
<1>2. req[r] \in RequestState
  BY <1>1, UserFacts
<1>3. /\ v \in RequestState /\ v.stage = stage /\ v.sid = req[r].sid /\ v.epoch = req[r].epoch
      /\ v.late = req[r].late /\ v.data = req[r].data
  BY <1>2 DEF RequestState
<1>4. req' = [req EXCEPT ![r] = v]
  OBVIOUS
<1>5. stage \notin {"none", "create", "active", "read", "done"} /\ stage \in Using /\ stage \notin Away
  BY DEF Using, Away
<1>6. /\ v.sid \in Sid /\ (strict => v.sid \in issued)
      /\ \A q \in Request \ {r} : Fresh(q) => req[q].sid # v.sid
      /\ v.epoch = epoch[v.sid] \/ v.late
      /\ safe[v.sid] \subseteq v.data
  BY <1>1, <1>3, UserFacts
<1>7. v.stage \notin Away \cup {"read", "active", "done"}
  BY <1>3, <1>5
<1> HIDE DEF v
<1> QED
  BY <1>3, <1>4, <1>6, <1>7, QuietStep

(* A change of $_SESSION is r's own until it is written. *)
LEMMA ChangeStep ==
  ASSUME StoreInv, NEW r \in Request, Change(r)
  PROVE  StoreInv'
<1> DEFINE v == [req[r] EXCEPT !.changed = TRUE]
<1>1. req[r].stage = "active" /\ req[r].stage \notin Away /\ req[r].stage \in Using
  BY DEF Change, Away, Using
<1>2. req[r] \in RequestState
  BY <1>1, UserFacts
<1>3. /\ v \in RequestState /\ v.stage = "active" /\ v.sid = req[r].sid /\ v.epoch = req[r].epoch
      /\ v.late = req[r].late /\ v.data = req[r].data /\ v.sole = req[r].sole /\ v.empty = req[r].empty
  BY <1>1, <1>2 DEF RequestState
<1>4. req' = [req EXCEPT ![r] = v] /\ UNCHANGED <<strict, lazy, store, issued, epoch, idle, safe>>
  BY DEF Change, history
<1>5. req[r].sole => req[r].empty
  BY <1>1 DEF StoreInv, SolesOK, NewSessionIsEmpty
<1> HIDE DEF v
<1> QED
  BY <1>1, <1>3, <1>4, <1>5, UserFacts, QuietStep

(* PS_VALIDATE_SID lets through only an id that has a record. *)
LEMMA ValidateStep ==
  ASSUME StoreInv, NEW r \in Request, NEW answered \in BOOLEAN, Validate(r, answered)
  PROVE  StoreInv'
<1> DEFINE stage == IF aerospike_session_exists(req[r].sid, answered) THEN "read" ELSE "create"
           v == [req[r] EXCEPT !.stage = stage]
<1>1. req[r].stage = "validate" /\ req[r] \in RequestState /\ req[r].sid \in Sid
  BY DEF StoreInv, TypeOK, Validate
<1>2. v \in RequestState /\ v.stage = stage /\ v.sid = req[r].sid /\ v.sole = req[r].sole
  BY <1>1 DEF RequestState, Stage
<1>3. req' = [req EXCEPT ![r] = v] /\ UNCHANGED <<strict, lazy, store, issued, epoch, idle, safe>>
  BY DEF Validate, history
<1>4. stage = "read" => Exists(req[r].sid)
  BY DEF aerospike_session_exists
<1>5. Exists(req[r].sid) => /\ strict => req[r].sid \in issued
                            /\ \A q \in Request : Fresh(q) => req[q].sid # req[r].sid
  BY <1>1 DEF StoreInv, OnlyIssuedIds, SolesOK
<1>6. stage \in {"read", "create"}
  OBVIOUS
<1>7. ~req[r].sole
  BY <1>1 DEF StoreInv, SolesOK, Away
<1> HIDE DEF v, stage
<1> QED
  BY <1>1, <1>2, <1>3, <1>4, <1>5, <1>6, <1>7, QuietStep DEF Away, Using

(* PS_READ: r takes over what the record says of itself, or ends. *)
LEMMA ReadStep ==
  ASSUME StoreInv, NEW r \in Request, NEW answered \in BOOLEAN, Read(r, answered)
  PROVE  StoreInv'
<1> DEFINE s == req[r].sid
           rec == store[s]
           w == [req[r] EXCEPT !.stage = "active", !.epoch = epoch[s], !.empty = TRUE]
           v == [req[r] EXCEPT !.stage = "active", !.data = rec.data, !.epoch = rec.epoch, !.late = rec.late]
<1>1. req[r].stage = "read" /\ req[r].stage \notin Away
  BY DEF Read, Away
<1>2. req[r] \in RequestState /\ s \in Sid
  BY <1>1, UserFacts
<1>3. UNCHANGED <<strict, lazy, store, issued, epoch, idle, safe>>
  BY DEF Read, history
<1>4. "active" \in Using /\ "active" \notin Away
  BY DEF Using, Away
<1>5. CASE ~answered \/ (Exists(s) /\ Foreign \in rec.data)
  <2>1. req' = [req EXCEPT ![r] = Ended]
    BY <1>5 DEF Read
  <2> QED
    BY <1>3, <2>1, EndQuietly
<1>6. CASE answered /\ ~Exists(s)
  <2>1. req' = [req EXCEPT ![r] = w]
    BY <1>6 DEF Read
  <2>2. /\ w \in RequestState /\ w.stage = "active" /\ w.sid = s /\ w.epoch = epoch[s] /\ w.empty = TRUE
    BY <1>2 DEF RequestState, Stage, StoreInv, TypeOK
  <2>3. safe[s] = {}
    BY <1>2, <1>6 DEF StoreInv, SafeOK, AcknowledgedIsKept
  <2> HIDE DEF w
  <2> QED
    BY <1>1, <1>2, <1>3, <1>4, <2>1, <2>2, <2>3, UserFacts, QuietStep
<1>7. CASE answered /\ Exists(s) /\ Foreign \notin rec.data
  <2>1. req' = [req EXCEPT ![r] = v]
    BY <1>7 DEF Read
  <2>2. rec \in Record
    BY <1>2, <1>7 DEF Exists, StoreInv, TypeOK
  <2>3. /\ v \in RequestState /\ v.stage = "active" /\ v.sid = s /\ v.epoch = rec.epoch /\ v.late = rec.late
        /\ v.data = rec.data /\ v.sole = req[r].sole
    BY <1>2, <2>2 DEF RequestState, Record, Stage
  <2>4. safe[s] \subseteq rec.data
    BY <1>2, <1>7 DEF StoreInv, SafeOK, AcknowledgedIsKept
  <2>5. rec.epoch = epoch[s] \/ rec.late
    BY <1>2, <1>7 DEF StoreInv, EpochsOK, DestroyIsFinal
  <2>6. ~req[r].sole
    BY <1>1, <1>7 DEF StoreInv, SolesOK, Fresh
  <2> HIDE DEF v
  <2> QED
    BY <1>1, <1>2, <1>3, <1>4, <2>1, <2>3, <2>4, <2>5, <2>6, UserFacts, QuietStep
<1> QED
  BY <1>5, <1>6, <1>7

(* An id is given to r: found unused (checked), or not asked for.           *)
LEMMA GiveStep ==
  ASSUME StoreInv, NEW r \in Request, NEW s \in Sid, NEW checked \in BOOLEAN,
         Give(r, s, checked), checked => ~Exists(s)
  PROVE  StoreInv'
<1> DEFINE sole == checked /\ strict /\ ~\E o \in Request \ {r} : Involved(o, s)
           v == [NoSession EXCEPT !.stage = "read", !.sid = s, !.sole = sole]
<1>1. /\ v \in RequestState /\ v.stage = "read" /\ v.sid = s /\ v.sole = sole
  BY EndedType DEF RequestState, Stage
<1>2. /\ UNCHANGED <<strict, lazy, store, epoch, idle, safe>>
      /\ issued' = issued \cup {s}
      /\ req'[r] = v /\ DOMAIN req' = Request
      /\ req' = [q \in Request |-> req'[q]]
  BY DEF Give
<1> HIDE DEF v
<1>3. ASSUME NEW q \in Request \ {r}
      PROVE  /\ req'[q] \in RequestState /\ req'[q].stage = req[q].stage /\ req'[q].sid = req[q].sid
             /\ req'[q].epoch = req[q].epoch /\ req'[q].late = req[q].late /\ req'[q].data = req[q].data
             /\ req'[q].empty = req[q].empty
             /\ req'[q].sole => req[q].sole /\ req[q].sid # s
  <2>1. req[q] \in RequestState
    BY DEF StoreInv, TypeOK
  <2>2. req'[q] = [req[q] EXCEPT !.sole = req[q].sole /\ req[q].sid # s]
    BY DEF Give
  <2> QED
    BY <2>1, <2>2 DEF RequestState
<1>4. TypeOK'
  <2>1. req' \in [Request -> RequestState]
    BY <1>1, <1>2, <1>3
  <2>2. \A q \in Request : req'[q].stage \notin {"none", "create", "done"} => req'[q].sid \in Sid
    BY <1>1, <1>2, <1>3 DEF StoreInv, TypeOK
  <2> QED
    BY <1>2, <2>1, <2>2 DEF StoreInv, TypeOK
<1>5. OnlyIssuedIds'
  BY <1>1, <1>2, <1>3 DEF StoreInv, OnlyIssuedIds, Exists
<1>6. \A t \in Sid : ~Holds(r, t)'
  BY <1>1, <1>2 DEF Holds
<1>7. \A q \in Request \ {r}, t \in Sid : Holds(q, t)' <=> Holds(q, t)
  BY <1>3 DEF Holds
<1>8. EpochsOK'
  BY <1>2, <1>3, <1>6, <1>7 DEF StoreInv, EpochsOK, DestroyIsFinal, Exists
<1>9. SafeOK'
  BY <1>2, <1>3, <1>6, <1>7 DEF StoreInv, SafeOK, AcknowledgedIsKept, Exists
<1>10. SolesOK'
  <2>1. NewSessionIsEmpty' /\ \A q \in Request : req'[q].stage \in Away => ~req'[q].sole
    BY <1>1, <1>2, <1>3 DEF StoreInv, SolesOK, NewSessionIsEmpty, Away
  <2>2. ASSUME NEW q \in Request \ {r}, Fresh(q)'
        PROVE  /\ strict' /\ ~Exists(req[q].sid)'
               /\ \A o \in Request \ {q} : req'[o].sid = req'[q].sid => req'[o].stage \in Away
    <3>1. Fresh(q) /\ req[q].sid # s
      BY <1>3, <2>2 DEF Fresh
    <3> QED
      BY <1>1, <1>2, <1>3, <3>1 DEF StoreInv, SolesOK, Exists
  <2>3. ASSUME Fresh(r)'
        PROVE  /\ strict' /\ ~Exists(s)'
               /\ \A o \in Request \ {r} : req'[o].sid = s => req'[o].stage \in Away
    <3>1. checked /\ strict /\ \A o \in Request \ {r} : ~Involved(o, s)
      BY <1>1, <1>2, <2>3 DEF Fresh
    <3>2. \A o \in Request \ {r} : req[o].sid = s => req[o].stage \in Away
      BY <3>1 DEF Involved, Away
    <3> QED
      BY <1>2, <1>3, <3>1, <3>2 DEF Exists
  <2> QED
    BY <1>1, <1>2, <1>3, <2>1, <2>2, <2>3 DEF SolesOK
<1>11. RenewedOnClose'
  BY <1>2 DEF StoreInv, RenewedOnClose, Exists
<1> QED
  BY <1>4, <1>5, <1>8, <1>9, <1>10, <1>11 DEF StoreInv

(* An attempt of PS_CREATE_SID. *)
LEMMA CreateSidStep ==
  ASSUME StoreInv, NEW r \in Request, NEW answered \in BOOLEAN, NEW s \in Sid \cup {NoSid},
         CreateSid(r, s, answered)
  PROVE  StoreInv'
<1>1. CASE s = NoSid \/ aerospike_session_exists(s, answered)
  <2> DEFINE v == [req[r] EXCEPT !.left = req[r].left - 1]
  <2>1. /\ req[r] \in RequestState /\ req[r].stage = "create" /\ req[r].left > 0
        /\ req' = [req EXCEPT ![r] = v] /\ UNCHANGED <<strict, lazy, store, issued, epoch, idle, safe>>
    BY <1>1 DEF StoreInv, TypeOK, CreateSid, history
  <2>2. v \in RequestState /\ v.stage = "create" /\ v.sole = req[r].sole
    BY <2>1 DEF RequestState, max_attempts
  <2>3. ~req[r].sole
    BY <2>1 DEF StoreInv, SolesOK, Away
  <2> HIDE DEF v
  <2> QED
    BY <2>1, <2>2, <2>3, QuietStep DEF Away, Using
<1>2. CASE s \in Sid /\ ~aerospike_session_exists(s, answered)
  <2>1. Give(r, s, answered)
    BY <1>2, SidAssumption DEF CreateSid
  <2> QED
    BY <1>2, <2>1, GiveStep DEF aerospike_session_exists
<1> QED
  BY <1>1, <1>2

(* PS_CREATE_SID gave up. *)
LEMMA CreateSidFailedStep ==
  ASSUME StoreInv, NEW r \in Request, CreateSidFailed(r)
  PROVE  StoreInv'
<1>1. CASE req' = [req EXCEPT ![r] = Ended] /\ UNCHANGED <<strict, lazy, store, history>>
  BY <1>1, EndQuietly DEF history
<1>2. CASE \E s \in Sid : Give(r, s, FALSE)
  BY <1>2, GiveStep
<1> QED
  BY <1>1, <1>2 DEF CreateSidFailed

-----------------------------------------------------------------------------
(* Only the record of s changes, and what is known of it.                   *)
OneRecord(s) ==
  /\ store' \in [Sid -> Record \cup {None}] /\ idle' \in [Sid -> Nat]
  /\ safe' \in [Sid -> SUBSET (Request \cup {Foreign})]
  /\ \A t \in Sid \ {s} : store'[t] = store[t] /\ idle'[t] = idle[t] /\ safe'[t] = safe[t]

(* An update of the record of s is of that form. *)
LEMMA OneRecordChanges ==
  ASSUME StoreInv, NEW s \in Sid, NEW rec \in Record \cup {None}, NEW n \in Nat,
         NEW kept \in SUBSET (Request \cup {Foreign}),
         store' = [store EXCEPT ![s] = rec],
         idle' = [idle EXCEPT ![s] = n],
         safe' = [safe EXCEPT ![s] = kept]
  PROVE  OneRecord(s) /\ store'[s] = rec /\ idle'[s] = n /\ safe'[s] = kept
<1>1. store' \in [Sid -> Record \cup {None}] /\ idle' \in [Sid -> Nat]
  BY DEF StoreInv, TypeOK
<1>2. safe' \in [Sid -> SUBSET (Request \cup {Foreign})]
  BY DEF StoreInv, TypeOK
<1>3. /\ store'[s] = rec /\ idle'[s] = n /\ safe'[s] = kept
      /\ \A t \in Sid \ {s} : store'[t] = store[t] /\ idle'[t] = idle[t] /\ safe'[t] = safe[t]
  BY DEF StoreInv, TypeOK
<1> QED
  BY <1>1, <1>2, <1>3 DEF OneRecord

(* r ends with one change to the record of its session: it holds what r had *)
(* read, and what is acknowledged is in it and in every other holder's copy. *)
LEMMA EndStep ==
  ASSUME StoreInv, NEW r \in Request, req[r].stage \in Using,
         req' = [req EXCEPT ![r] = Ended],
         UNCHANGED <<strict, lazy, issued, epoch>>,
         OneRecord(req[r].sid),
         store'[req[r].sid] # None =>
           /\ store'[req[r].sid].epoch = epoch[req[r].sid] \/ store'[req[r].sid].late
           /\ \/ Foreign \in store'[req[r].sid].data
              \/ store'[req[r].sid].life + idle'[req[r].sid] >= Lifetime,
         safe'[req[r].sid] # {} => /\ store'[req[r].sid] # None
                                   /\ safe'[req[r].sid] \subseteq store'[req[r].sid].data,
         \A q \in Request \ {r} : Holds(q, req[r].sid) => safe'[req[r].sid] \subseteq req[q].data
  PROVE  StoreInv'
<1> DEFINE s == req[r].sid
<1>1. req[r].stage \notin Away /\ s \in Sid
  BY UserFacts DEF Away, Using
<1>2. \A t \in Sid \ {s} : store'[t] = store[t] /\ idle'[t] = idle[t] /\ safe'[t] = safe[t]
  BY DEF OneRecord
<1>3. req'[r] = Ended /\ \A q \in Request \ {r} : req'[q] = req[q]
  BY DEF StoreInv, TypeOK
<1>4. TypeOK'
  <2>1. /\ req' \in [Request -> RequestState]
        /\ \A q \in Request : req'[q].stage \notin {"none", "create", "done"} => req'[q].sid \in Sid
    BY <1>3, EndedType DEF StoreInv, TypeOK
  <2> QED
    BY <2>1 DEF StoreInv, TypeOK, OneRecord
<1>5. OnlyIssuedIds'
  <2>1. strict => s \in issued
    BY <1>1, UserFacts
  <2> QED
    BY <1>2, <1>3, <2>1, EndedType DEF StoreInv, OnlyIssuedIds, Exists
<1>6. \A t \in Sid : ~Holds(r, t)'
  BY <1>3, EndedType, SidAssumption DEF Holds
<1>7. \A q \in Request \ {r}, t \in Sid : Holds(q, t)' <=> Holds(q, t)
  BY <1>3 DEF Holds
<1>8. EpochsOK'
  BY <1>2, <1>3, <1>6, <1>7 DEF StoreInv, EpochsOK, DestroyIsFinal, Exists
<1>9. SafeOK'
  BY <1>2, <1>3, <1>6, <1>7 DEF StoreInv, SafeOK, AcknowledgedIsKept, Exists
<1>10. SolesOK'
  <2>1. NewSessionIsEmpty' /\ \A q \in Request : req'[q].stage \in Away => ~req'[q].sole
    BY <1>3, EndedType DEF StoreInv, SolesOK, NewSessionIsEmpty
  <2>2. ASSUME NEW q \in Request, Fresh(q)'
        PROVE  /\ strict' /\ ~Exists(req[q].sid)' /\ req'[q].sid = req[q].sid
               /\ \A o \in Request \ {q} : req'[o].sid = req'[q].sid => req'[o].stage \in Away
    <3>1. q # r /\ Fresh(q) /\ req'[q] = req[q]
      BY <1>3, <2>2, EndedType DEF Fresh
    <3>2. req[q].sid # s /\ req[q].sid \in Sid
      BY <1>1, <3>1, UserFacts DEF Fresh, Away
    <3>3. ~Exists(req[q].sid)'
      BY <1>2, <3>1, <3>2 DEF StoreInv, SolesOK, Exists
    <3>4. Ended.stage \in Away
      BY EndedType DEF Away
    <3> QED
      BY <1>3, <3>1, <3>3, <3>4 DEF StoreInv, SolesOK
  <2> QED
    BY <2>1, <2>2 DEF SolesOK
<1>11. RenewedOnClose'
  BY <1>2 DEF StoreInv, RenewedOnClose, Exists
<1> QED
  BY <1>4, <1>5, <1>8, <1>9, <1>10, <1>11 DEF StoreInv

(* The record that PS_WRITE puts. *)
LEMMA PutFacts ==
  ASSUME StoreInv, NEW r \in Request, req[r].stage \in Using
  PROVE  \E rec \in Record :
           /\ PutRecord(r) = [store EXCEPT ![req[r].sid] = rec]
           /\ rec.data = Written(r) /\ rec.life = Lifetime
           /\ rec.epoch = req[r].epoch /\ rec.late = req[r].late
<1> DEFINE rec == [data |-> Written(r), life |-> ExpiresIn(Ttl, 0), epoch |-> req[r].epoch, late |-> req[r].late]
<1>1. req[r] \in RequestState
  BY DEF StoreInv, TypeOK
<1>2. Written(r) \in SUBSET (Request \cup {Foreign})
  BY <1>1 DEF Written, RequestState
<1>3. rec \in Record /\ rec.life = Lifetime
  BY <1>1, <1>2, LifetimeIsTtl DEF Record, RequestState
<1> QED
  BY <1>3 DEF PutRecord

(* PS_WRITE, answered. *)
LEMMA WriteStep ==
  ASSUME StoreInv, NEW r \in Request, Write(r)
  PROVE  StoreInv'
<1> DEFINE s == req[r].sid
           alone == ~\E o \in Request \ {r} : Holds(o, s)
           kept == IF alone THEN safe[s] \cup Written(r) ELSE safe[s]
<1>1. req[r].stage \in Using /\ req[r].stage \notin Away
  BY DEF Write, Using, Away
<1>2. PICK rec \in Record :
        /\ PutRecord(r) = [store EXCEPT ![s] = rec]
        /\ rec.data = Written(r) /\ rec.life = Lifetime
        /\ rec.epoch = req[r].epoch /\ rec.late = req[r].late
  BY <1>1, PutFacts
<1>3. /\ s \in Sid /\ (req[r].epoch = epoch[s] \/ req[r].late)
      /\ safe[s] \subseteq Written(r)
  BY <1>1, UserFacts DEF Written
<1>4. /\ req' = [req EXCEPT ![r] = Ended] /\ store' = [store EXCEPT ![s] = rec]
      /\ idle' = [idle EXCEPT ![s] = 0] /\ safe' = [safe EXCEPT ![s] = kept]
      /\ UNCHANGED <<strict, lazy, issued, epoch>>
  BY <1>2 DEF Write
<1>5. kept \subseteq Written(r) /\ kept \in SUBSET (Request \cup {Foreign})
  BY <1>2, <1>3 DEF Record
<1>6. \A q \in Request \ {r} : Holds(q, s) => kept \subseteq req[q].data
  BY <1>3 DEF StoreInv, SafeOK
<1>7. rec # None
  BY SidAssumption DEF Record
<1>8. 0 \in Nat /\ rec.life + 0 >= Lifetime
  BY <1>2, LifetimeIsTtl
<1> HIDE DEF kept
<1>9. OneRecord(s) /\ store'[s] = rec /\ idle'[s] = 0 /\ safe'[s] = kept
  <2>1. rec \in Record \cup {None} /\ s \in Sid /\ 0 \in Nat
    BY <1>2, <1>3
  <2> QED
    BY <1>4, <1>5, <2>1, OneRecordChanges, Zenon
<1>10. /\ store'[s] # None /\ (store'[s].epoch = epoch[s] \/ store'[s].late)
       /\ store'[s].life + idle'[s] >= Lifetime
       /\ safe'[s] \subseteq store'[s].data
       /\ \A q \in Request \ {r} : Holds(q, s) => safe'[s] \subseteq req[q].data
  BY <1>2, <1>3, <1>5, <1>6, <1>7, <1>8, <1>9
<1> QED
  BY <1>1, <1>4, <1>9, <1>10, EndStep

(* A touch, answered or late, with the renewal it reports.                  *)
LEMMA TouchStep ==
  ASSUME StoreInv, NEW r \in Request, NEW n \in Nat,
         req[r].stage \in Using,
         req' = [req EXCEPT ![r] = Ended], store' = TouchRecord(r),
         idle' = IF Exists(req[r].sid) THEN [idle EXCEPT ![req[r].sid] = n] ELSE idle,
         UNCHANGED <<strict, lazy, issued, epoch, safe>>
  PROVE  StoreInv'
<1> DEFINE s == req[r].sid
           rec == [store[s] EXCEPT !.life = Lifetime]
<1>1. CASE ~Exists(s)
  BY <1>1, EndQuietly DEF TouchRecord
<1>2. CASE Exists(s)
  <2>1. s \in Sid /\ store[s] \in Record /\ store[s] # None
    BY <1>2, UserFacts DEF Away, Using, Exists, StoreInv, TypeOK
  <2>2. /\ rec \in Record /\ rec.data = store[s].data /\ rec.life = Lifetime
        /\ rec.epoch = store[s].epoch /\ rec.late = store[s].late
    BY <2>1, LifetimeIsTtl DEF Record
  <2>3. store' = [store EXCEPT ![s] = rec]
    BY <1>2, LifetimeIsTtl DEF TouchRecord
  <2>4. safe' = [safe EXCEPT ![s] = safe[s]] /\ safe[s] \in SUBSET (Request \cup {Foreign})
    BY <2>1 DEF StoreInv, TypeOK
  <2>5. /\ safe[s] # {} => safe[s] \subseteq rec.data
        /\ \A q \in Request \ {r} : Holds(q, s) => safe[s] \subseteq req[q].data
        /\ rec.epoch = epoch[s] \/ rec.late
    BY <1>2, <2>1, <2>2 DEF StoreInv, SafeOK, AcknowledgedIsKept, EpochsOK, DestroyIsFinal
  <2>6. rec # None /\ rec.life + n >= Lifetime
    BY <2>2, SidAssumption, LifetimeIsTtl DEF Record
  <2>7. idle' = [idle EXCEPT ![s] = n]
    BY <1>2
  <2> HIDE DEF rec
  <2>8. OneRecord(s) /\ store'[s] = rec /\ idle'[s] = n /\ safe'[s] = safe[s]
    <3>1. rec \in Record \cup {None} /\ s \in Sid /\ n \in Nat
      BY <2>1, <2>2
    <3> QED
      BY <2>3, <2>4, <2>7, <3>1, OneRecordChanges, Zenon
  <2> QED
    BY <2>2, <2>5, <2>6, <2>8, EndStep
<1> QED
  BY <1>1, <1>2

(* A put, touch or remove that is executed late. *)
LEMMA DeliveredStep ==
  ASSUME StoreInv, NEW r \in Request, Delivered(r)
  PROVE  StoreInv'
<1> DEFINE s == req[r].sid
<1>1. req[r].stage \in Using /\ req[r].stage \notin Away
  BY DEF Delivered, Using, Away
<1>2. /\ s \in Sid /\ (req[r].epoch = epoch[s] \/ req[r].late)
      /\ safe[s] \subseteq Written(r)
  BY <1>1, UserFacts DEF Written
<1>9. idle[s] \in Nat /\ safe[s] \in SUBSET (Request \cup {Foreign})
  BY <1>2 DEF StoreInv, TypeOK
<1>3. idle = [idle EXCEPT ![s] = idle[s]] /\ safe = [safe EXCEPT ![s] = safe[s]]
  BY <1>2 DEF StoreInv, TypeOK
<1>4. req' = [req EXCEPT ![r] = Ended] /\ UNCHANGED <<strict, lazy, issued, epoch, idle>>
  BY DEF Delivered
<1>5. \A q \in Request \ {r} : Holds(q, s) => safe[s] \subseteq req[q].data
  BY <1>2 DEF StoreInv, SafeOK
<1>6. CASE req[r].stage = "put"
  <2>1. PICK rec \in Record :
          /\ PutRecord(r) = [store EXCEPT ![s] = rec]
          /\ rec.data = Written(r) /\ rec.life = Lifetime
          /\ rec.epoch = req[r].epoch /\ rec.late = req[r].late
    BY <1>1, PutFacts
  <2>2. store' = [store EXCEPT ![s] = rec] /\ safe' = [safe EXCEPT ![s] = safe[s]]
    BY <1>3, <1>6, <2>1 DEF Delivered
  <2>3. rec # None /\ rec.life + idle[s] >= Lifetime /\ idle' = [idle EXCEPT ![s] = idle[s]]
    BY <1>3, <1>4, <1>9, <2>1, SidAssumption, LifetimeIsTtl DEF Record
  <2>4. OneRecord(s) /\ store'[s] = rec /\ idle'[s] = idle[s] /\ safe'[s] = safe[s]
    <3>1. rec \in Record \cup {None} /\ s \in Sid
      BY <1>2
    <3>2. idle' = idle /\ safe' = safe
      BY <1>4, <1>6 DEF Delivered
    <3>3. store'[s] = rec /\ \A t \in Sid \ {s} : store'[t] = store[t]
      BY <2>2, <3>1 DEF StoreInv, TypeOK
    <3>4. store' \in [Sid -> Record \cup {None}]
      BY <2>2, <3>1 DEF StoreInv, TypeOK
    <3> QED
      BY <3>2, <3>3, <3>4 DEF OneRecord, StoreInv, TypeOK
  <2>5. /\ store'[s] # None /\ (store'[s].epoch = epoch[s] \/ store'[s].late)
        /\ store'[s].life + idle'[s] >= Lifetime
        /\ safe'[s] \subseteq store'[s].data
        /\ \A q \in Request \ {r} : Holds(q, s) => safe'[s] \subseteq req[q].data
    BY <1>2, <1>5, <2>1, <2>3, <2>4
  <2> QED
    BY <1>1, <1>4, <2>4, <2>5, EndStep
<1>7. CASE req[r].stage = "touch"
  <2>1. /\ store' = TouchRecord(r) /\ safe' = safe
        /\ idle' = IF Exists(s) THEN [idle EXCEPT ![s] = idle[s]] ELSE idle
    BY <1>3, <1>7 DEF Delivered
  <2> QED
    BY <1>1, <1>4, <1>9, <2>1, TouchStep
<1>8. CASE req[r].stage = "remove"
  <2>1. /\ store' = [store EXCEPT ![s] = None] /\ safe' = [safe EXCEPT ![s] = {}]
        /\ idle' = [idle EXCEPT ![s] = idle[s]]
    BY <1>3, <1>8 DEF Delivered, RemoveRecord
  <2>2. {} \in SUBSET (Request \cup {Foreign}) /\ None \in Record \cup {None}
    OBVIOUS
  <2>3. OneRecord(s) /\ store'[s] = None /\ safe'[s] = {}
    <3>1. idle' = idle
      BY <1>4
    <3>2. /\ store'[s] = None /\ safe'[s] = {}
          /\ \A t \in Sid \ {s} : store'[t] = store[t] /\ safe'[t] = safe[t]
      BY <1>2, <2>1 DEF StoreInv, TypeOK
    <3>3. store' \in [Sid -> Record \cup {None}]
      BY <1>2, <2>1 DEF StoreInv, TypeOK
    <3>4. safe' \in [Sid -> SUBSET (Request \cup {Foreign})]
      BY <1>2, <2>1, <2>2 DEF StoreInv, TypeOK
    <3> QED
      BY <3>1, <3>2, <3>3, <3>4 DEF OneRecord, StoreInv, TypeOK
  <2> QED
    BY <1>1, <1>4, <2>3, EndStep
<1> QED
  BY <1>6, <1>7, <1>8 DEF Delivered

(* PS_DESTROY marks whoever else has read the session.                      *)
LEMMA DestroyStep ==
  ASSUME StoreInv, NEW r \in Request, Destroy(r)
  PROVE  StoreInv'
<1> DEFINE s == req[r].sid
<1>1. req[r].stage \in Using /\ req[r].stage \notin Away
  BY DEF Destroy, Using, Away
<1>2. s \in Sid /\ (strict => s \in issued) /\ \A q \in Request : Fresh(q) => req[q].sid # s
  BY <1>1, UserFacts DEF Fresh, Using
<1>3. /\ store' = [store EXCEPT ![s] = None] /\ safe' = [safe EXCEPT ![s] = {}]
      /\ idle' = [idle EXCEPT ![s] = Lifetime] /\ epoch' = [epoch EXCEPT ![s] = epoch[s] + 1]
      /\ UNCHANGED <<strict, lazy, issued>>
  BY DEF Destroy, RemoveRecord, ReportDestroyed
<1>4. /\ store'[s] = None /\ safe'[s] = {} /\ idle'[s] = Lifetime
      /\ \A t \in Sid \ {s} : /\ store'[t] = store[t] /\ safe'[t] = safe[t]
                               /\ idle'[t] = idle[t] /\ epoch'[t] = epoch[t]
  BY <1>2, <1>3 DEF StoreInv, TypeOK
<1>5. req'[r] = Ended /\ req' = [q \in Request |-> req'[q]]
  BY DEF Destroy, ReportDestroyed
<1>6. ASSUME NEW q \in Request \ {r}
      PROVE  /\ req'[q] \in RequestState /\ req'[q].stage = req[q].stage /\ req'[q].sid = req[q].sid
             /\ req'[q].data = req[q].data /\ req'[q].epoch = req[q].epoch /\ req'[q].sole = req[q].sole
             /\ req'[q].empty = req[q].empty
             /\ req'[q].late = (req[q].late \/ Holds(q, s))
  <2>1. req[q] \in RequestState
    BY DEF StoreInv, TypeOK
  <2>2. req'[q] = IF Holds(q, s) THEN [req[q] EXCEPT !.late = TRUE] ELSE req[q]
    BY DEF Destroy, ReportDestroyed
  <2> QED
    BY <2>1, <2>2 DEF RequestState
<1>7. TypeOK'
  <2>1. store' \in [Sid -> Record \cup {None}] /\ idle' \in [Sid -> Nat] /\ epoch' \in [Sid -> Nat]
    BY <1>2, <1>3, LifetimeIsTtl DEF StoreInv, TypeOK
  <2>2. safe' \in [Sid -> SUBSET (Request \cup {Foreign})]
    BY <1>2, <1>3 DEF StoreInv, TypeOK
  <2>3. /\ req' \in [Request -> RequestState]
        /\ \A q \in Request : req'[q].stage \notin {"none", "create", "done"} => req'[q].sid \in Sid
    BY <1>5, <1>6, EndedType DEF StoreInv, TypeOK
  <2> QED
    BY <1>3, <2>1, <2>2, <2>3 DEF StoreInv, TypeOK
<1>8. OnlyIssuedIds'
  BY <1>3, <1>4, <1>5, <1>6, EndedType DEF StoreInv, OnlyIssuedIds, Exists
<1>9. \A t \in Sid : ~Holds(r, t)'
  BY <1>5, EndedType, SidAssumption DEF Holds
<1>10. \A q \in Request \ {r}, t \in Sid : Holds(q, t)' <=> Holds(q, t)
  BY <1>6 DEF Holds
<1>11. EpochsOK'
  <2>1. DestroyIsFinal'
    BY <1>4 DEF StoreInv, EpochsOK, DestroyIsFinal, Exists
  <2>2. ASSUME NEW q \in Request, NEW t \in Sid, Holds(q, t)'
        PROVE  req'[q].epoch = epoch'[t] \/ req'[q].late
    <3>1. q # r /\ Holds(q, t)
      BY <1>9, <1>10, <2>2
    <3>2. req[q].epoch = epoch[t] \/ req[q].late
      BY <3>1 DEF StoreInv, EpochsOK
    <3> QED
      BY <1>4, <1>6, <3>1, <3>2
  <2> QED
    BY <2>1, <2>2 DEF EpochsOK
<1>12. SafeOK'
  BY <1>4, <1>6, <1>9, <1>10 DEF StoreInv, SafeOK, AcknowledgedIsKept, Exists
<1>13. SolesOK'
  <2>1. NewSessionIsEmpty' /\ \A q \in Request : req'[q].stage \in Away => ~req'[q].sole
    BY <1>5, <1>6, EndedType DEF StoreInv, SolesOK, NewSessionIsEmpty
  <2>2. ASSUME NEW q \in Request, Fresh(q)'
        PROVE  /\ strict' /\ ~Exists(req[q].sid)' /\ req'[q].sid = req[q].sid
               /\ \A o \in Request \ {q} : req'[o].sid = req'[q].sid => req'[o].stage \in Away
    <3>1. q # r /\ Fresh(q) /\ req'[q].sid = req[q].sid
      BY <1>5, <1>6, <2>2, EndedType DEF Fresh
    <3>2. req[q].sid # s /\ req[q].sid \in Sid
      BY <1>2, <3>1, UserFacts DEF Fresh, Away
    <3>3. ~Exists(req[q].sid)' /\ strict'
      BY <1>3, <1>4, <3>1, <3>2 DEF StoreInv, SolesOK, Exists
    <3>4. Ended.stage \in Away
      BY EndedType DEF Away
    <3> QED
      BY <1>5, <1>6, <3>1, <3>3, <3>4 DEF StoreInv, SolesOK
  <2> QED
    BY <2>1, <2>2 DEF SolesOK
<1>14. RenewedOnClose'
  BY <1>4 DEF StoreInv, RenewedOnClose, Exists
<1> QED
  BY <1>7, <1>8, <1>11, <1>12, <1>13, <1>14 DEF StoreInv

(* Time passes: what expires was idle for its lifetime.                     *)
LEMMA TickStep ==
  ASSUME StoreInv, Tick
  PROVE  StoreInv'
<1> DEFINE Counts(s) == Exists(s) /\ Foreign \notin store[s].data
<1>1. UNCHANGED <<strict, lazy, req, issued, epoch>>
  BY DEF Tick
<1>2. ASSUME NEW s \in Sid
      PROVE  \/ /\ Counts(s) /\ store[s].life <= 1
                /\ store'[s] = None /\ safe'[s] = {}
             \/ /\ Counts(s) /\ store[s].life > 1
                /\ store'[s] = [store[s] EXCEPT !.life = store[s].life - 1] /\ safe'[s] = safe[s]
             \/ ~Counts(s) /\ store'[s] = store[s] /\ safe'[s] = safe[s]
  <2>1. Exists(s) => store[s].life \in Nat
    BY DEF StoreInv, TypeOK, Exists, Record
  <2> QED
    BY <2>1 DEF Tick
<1>3. \A s \in Sid : idle'[s] = IF Exists(s) /\ idle[s] < Lifetime THEN idle[s] + 1 ELSE Lifetime
  BY DEF Tick
<1>4. /\ store' = [s \in Sid |-> store'[s]] /\ safe' = [s \in Sid |-> safe'[s]]
      /\ idle' = [s \in Sid |-> idle'[s]]
  BY DEF Tick
<1>5. ASSUME NEW s \in Sid
      PROVE  /\ store'[s] \in Record \cup {None} /\ safe'[s] \in SUBSET (Request \cup {Foreign})
             /\ store'[s] # None =>
                  /\ Exists(s) /\ store'[s].epoch = store[s].epoch /\ store'[s].late = store[s].late
                  /\ store'[s].data = store[s].data
                  /\ Counts(s) => store[s].life \in Nat /\ store'[s].life = store[s].life - 1
             /\ (safe'[s] # {} /\ store'[s] = None) => store[s] = None
             /\ safe'[s] \subseteq safe[s]
  <2>1. Exists(s) => store[s] \in Record
    BY DEF StoreInv, TypeOK, Exists
  <2>2. safe[s] \in SUBSET (Request \cup {Foreign}) /\ store[s] \in Record \cup {None}
    BY DEF StoreInv, TypeOK
  <2>3. CASE Counts(s) /\ store[s].life <= 1
    <3>1. store'[s] = None /\ safe'[s] = {}
      BY <2>3 DEF Tick
    <3> QED
      BY <2>2, <3>1
  <2>4. CASE ~Counts(s)
    BY <1>2, <2>2, <2>4 DEF Exists
  <2>5. CASE Counts(s) /\ store[s].life > 1
    <3> DEFINE v == [store[s] EXCEPT !.life = store[s].life - 1]
    <3>1. store'[s] = v /\ safe'[s] = safe[s]
      BY <1>2, <2>1, <2>5 DEF Record
    <3>2. /\ v \in Record /\ v.data = store[s].data /\ v.life = store[s].life - 1
          /\ v.epoch = store[s].epoch /\ v.late = store[s].late /\ store[s].life \in Nat
      BY <2>1, <2>5 DEF Record
    <3>3. v # None
      BY <3>2, SidAssumption DEF Record
    <3> HIDE DEF v
    <3> QED
      BY <2>2, <2>5, <3>1, <3>2, <3>3
  <2>6. Counts(s) => store[s].life <= 1 \/ store[s].life > 1
    BY <2>1 DEF Record
  <2> QED
    BY <2>3, <2>4, <2>5, <2>6
<1>6. TypeOK'
  <2>1. store' \in [Sid -> Record \cup {None}] /\ safe' \in [Sid -> SUBSET (Request \cup {Foreign})]
    BY <1>4, <1>5
  <2>2. \A s \in Sid : idle'[s] \in Nat
    BY <1>3, LifetimeIsTtl DEF StoreInv, TypeOK
  <2> QED
    BY <1>1, <1>4, <2>1, <2>2 DEF StoreInv, TypeOK
<1>7. OnlyIssuedIds'
  BY <1>1, <1>5 DEF StoreInv, OnlyIssuedIds, Exists
<1>8. EpochsOK'
  BY <1>1, <1>5 DEF StoreInv, EpochsOK, DestroyIsFinal, Exists, Holds
<1>9. SafeOK'
  <2>1. AcknowledgedIsKept'
    BY <1>5 DEF StoreInv, SafeOK, AcknowledgedIsKept, Exists
  <2>2. \A r \in Request, s \in Sid : Holds(r, s)' => safe'[s] \subseteq req'[r].data
    BY <1>1, <1>5 DEF StoreInv, SafeOK, Holds
  <2> QED
    BY <2>1, <2>2 DEF SafeOK
<1>10. SolesOK'
  <2>1. ASSUME NEW r \in Request, Fresh(r)
        PROVE  ~Exists(req[r].sid)'
    <3>1. req[r].sid \in Sid
      BY <2>1, UserFacts DEF Fresh, Away
    <3> QED
      BY <1>1, <1>5, <2>1, <3>1 DEF StoreInv, SolesOK, Exists
  <2> QED
    BY <1>1, <2>1 DEF StoreInv, SolesOK, NewSessionIsEmpty, Fresh
<1>11. RenewedOnClose'
  <2> SUFFICES ASSUME NEW s \in Sid, Exists(s)', Foreign \notin store'[s].data
               PROVE  store'[s].life + idle'[s] >= Lifetime
    BY DEF RenewedOnClose
  <2>1. Counts(s) /\ store[s].life \in Nat /\ store'[s].life = store[s].life - 1
    BY <1>5 DEF Exists
  <2>2. store[s].life + idle[s] >= Lifetime /\ idle[s] \in Nat
    BY <2>1 DEF StoreInv, TypeOK, RenewedOnClose
  <2>3. store'[s].life \in Nat
    BY <1>6 DEF TypeOK, Exists, Record
  <2> QED
    BY <1>3, <2>1, <2>2, <2>3, LifetimeIsTtl
<1> QED
  BY <1>6, <1>7, <1>8, <1>9, <1>10, <1>11 DEF StoreInv

(* Every step keeps the invariant.                                          *)
LEMMA InvStep == StoreInv /\ [Next]_vars => StoreInv'
<1> SUFFICES ASSUME StoreInv, [Next]_vars PROVE StoreInv'
  OBVIOUS
<1> USE DEF history
<1>1. ASSUME NEW r \in Request, NEW cookie \in Sid \cup {NoSid}, Start(r, cookie) PROVE StoreInv'
  BY <1>1, StartStep
<1>2. ASSUME NEW r \in Request, NEW answered \in BOOLEAN, Validate(r, answered) \/ Read(r, answered)
      PROVE  StoreInv'
  BY <1>2, ValidateStep, ReadStep
<1>3. ASSUME NEW r \in Request, NEW answered \in BOOLEAN, NEW s \in Sid \cup {NoSid}, CreateSid(r, s, answered)
      PROVE  StoreInv'
  BY <1>3, CreateSidStep
<1>4. ASSUME NEW r \in Request, CreateSidFailed(r) \/ Change(r) PROVE StoreInv'
  BY <1>4, CreateSidFailedStep, ChangeStep
<1>5. ASSUME NEW r \in Request, Write(r) \/ Destroy(r) \/ Delivered(r) PROVE StoreInv'
  BY <1>5, WriteStep, DestroyStep, DeliveredStep
<1>6. ASSUME NEW r \in Request, UpdateTimestamp(r) PROVE StoreInv'
  <2>1. req[r].stage \in Using /\ 0 \in Nat
    BY <1>6 DEF UpdateTimestamp, Using
  <2> QED
    BY <1>6, <2>1, TouchStep DEF UpdateTimestamp
<1>7. ASSUME NEW r \in Request, CloseUnanswered(r) \/ DestroyUnanswered(r) PROVE StoreInv'
  <2>1. PICK stage \in {"put", "touch", "remove"} :
          /\ req[r].stage = "active" /\ req' = [req EXCEPT ![r].stage = stage]
          /\ UNCHANGED <<strict, lazy, store, issued, epoch, idle, safe>>
    BY <1>7 DEF CloseUnanswered, DestroyUnanswered
  <2>2. stage \in Stage /\ stage \in Using \ {"active"}
    BY <2>1 DEF Stage, Using
  <2> QED
    BY <2>1, <2>2, StageStep
<1>8. ASSUME NEW r \in Request, Gone(r) PROVE StoreInv'
  BY <1>8, EndQuietly DEF Gone
<1>9. CASE Tick
  BY <1>9, TickStep
<1>10. CASE UNCHANGED vars
  BY <1>10 DEF vars, StoreInv, TypeOK, OnlyIssuedIds, EpochsOK, DestroyIsFinal, SafeOK, AcknowledgedIsKept,
               SolesOK, NewSessionIsEmpty, Fresh, RenewedOnClose, Exists, Holds
<1> QED
  BY <1>1, <1>2, <1>3, <1>4, <1>5, <1>6, <1>7, <1>8, <1>9, <1>10 DEF Next, Done

-----------------------------------------------------------------------------
(* Records and requests are in order after every step, whichever answers    *)
(* were lost or came late.                                                  *)
THEOREM StoreInvariance == Spec => []StoreInv
BY InitInv, InvStep, PTL DEF Spec

(* No failure at a later request loses what PS_WRITE acknowledged while     *)
(* nobody else had the session.                                             *)
THEOREM NothingAcknowledgedIsLost == Spec => []AcknowledgedIsKept
<1>1. StoreInv => AcknowledgedIsKept
  BY DEF StoreInv, SafeOK
<1> QED
  BY <1>1, StoreInvariance, PTL

(* PS_VALIDATE_SID and PS_CREATE_SID adopt no id that a client invented.    *)
THEOREM NoInventedIds == Spec => []OnlyIssuedIds
<1>1. StoreInv => OnlyIssuedIds
  BY DEF StoreInv
<1> QED
  BY <1>1, StoreInvariance, PTL

(* After a reported PS_DESTROY a session is only written by a request that  *)
(* had read it before.                                                      *)
THEOREM DestroyHolds == Spec => []DestroyIsFinal
<1>1. StoreInv => DestroyIsFinal
  BY DEF StoreInv, EpochsOK
<1> QED
  BY <1>1, StoreInvariance, PTL

(* A session under an id of PS_CREATE_SID that nobody shares starts empty.  *)
THEOREM NewSessionsAreEmpty == Spec => []NewSessionIsEmpty
<1>1. StoreInv => NewSessionIsEmpty
  BY DEF StoreInv, SolesOK
<1> QED
  BY <1>1, StoreInvariance, PTL

(* A session lives for its lifetime after the last PS_WRITE or              *)
(* PS_UPDATE_TIMESTAMP that reported success.                               *)
THEOREM SessionsLive == Spec => []RenewedOnClose
<1>1. StoreInv => RenewedOnClose
  BY DEF StoreInv
<1> QED
  BY <1>1, StoreInvariance, PTL
=============================================================================
