----------------------------- MODULE SharedPool -----------------------------
(***************************************************************************)
(* What the extension promises about connections, without saying how.      *)
(*                                                                         *)
(* A process keeps one connection per alias for reuse and lends it to its  *)
(* clients; a client may also have a connection of its own.  A lent        *)
(* connection is closed by nobody before the process ends, an own one only *)
(* by its client, and no two clients ever share a connection the process   *)
(* does not keep.  "With persistent connections, the methods reconnect()   *)
(* and close() do not actually close the connection" (doc/README.md).      *)
(***************************************************************************)
CONSTANTS Object, Handle, Alias, Null

VARIABLES
    pool,       \* the connection kept for each alias
    link,       \* the connection each connected client talks through
    up          \* the connections that are open

vars == <<pool, link, up>>

Pooled == {pool[a] : a \in Alias} \ {Null}
Linked == {link[o] : o \in Object} \ {Null}

TypeOK ==
    /\ pool \in [Alias -> Handle \cup {Null}]
    /\ link \in [Object -> Handle \cup {Null}]
    /\ up \in SUBSET Handle

Init ==
    /\ pool = [a \in Alias |-> Null]
    /\ link = [o \in Object |-> Null]
    /\ up = {}

(* The connection of an alias is opened once and kept. *)
Stock(a, h) ==
    /\ pool[a] = Null
    /\ h \notin Pooled \cup Linked
    /\ pool' = [pool EXCEPT ![a] = h]
    /\ up' = up \cup {h}

Keep(a, h) ==
    /\ Stock(a, h)
    /\ UNCHANGED link

(* A client gets the kept connection, the first one for an alias opens it. *)
Attach(o, a, h) ==
    /\ \/ Stock(a, h)
       \/ pool[a] = h /\ UNCHANGED <<pool, up>>
    /\ link' = [link EXCEPT ![o] = h]

(* A client gets a connection no other client talks through. *)
Own(o, h) ==
    /\ h \notin Pooled
    /\ \A other \in Object \ {o} : link[other] # h
    /\ link' = [link EXCEPT ![o] = h]
    /\ up' = up \cup {h}
    /\ UNCHANGED pool

(* A client lets go of its connection, which may close unless it is kept. *)
Detach(o) ==
    /\ link' = [link EXCEPT ![o] = Null]
    /\ \/ UNCHANGED up
       \/ link[o] \notin Pooled /\ up' = up \ {link[o]}
    /\ UNCHANGED pool

(* Connections that are neither kept nor used may open and close. *)
Background ==
    /\ \A h \in Pooled \cup Linked : h \in up' <=> h \in up
    /\ up' \in SUBSET Handle
    /\ UNCHANGED <<pool, link>>

(* The process ends after its last client. *)
Shutdown ==
    /\ Linked = {}
    /\ pool' = [a \in Alias |-> Null]
    /\ up' = up \ Pooled
    /\ UNCHANGED link

Next ==
    \/ \E a \in Alias, h \in Handle : Keep(a, h)
    \/ \E o \in Object, a \in Alias, h \in Handle : Attach(o, a, h)
    \/ \E o \in Object, h \in Handle : Own(o, h)
    \/ \E o \in Object : Detach(o)
    \/ Background
    \/ Shutdown

Spec == Init /\ [][Next]_vars

=============================================================================
