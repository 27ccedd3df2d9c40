-------------------------- MODULE ClientLifecycle --------------------------
(***************************************************************************)
(* The life of a connection to the cluster inside one PHP process (one     *)
(* thread's module globals in a thread-safe build).                        *)
(*                                                                         *)
(* Aerospike objects and the session handler hold pointers to `aerospike`  *)
(* handles of the C client library.  A handle is owned either by one       *)
(* object (a private connection) or by the persistent list, which lives as *)
(* long as the process and lends it to any number of objects and to the    *)
(* session handler.  No reference count guards a lent handle: ref_cnt and  *)
(* conn_cnt of persistent_host are incremented and never read, and are     *)
(* left out.  What keeps it alive is the is_persistent flag of every       *)
(* borrower.  The policy defaults a handle carries are those of Policies.  *)
(*                                                                         *)
(* A definition named Mut_<fault>_<name> is <name> with that fault in it:  *)
(* the properties are tested against them.                                 *)
(*                                                                         *)
(* Source: client/aerospike_class.c, persistent_list.c, aerospike.c,       *)
(* client/php_client_utils.c, client/aerospike_session.c.                  *)
(***************************************************************************)
EXTENDS Naturals

CONSTANTS
    Object,     \* slots for PHP objects of class Aerospike
    Handle,     \* addresses an `aerospike` struct can be allocated at
    Alias,      \* search strings: hosts, ports, user and shm key of a config
    Null        \* the NULL pointer

ASSUME NullAssumption == Null \notin Handle

VARIABLES
    phase,          \* where the process is in the life of a request
    ostate,         \* the object store: is the object there, was dtor_obj run
    as_client,      \* AerospikeClient.as_client of each object
    is_connected,   \* AerospikeClient.is_connected
    is_valid,       \* AerospikeClient.is_valid
    is_persistent,  \* AerospikeClient.is_persistent
    cluster,        \* each handle: not allocated, or its cluster pointer
    persistent_list,\* AEROSPIKE_G(persistent_list_g): alias -> handle
    host_connected, \* persistent_host.is_connected of each entry
    session,        \* the handle the session module data points to
    lastcall        \* history: the last data call made into the library

objvars  == <<ostate, as_client, is_connected, is_valid, is_persistent>>
listvars == <<persistent_list, host_connected>>
vars == <<phase, objvars, cluster, listvars, session, lastcall>>

Phase == {"idle", "request", "destructors", "rshutdown", "down"}
ObjectState == {"none", "live", "destructed"}

(* "free": not allocated.  "closed": allocated, as->cluster is NULL.       *)
(* "open": allocated and tending a cluster.                                *)
ClusterState == {"free", "closed", "open"}

NoCall == [by |-> "nobody", on |-> "none", cluster |-> "open"]
LastCall == [by : {"nobody", "checked", "get", "session"},
             on : ObjectState,
             cluster : ClusterState \cup {"null"}]

TypeOK ==
    /\ phase \in Phase
    /\ ostate \in [Object -> ObjectState]
    /\ as_client \in [Object -> Handle \cup {Null}]
    /\ is_connected \in [Object -> BOOLEAN]
    /\ is_valid \in [Object -> BOOLEAN]
    /\ is_persistent \in [Object -> BOOLEAN]
    /\ cluster \in [Handle -> ClusterState]
    /\ persistent_list \in [Alias -> Handle \cup {Null}]
    /\ host_connected \in [Alias -> BOOLEAN]
    /\ session \in Handle \cup {Null}
    /\ lastcall \in LastCall

Listed == {persistent_list[a] : a \in Alias} \ {Null}

(* PHP_GINIT and PHP_MINIT: the list is empty, no request is running. *)
Init ==
    /\ phase = "idle"
    /\ ostate = [o \in Object |-> "none"]
    /\ as_client = [o \in Object |-> Null]
    /\ is_connected = [o \in Object |-> FALSE]
    /\ is_valid = [o \in Object |-> FALSE]
    /\ is_persistent = [o \in Object |-> FALSE]
    /\ cluster = [h \in Handle |-> "free"]
    /\ persistent_list = [a \in Alias |-> Null]
    /\ host_connected = [a \in Alias |-> FALSE]
    /\ session = Null
    /\ lastcall = NoCall

-----------------------------------------------------------------------------
(* The handle API of the C client (external).                              *)

(* aerospike_close: safe to repeat, leaves the struct with a NULL cluster. *)
aerospike_close(c, h) == [c EXCEPT ![h] = "closed"]
aerospike_destroy(c, h) == [c EXCEPT ![h] = "free"]
(* aerospike_connect: returns OK at once on an open handle; a failure      *)
(* leaves the cluster pointer NULL.                                        *)
ConnectMayFail(h) == cluster[h] # "open"

-----------------------------------------------------------------------------
(* Which script-visible code can run. *)
UserCode == phase \in {"request", "destructors"}

(* zend_objects: an object whose constructor has not run holds the zeroes  *)
(* of ecalloc.  A subclass that never calls parent::__construct() stays so.*)
CreateObject(o) ==
    /\ UserCode
    /\ ostate[o] = "none"
    /\ ostate' = [ostate EXCEPT ![o] = "live"]
    /\ UNCHANGED <<phase, as_client, is_connected, is_valid, is_persistent,
                   cluster, listvars, session, lastcall>>

(* Every constructor run first resets the flags, the pointer it leaves     *)
(* alone: a second __construct() on the same object starts from the old    *)
(* one.  Arguments, hosts, config or policies that are refused end it here.*)
ConstructRejected(o) ==
    /\ UserCode
    /\ ostate[o] = "live"
    /\ is_connected' = [is_connected EXCEPT ![o] = FALSE]
    /\ is_valid' = [is_valid EXCEPT ![o] = FALSE]
    /\ is_persistent' = [is_persistent EXCEPT ![o] = TRUE]
    /\ as_client' \in {as_client, [as_client EXCEPT ![o] = Null]}
    /\ UNCHANGED <<phase, ostate, cluster, listvars, session, lastcall>>

Mut_NotConnected_add_persistent_host(a, h) ==
    /\ persistent_list' = [persistent_list EXCEPT ![a] = h]
    /\ host_connected' = [host_connected EXCEPT ![a] = FALSE]

add_persistent_host(a, h) ==
    /\ persistent_list' = [persistent_list EXCEPT ![a] = h]
    /\ host_connected' = [host_connected EXCEPT ![a] = TRUE]

Mut_SkipsLookup_persistent_connect(h, a, as, ok, destroy_on_failure) ==
    LET failed == IF destroy_on_failure THEN "free" ELSE "closed" IN
    /\ as = h
    /\ \/ /\ ok
          /\ cluster' = [cluster EXCEPT ![h] = "open"]
          /\ add_persistent_host(a, h)
       \/ /\ ~ok
          /\ cluster' = [cluster EXCEPT ![h] = failed]
          /\ UNCHANGED listvars

(* persistent_connect on a client whose fresh handle is h: ok is the       *)
(* status, as the pointer the client ends up with.  The caller destroys    *)
(* that pointer when it fails, or keeps it.                                *)
persistent_connect(h, a, as, ok, destroy_on_failure) ==
    LET failed == IF destroy_on_failure THEN "free" ELSE "closed" IN
    \/ /\ persistent_list[a] # Null
       /\ as = persistent_list[a]      \* the fresh handle is destroyed
       /\ UNCHANGED persistent_list
       /\ \/ /\ host_connected[a]
             /\ ok
             /\ UNCHANGED <<cluster, host_connected>>
          \/ /\ ~host_connected[a]
             /\ ok
             /\ cluster' = [cluster EXCEPT ![as] = "open"]
             /\ host_connected' = [host_connected EXCEPT ![a] = TRUE]
          \/ /\ ~host_connected[a]
             /\ ConnectMayFail(as)
             /\ ~ok
             /\ cluster' = [cluster EXCEPT ![as] = failed]
             /\ UNCHANGED host_connected
    \/ /\ persistent_list[a] = Null
       /\ ok
       /\ as = h
       /\ cluster' = [cluster EXCEPT ![h] = "open"]
       /\ add_persistent_host(a, h)
    \/ /\ ~ok                         \* no memory for the search string, or
       /\ as = h                      \* the first connection fails
       /\ cluster' = [cluster EXCEPT ![h] = failed]
       /\ UNCHANGED listvars

(* A persistent constructor that gets past aerospike_new.  A failure to    *)
(* connect throws and leaves the object valid, persistent, not connected.  *)
ConstructPersistent(o, a) ==
    /\ UserCode
    /\ ostate[o] = "live"
    /\ \E h \in Handle, as \in Handle, ok \in BOOLEAN :
         /\ cluster[h] = "free"
         /\ persistent_connect(h, a, as, ok, FALSE)
         /\ as_client' = [as_client EXCEPT ![o] = as]
         /\ is_connected' = [is_connected EXCEPT ![o] = ok]
    /\ is_valid' = [is_valid EXCEPT ![o] = TRUE]
    /\ is_persistent' = [is_persistent EXCEPT ![o] = TRUE]
    /\ UNCHANGED <<phase, ostate, session, lastcall>>

Mut_IgnoresStatus_ConstructPrivate(o) ==
    /\ UserCode
    /\ ostate[o] = "live"
    /\ \E h \in Handle, ok \in BOOLEAN :
         /\ cluster[h] = "free"
         /\ cluster' = [cluster EXCEPT ![h] = IF ok THEN "open" ELSE "closed"]
         /\ as_client' = [as_client EXCEPT ![o] = h]
         /\ is_connected' = [is_connected EXCEPT ![o] = TRUE]
    /\ is_valid' = [is_valid EXCEPT ![o] = TRUE]
    /\ is_persistent' = [is_persistent EXCEPT ![o] = FALSE]
    /\ UNCHANGED <<phase, ostate, listvars, session, lastcall>>

(* A constructor asked for a connection of its own. *)
ConstructPrivate(o) ==
    /\ UserCode
    /\ ostate[o] = "live"
    /\ \E h \in Handle, ok \in BOOLEAN :
         /\ cluster[h] = "free"
         /\ cluster' = [cluster EXCEPT ![h] = IF ok THEN "open" ELSE "closed"]
         /\ as_client' = [as_client EXCEPT ![o] = h]
         /\ is_connected' = [is_connected EXCEPT ![o] = ok]
    /\ is_valid' = [is_valid EXCEPT ![o] = TRUE]
    /\ is_persistent' = [is_persistent EXCEPT ![o] = FALSE]
    /\ UNCHANGED <<phase, ostate, listvars, session, lastcall>>

Mut_AlwaysCloses_Close(o) ==
    /\ UserCode
    /\ ostate[o] # "none"
    /\ as_client[o] # Null
    /\ cluster' = aerospike_close(cluster, as_client[o])
    /\ is_connected' = [is_connected EXCEPT ![o] = FALSE]
    /\ UNCHANGED <<phase, ostate, as_client, is_valid, is_persistent, listvars, session, lastcall>>

(* Aerospike::close(): the cluster connection is closed only when it is    *)
(* not shared; with a NULL pointer the call returns before it touches      *)
(* anything.                                                               *)
Close(o) ==
    /\ UserCode
    /\ ostate[o] # "none"
    /\ as_client[o] # Null
    /\ cluster' = IF is_persistent[o]
                    THEN cluster
                    ELSE aerospike_close(cluster, as_client[o])
    /\ is_connected' = [is_connected EXCEPT ![o] = FALSE]
    /\ UNCHANGED <<phase, ostate, as_client, is_valid, is_persistent, listvars, session, lastcall>>

(* Aerospike::reconnect(): refused on a NULL pointer or while the object   *)
(* counts as connected (neither changes this state); otherwise connects    *)
(* whatever the pointer refers to, shared or not.                          *)
Reconnect(o) ==
    /\ UserCode
    /\ ostate[o] # "none"
    /\ as_client[o] # Null
    /\ ~is_connected[o]
    /\ cluster' = [cluster EXCEPT ![as_client[o]] = "open"]
    /\ is_connected' = [is_connected EXCEPT ![o] = TRUE]
    /\ UNCHANGED <<phase, ostate, as_client, is_valid, is_persistent, listvars, session, lastcall>>

-----------------------------------------------------------------------------
(* Data calls. *)

check_object_and_connection(o) ==
    /\ as_client[o] # Null
    /\ is_valid[o]
    /\ is_connected[o]

ClusterAt(h) == IF h = Null THEN "null" ELSE cluster[h]

(* put, exists, scan, ... : every method that returns when the check fails *)
(* hands the handle to the library only after it passed.                   *)
CheckedCall(o) ==
    /\ UserCode
    /\ ostate[o] # "none"
    /\ check_object_and_connection(o)
    /\ lastcall' = [by |-> "checked", on |-> ostate[o],
                    cluster |-> ClusterAt(as_client[o])]
    /\ UNCHANGED <<phase, objvars, cluster, listvars, session>>

(* get records the failed check in the error object and carries on. *)
GetCall(o) ==
    /\ UserCode
    /\ ostate[o] # "none"
    /\ lastcall' = [by |-> "get", on |-> ostate[o],
                    cluster |-> ClusterAt(as_client[o])]
    /\ UNCHANGED <<phase, objvars, cluster, listvars, session>>

-----------------------------------------------------------------------------
(* The session handler, the second borrower of the list.                   *)

(* PS_OPEN.  A save path that does not parse, or a failed aerospike_new,   *)
(* changes nothing.  New session data replaces any that is still set.      *)
SessionOpen(a) ==
    /\ UserCode
    /\ \E h \in Handle, as \in Handle, ok \in BOOLEAN :
         /\ cluster[h] = "free"
         /\ persistent_connect(h, a, as, ok, TRUE)
         /\ session' = IF ok THEN as ELSE session
    /\ UNCHANGED <<phase, objvars, lastcall>>

(* PS_READ, PS_WRITE, PS_DESTROY, PS_CREATE_SID, PS_VALIDATE_SID and       *)
(* PS_UPDATE_TIMESTAMP all verify the data, then call the library; PHP     *)
(* also writes at request shutdown, after the destructors have run.        *)
SessionCall ==
    /\ UserCode \/ phase = "rshutdown"
    /\ session # Null
    /\ lastcall' = [by |-> "session", on |-> "none",
                    cluster |-> ClusterAt(session)]
    /\ UNCHANGED <<phase, objvars, cluster, listvars, session>>

(* PS_CLOSE frees the session data and leaves the shared handle alone. *)
SessionClose ==
    /\ UserCode \/ phase = "rshutdown"
    /\ session # Null
    /\ session' = Null
    /\ UNCHANGED <<phase, objvars, cluster, listvars, lastcall>>

-----------------------------------------------------------------------------
(* Object teardown. *)

Mut_SkipsPersistentTest_dtor(c, o) ==
    IF as_client[o] # Null THEN aerospike_close(c, as_client[o]) ELSE c

(* dtor_obj: closes a private connection, leaves every flag as it was. *)
aerospike_object_destructor(c, o) ==
    IF ~is_persistent[o] /\ as_client[o] # Null
      THEN aerospike_close(c, as_client[o])
      ELSE c

Mut_SkipsPersistentTest_free(c, o) ==
    IF is_valid[o] /\ as_client[o] # Null
      THEN aerospike_destroy(c, as_client[o])
      ELSE c

(* free_obj: closes again and destroys a private handle. *)
aerospike_object_free_storage(c, o) ==
    IF is_valid[o] /\ ~is_persistent[o] /\ as_client[o] # Null
      THEN aerospike_destroy(aerospike_close(c, as_client[o]), as_client[o])
      ELSE c

(* The storage of an object is returned with its fields. *)
ForgetObject(o) ==
    /\ ostate' = [ostate EXCEPT ![o] = "none"]
    /\ as_client' = [as_client EXCEPT ![o] = Null]
    /\ is_connected' = [is_connected EXCEPT ![o] = FALSE]
    /\ is_valid' = [is_valid EXCEPT ![o] = FALSE]
    /\ is_persistent' = [is_persistent EXCEPT ![o] = FALSE]

(* The last reference goes away while scripts run: dtor_obj then free_obj. *)
Release(o) ==
    /\ UserCode
    /\ ostate[o] = "live"
    /\ cluster' = aerospike_object_free_storage(
                      aerospike_object_destructor(cluster, o), o)
    /\ ForgetObject(o)
    /\ UNCHANGED <<phase, listvars, session, lastcall>>

(* At the end of a request PHP runs the destructors of the objects that    *)
(* are left; a script's own destructor may still call any of them.         *)
Destruct(o) ==
    /\ phase = "destructors"
    /\ ostate[o] = "live"
    /\ cluster' = aerospike_object_destructor(cluster, o)
    /\ ostate' = [ostate EXCEPT ![o] = "destructed"]
    /\ UNCHANGED <<phase, as_client, is_connected, is_valid, is_persistent,
                   listvars, session, lastcall>>

(* After RSHUTDOWN the object store is freed, destructed or not (a fatal   *)
(* error skips the destructors).                                           *)
FreeStorage(o) ==
    /\ phase = "rshutdown"
    /\ session = Null
    /\ ostate[o] # "none"
    /\ cluster' = aerospike_object_free_storage(cluster, o)
    /\ ForgetObject(o)
    /\ UNCHANGED <<phase, listvars, session, lastcall>>

-----------------------------------------------------------------------------
(* The request cycle (external: the Zend engine) and module shutdown. *)

GoTo(p) ==
    /\ phase' = p
    /\ UNCHANGED <<objvars, cluster, listvars, session, lastcall>>

RequestStart == phase = "idle" /\ GoTo("request")
RequestEnd == phase = "request" /\ GoTo("destructors")
RShutdown ==
    \/ /\ phase = "destructors"
       /\ \A o \in Object : ostate[o] # "live"
       /\ GoTo("rshutdown")
    \/ UserCode /\ GoTo("rshutdown")        \* fatal error
RequestDone ==
    /\ phase = "rshutdown"
    /\ session = Null
    /\ \A o \in Object : ostate[o] = "none"
    /\ GoTo("idle")

(* PHP_GSHUTDOWN: zend_hash_destroy runs persistent_host_dtor on each entry.*)
GShutdown ==
    /\ phase = "idle"
    /\ phase' = "down"
    /\ cluster' = [h \in Handle |-> IF h \in Listed THEN "free" ELSE cluster[h]]
    /\ persistent_list' = [a \in Alias |-> Null]
    /\ host_connected' = [a \in Alias |-> FALSE]
    /\ UNCHANGED <<objvars, session, lastcall>>

Stopped == phase = "down" /\ UNCHANGED vars

Next ==
    \/ \E o \in Object :
         \/ CreateObject(o)
         \/ ConstructRejected(o)
         \/ ConstructPrivate(o)
         \/ \E a \in Alias : ConstructPersistent(o, a)
         \/ Close(o)
         \/ Reconnect(o)
         \/ CheckedCall(o)
         \/ GetCall(o)
         \/ Release(o)
         \/ Destruct(o)
         \/ FreeStorage(o)
    \/ \E a \in Alias : SessionOpen(a)
    \/ SessionCall
    \/ SessionClose
    \/ RequestStart
    \/ RequestEnd
    \/ RShutdown
    \/ RequestDone
    \/ GShutdown
    \/ Stopped

Spec == Init /\ [][Next]_vars

-----------------------------------------------------------------------------
(* Properties. *)

(* No object, list entry or session ever points to a handle that was       *)
(* destroyed, although nothing counts the borrowers of a shared handle:    *)
(* aerospike_object_free_storage and the failure path of                   *)
(* set_up_session_data_from_save_path destroy only what nobody else holds. *)
NoDangling ==
    /\ \A o \in Object : as_client[o] # Null => cluster[as_client[o]] # "free"
    /\ \A h \in Listed : cluster[h] # "free"
    /\ session # Null => cluster[session] # "free"

(* A handle on the persistent list is connected from the moment it is      *)
(* listed to GSHUTDOWN, whatever close(), reconnect(), destructors and     *)
(* failed constructors do, so that is_connected of its persistent_host,    *)
(* which persistent_connect trusts without asking the library, is true.    *)
ListedStaysOpen ==
    \A a \in Alias : persistent_list[a] # Null =>
        host_connected[a] /\ cluster[persistent_list[a]] = "open"

(* A live object that passes check_object_and_connection has an open       *)
(* cluster behind its pointer: the flag and the handle are changed apart   *)
(* (the constructor, close, reconnect, other borrowers) and never disagree.*)
LiveCheckedIsOpen ==
    \A o \in Object :
        ostate[o] = "live" /\ check_object_and_connection(o)
            => cluster[as_client[o]] = "open"

(* The session handler never asks is_connected; every call it makes        *)
(* finds an open cluster, up to the last write at request shutdown.        *)
SessionReachesCluster == lastcall.by = "session" => lastcall.cluster = "open"

(* How the state of SharedPool is read off: a client that is live and      *)
(* counts as connected talks through its pointer.                          *)
PoolLink == [o \in Object |->
                IF ostate[o] = "live" /\ is_connected[o]
                  THEN as_client[o] ELSE Null]
PoolUp == {h \in Handle : cluster[h] = "open"}

Pool == INSTANCE SharedPool
            WITH pool <- persistent_list, link <- PoolLink, up <- PoolUp

(* The code keeps the promise of SharedPool: no step of one client, of the *)
(* session handler or of a destructor closes the connection of another.    *)
ImplementsPool == Pool!Spec

(* The inductive invariant behind them: a private pointer is nobody        *)
(* else's, and two holders of one handle hold it from the list.            *)
Inv ==
    /\ TypeOK
    /\ ListedStaysOpen
    /\ \A a, b \in Alias :
          a # b /\ persistent_list[a] # Null
              => persistent_list[a] # persistent_list[b]
    /\ \A o \in Object : as_client[o] # Null => cluster[as_client[o]] # "free"
    /\ \A o \in Object :
          as_client[o] # Null /\ ~is_persistent[o]
              => \A a \in Alias : persistent_list[a] # as_client[o]
    /\ \A o, q \in Object :
          o # q /\ as_client[o] # Null /\ as_client[o] = as_client[q]
              => \E a \in Alias : persistent_list[a] = as_client[o]
    /\ session # Null => \E a \in Alias : persistent_list[a] = session
    /\ \A o \in Object :
          ostate[o] = "live" /\ is_connected[o]
              => as_client[o] # Null /\ cluster[as_client[o]] = "open"
    /\ \A o \in Object : ostate[o] = "none" =>
          as_client[o] = Null /\ ~is_connected[o] /\ ~is_persistent[o]
    /\ phase \in {"idle", "down"} =>
          session = Null /\ \A o \in Object : ostate[o] = "none"
    /\ SessionReachesCluster

=============================================================================
