----------------------- MODULE ClientLifecycleProofs -----------------------
(***************************************************************************)
(* The invariants of ClientLifecycle for every number of objects, handles, *)
(* aliases and options.                                                    *)
(***************************************************************************)
EXTENDS ClientLifecycle, TLAPS

USE NullAssumption

(* GINIT and MINIT establish the invariant. *)
LEMMA InitInv == Init => Inv
  BY DEF Init, Inv, TypeOK, ListedStaysOpen, SessionReachesCluster, Phase,
         ObjectState, ClusterState, LastCall, NoCall

(* Stuttering and steps that only move the engine's phase keep it. *)
LEMMA GoToInv ==
    ASSUME Inv, NEW p \in Phase, GoTo(p),
           p \in {"idle", "down"} =>
              session = Null /\ \A o \in Object : ostate[o] = "none"
    PROVE  Inv'
  BY DEF Inv, TypeOK, GoTo, ListedStaysOpen, SessionReachesCluster, objvars,
         listvars

(* A new object holds nothing. *)
LEMMA CreateObjectInv ==
    ASSUME Inv, NEW o \in Object, CreateObject(o)
    PROVE  Inv'
  BY DEF Inv, TypeOK, CreateObject, UserCode, ListedStaysOpen,
         SessionReachesCluster, listvars, ObjectState

(* A constructor that refuses its arguments clears flags and no more. *)
LEMMA ConstructRejectedInv ==
    ASSUME Inv, NEW o \in Object, ConstructRejected(o)
    PROVE  Inv'
  BY DEF Inv, TypeOK, ConstructRejected, UserCode, ListedStaysOpen,
         SessionReachesCluster, listvars, ObjectState

(* A private constructor takes a handle nobody else points to. *)
LEMMA ConstructPrivateInv ==
    ASSUME Inv, NEW o \in Object, ConstructPrivate(o)
    PROVE  Inv'
  BY DEF Inv, TypeOK, ConstructPrivate, UserCode, ListedStaysOpen,
         SessionReachesCluster, listvars, ObjectState, ClusterState

(* close() closes only a handle of its own. *)
LEMMA CloseInv ==
    ASSUME Inv, NEW o \in Object, Close(o)
    PROVE  Inv'
  BY DEF Inv, TypeOK, Close, UserCode, ListedStaysOpen, aerospike_close,
         SessionReachesCluster, listvars, ObjectState, ClusterState

(* reconnect() opens whatever the pointer refers to. *)
LEMMA ReconnectInv ==
    ASSUME Inv, NEW o \in Object, Reconnect(o)
    PROVE  Inv'
  BY DEF Inv, TypeOK, Reconnect, UserCode, ListedStaysOpen,
         SessionReachesCluster, listvars, ObjectState, ClusterState

(* Because a listed host is always connected, persistent_connect has three *)
(* outcomes: the listed handle as it is, a new listed one, or a failure    *)
(* that touches only the fresh handle.                                     *)
Found(a, as, ok) ==
    /\ ok
    /\ persistent_list[a] # Null
    /\ as = persistent_list[a]
    /\ UNCHANGED <<cluster, persistent_list, host_connected>>

Added(h, a, as, ok) ==
    /\ ok
    /\ persistent_list[a] = Null
    /\ as = h
    /\ cluster' = [cluster EXCEPT ![h] = "open"]
    /\ add_persistent_host(a, h)

Failed(h, as, ok, state) ==
    /\ ~ok
    /\ as = h
    /\ cluster' = [cluster EXCEPT ![h] = state]
    /\ UNCHANGED listvars

(* persistent_connect finds the entry, adds one, or fails on its own handle. *)
LEMMA PersistentConnectCases ==
    ASSUME Inv, NEW h \in Handle, NEW a \in Alias,
           NEW as \in Handle, NEW ok \in BOOLEAN, NEW d \in BOOLEAN,
           persistent_connect(h, a, as, ok, d)
    PROVE  \/ Found(a, as, ok)
           \/ Added(h, a, as, ok)
           \/ Failed(h, as, ok, IF d THEN "free" ELSE "closed")
  BY DEF persistent_connect, Found, Added, Failed, Inv, ListedStaysOpen,
         listvars

(* A persistent constructor that fails leaves its own handle, never a listed one. *)
LEMMA ConstructPersistentInv ==
    ASSUME Inv, NEW o \in Object, NEW a \in Alias,
           ConstructPersistent(o, a)
    PROVE  Inv'
  <1>1. PICK h \in Handle, as \in Handle, ok \in BOOLEAN :
          /\ cluster[h] = "free"
          /\ persistent_connect(h, a, as, ok, FALSE)
          /\ as_client' = [as_client EXCEPT ![o] = as]
          /\ is_connected' = [is_connected EXCEPT ![o] = ok]
    BY DEF ConstructPersistent
  <1>2. \/ Found(a, as, ok)
        \/ Added(h, a, as, ok)
        \/ Failed(h, as, ok, "closed")
    BY <1>1, PersistentConnectCases
  <1> USE DEF ConstructPersistent, UserCode, Inv, TypeOK, ListedStaysOpen,
          SessionReachesCluster, ObjectState, ClusterState, listvars
  <1>3. CASE Found(a, as, ok)
    BY <1>1, <1>3 DEF Found
  <1>4. CASE Added(h, a, as, ok)
    BY <1>1, <1>4 DEF Added, add_persistent_host
  <1>5. CASE Failed(h, as, ok, "closed")
    BY <1>1, <1>5 DEF Failed
  <1> QED
    BY <1>2, <1>3, <1>4, <1>5

(* PS_OPEN destroys on failure, and then the handle is not a listed one. *)
LEMMA SessionOpenInv ==
    ASSUME Inv, NEW a \in Alias, SessionOpen(a)
    PROVE  Inv'
  <1>1. PICK h \in Handle, as \in Handle, ok \in BOOLEAN :
          /\ cluster[h] = "free"
          /\ persistent_connect(h, a, as, ok, TRUE)
          /\ session' = IF ok THEN as ELSE session
    BY DEF SessionOpen
  <1>2. \/ Found(a, as, ok)
        \/ Added(h, a, as, ok)
        \/ Failed(h, as, ok, "free")
    BY <1>1, PersistentConnectCases
  <1> USE DEF SessionOpen, UserCode, Inv, TypeOK, ListedStaysOpen, objvars,
          SessionReachesCluster, ObjectState, ClusterState, listvars
  <1>3. CASE Found(a, as, ok)
    BY <1>1, <1>3 DEF Found
  <1>4. CASE Added(h, a, as, ok)
    BY <1>1, <1>4 DEF Added, add_persistent_host
  <1>5. CASE Failed(h, as, ok, "free")
    BY <1>1, <1>5 DEF Failed
  <1> QED
    BY <1>2, <1>3, <1>4, <1>5

(* Calls change only the history; a session call finds a listed handle. *)
LEMMA CallInv ==
    ASSUME Inv,
           SessionCall \/ \E o \in Object : CheckedCall(o) \/ GetCall(o)
    PROVE  Inv'
  <1> USE DEF Inv, TypeOK, ListedStaysOpen, SessionReachesCluster, LastCall,
          ClusterAt, objvars, listvars, ClusterState, ObjectState
  <1>1. CASE SessionCall
    BY <1>1 DEF SessionCall
  <1>2. ASSUME NEW o \in Object, CheckedCall(o) \/ GetCall(o)
        PROVE  Inv'
    BY <1>2 DEF CheckedCall, GetCall
  <1> QED
    BY <1>1, <1>2

(* PS_CLOSE forgets the pointer and leaves the handle. *)
LEMMA SessionCloseInv ==
    ASSUME Inv, SessionClose
    PROVE  Inv'
  BY DEF Inv, TypeOK, SessionClose, ListedStaysOpen, SessionReachesCluster,
         objvars, listvars, UserCode

(* An object released while scripts run destroys only a private handle. *)
LEMMA ReleaseInv ==
    ASSUME Inv, NEW o \in Object, Release(o)
    PROVE  Inv'
  BY DEF Inv, TypeOK, Release, ForgetObject, aerospike_object_free_storage,
         aerospike_object_destructor, aerospike_close, aerospike_destroy,
         ListedStaysOpen, SessionReachesCluster, listvars, UserCode,
         ObjectState, ClusterState

(* dtor_obj closes only a private handle. *)
LEMMA DestructInv ==
    ASSUME Inv, NEW o \in Object, Destruct(o)
    PROVE  Inv'
  BY DEF Inv, TypeOK, Destruct, aerospike_object_destructor, aerospike_close,
         ListedStaysOpen, SessionReachesCluster, listvars, ObjectState,
         ClusterState

(* free_obj destroys only a private handle. *)
LEMMA FreeStorageInv ==
    ASSUME Inv, NEW o \in Object, FreeStorage(o)
    PROVE  Inv'
  BY DEF Inv, TypeOK, FreeStorage, ForgetObject,
         aerospike_object_free_storage, aerospike_close, aerospike_destroy,
         ListedStaysOpen, SessionReachesCluster, listvars, ObjectState,
         ClusterState

(* GSHUTDOWN destroys the listed handles, which nobody borrows any more. *)
LEMMA GShutdownInv ==
    ASSUME Inv, GShutdown
    PROVE  Inv'
  BY DEF Inv, TypeOK, GShutdown, ListedStaysOpen, SessionReachesCluster,
         objvars, Phase, ClusterState, ObjectState

(* Every step keeps the invariant. *)
LEMMA NextInv ==
    ASSUME Inv, [Next]_vars
    PROVE  Inv'
  <1>1. CASE UNCHANGED vars
    BY <1>1 DEF vars, objvars, listvars, Inv, TypeOK, ListedStaysOpen,
                SessionReachesCluster
  <1>2. CASE RequestStart \/ RequestEnd \/ RShutdown
    BY <1>2, GoToInv DEF RequestStart, RequestEnd, RShutdown, Phase
  <1>3. CASE RequestDone
    BY <1>3, GoToInv DEF RequestDone, Phase
  <1>4. CASE Next
    BY <1>1, <1>2, <1>3, <1>4, CreateObjectInv, ConstructRejectedInv,
       ConstructPrivateInv, ConstructPersistentInv, CloseInv, ReconnectInv,
       CallInv, ReleaseInv, DestructInv, FreeStorageInv, SessionOpenInv,
       SessionCloseInv, GShutdownInv
       DEF Next, Stopped
  <1> QED
    BY <1>1, <1>4

(* The state that relates objects, list, session and library holds for     *)
(* every number of clients and connections of a process.                   *)
THEOREM Invariance == Spec => []Inv
  <1>1. Inv /\ [Next]_vars => Inv'
    BY NextInv
  <1> QED
    BY <1>1, InitInv, PTL DEF Spec

(* No pointer the extension keeps ever outlives its handle. *)
THEOREM PointersAreValid == Spec => []NoDangling
  <1>1. Inv => NoDangling
    BY DEF Inv, TypeOK, NoDangling, ListedStaysOpen, Listed
  <1> QED
    BY <1>1, Invariance, PTL

(* A listed connection is open until the process ends. *)
THEOREM ListedConnections == Spec => []ListedStaysOpen
  <1>1. Inv => ListedStaysOpen
    BY DEF Inv
  <1> QED
    BY <1>1, Invariance, PTL

(* The check the data methods rely on is right for every live object. *)
THEOREM CheckIsSound == Spec => []LiveCheckedIsOpen
  <1>1. Inv => LiveCheckedIsOpen
    BY DEF Inv, LiveCheckedIsOpen, check_object_and_connection
  <1> QED
    BY <1>1, Invariance, PTL

(* Every call of the session handler, up to the write at request shutdown, *)
(* finds an open cluster.                                                  *)
THEOREM SessionCallsReach == Spec => []SessionReachesCluster
  <1>1. Inv => SessionReachesCluster
    BY DEF Inv
  <1> QED
    BY <1>1, Invariance, PTL

-----------------------------------------------------------------------------
(* Implementation of SharedPool.                                           *)

(* Initial states map to initial states of the pool. *)
LEMMA PoolInit == Init => Pool!Init
  BY DEF Init, Pool!Init, PoolLink, PoolUp

(* Calls and changes of phase are not seen in the pool. *)
LEMMA PoolSilent ==
    ASSUME Inv,
           \/ \E o \in Object : CreateObject(o) \/ CheckedCall(o) \/ GetCall(o)
           \/ SessionCall \/ SessionClose \/ RequestStart \/ RequestEnd
           \/ RShutdown \/ RequestDone \/ UNCHANGED vars
    PROVE  UNCHANGED Pool!vars
  <1> USE DEF vars, objvars, listvars, PoolLink, PoolUp, Pool!vars
  <1>1. ASSUME NEW o \in Object, CreateObject(o)
        PROVE  UNCHANGED Pool!vars
    BY <1>1 DEF CreateObject, Inv, TypeOK
  <1>2. ASSUME NEW o \in Object, CheckedCall(o) \/ GetCall(o)
        PROVE  UNCHANGED Pool!vars
    BY <1>2 DEF CheckedCall, GetCall
  <1>3. ASSUME SessionCall \/ SessionClose \/ RequestStart \/ RequestEnd
               \/ RShutdown \/ RequestDone \/ UNCHANGED vars
        PROVE  UNCHANGED Pool!vars
    BY <1>3 DEF SessionCall, SessionClose, RequestStart, RequestEnd,
                RShutdown, RequestDone, GoTo
  <1> QED
    BY <1>1, <1>2, <1>3

(* A client that stops talking may close a connection of its own. *)
LEMMA PoolLetsGo ==
    ASSUME Inv, NEW o \in Object, UNCHANGED persistent_list,
           PoolLink' = [PoolLink EXCEPT ![o] = Null],
           \/ UNCHANGED PoolUp
           \/ /\ as_client[o] # Null /\ ~is_persistent[o]
              /\ PoolUp' = PoolUp \ {as_client[o]}
    PROVE  Pool!Detach(o) \/ Pool!Background
  <1>1. PoolLink[o] = as_client[o] \/ PoolLink[o] = Null
    BY DEF PoolLink
  <1>2. CASE UNCHANGED PoolUp
    BY <1>2 DEF Pool!Detach
  <1>3. CASE /\ as_client[o] # Null /\ ~is_persistent[o]
             /\ PoolUp' = PoolUp \ {as_client[o]}
    <2>1. as_client[o] \notin Pool!Pooled
      BY <1>3 DEF Inv, Pool!Pooled
    <2>2. CASE PoolLink[o] = as_client[o]
      BY <1>3, <2>1, <2>2 DEF Pool!Detach
    <2>3. CASE PoolLink[o] = Null
      <3>1. PoolLink' = PoolLink
        BY <2>3 DEF PoolLink
      <3>2. as_client[o] \notin Pool!Linked
        BY <1>3, <2>1, <2>3 DEF Inv, Pool!Linked, Pool!Pooled, PoolLink
      <3>3. PoolUp' \in SUBSET Handle
        BY DEF PoolUp
      <3> QED
        BY <1>3, <2>1, <3>1, <3>2, <3>3 DEF Pool!Background
    <2> QED
      BY <1>1, <2>2, <2>3
  <1> QED
    BY <1>2, <1>3

(* The steps in which a client lets go of its connection. *)
LEMMA PoolDetach ==
    ASSUME Inv, NEW o \in Object,
           ConstructRejected(o) \/ Close(o) \/ Release(o) \/ Destruct(o)
             \/ FreeStorage(o)
    PROVE  Pool!Detach(o) \/ Pool!Background
  <1> USE DEF Inv, TypeOK, PoolLink, PoolUp, ConstructRejected, Close, Release,
          Destruct, FreeStorage, ForgetObject, listvars
  <1>1. UNCHANGED persistent_list
    OBVIOUS
  <1>2. PoolLink' = [PoolLink EXCEPT ![o] = Null]
    <2>1. ~(ostate'[o] = "live" /\ is_connected'[o])
      OBVIOUS
    <2>2. \A q \in Object : q # o =>
            /\ ostate'[q] = ostate[q]
            /\ is_connected'[q] = is_connected[q]
            /\ as_client'[q] = as_client[q]
      OBVIOUS
    <2> QED
      BY <2>1, <2>2
  <1>3. \/ UNCHANGED PoolUp
        \/ /\ as_client[o] # Null /\ ~is_persistent[o]
           /\ PoolUp' = PoolUp \ {as_client[o]}
    BY DEF aerospike_object_free_storage, aerospike_object_destructor,
           aerospike_close, aerospike_destroy
  <1> QED
    BY <1>1, <1>2, <1>3, PoolLetsGo

(* reconnect() attaches to a kept connection or opens an own one. *)
LEMMA PoolReconnect ==
    ASSUME Inv, NEW o \in Object, Reconnect(o)
    PROVE  \/ \E a \in Alias, h \in Handle : Pool!Attach(o, a, h)
           \/ \E h \in Handle : Pool!Own(o, h)
           \/ Pool!Background
  <1> DEFINE h == as_client[o]
  <1> USE DEF Reconnect, Inv, TypeOK, ListedStaysOpen, listvars
  <1>1. h \in Handle
    OBVIOUS
  <1>2. PoolUp' = PoolUp \cup {h} /\ PoolUp' \in SUBSET Handle
    BY <1>1 DEF PoolUp
  <1>3. CASE ostate[o] = "live"
    <2>1. PoolLink' = [PoolLink EXCEPT ![o] = h]
      BY <1>3 DEF PoolLink
    <2>2. ASSUME NEW a \in Alias, persistent_list[a] = h
          PROVE  Pool!Attach(o, a, h)
      <3>1. h \in PoolUp
        BY <1>1, <2>2 DEF PoolUp
      <3> QED
        BY <1>2, <2>1, <2>2, <3>1 DEF Pool!Attach
    <2>3. CASE \A a \in Alias : persistent_list[a] # h
      <3>1. h \notin Pool!Pooled
        BY <2>3 DEF Pool!Pooled
      <3>2. \A q \in Object \ {o} : PoolLink[q] # h
        BY <1>1, <2>3 DEF PoolLink
      <3> QED
        BY <1>2, <2>1, <3>1, <3>2 DEF Pool!Own
    <2> QED
      BY <1>1, <2>2, <2>3
  <1>4. CASE ostate[o] # "live"
    <2>1. PoolLink' = PoolLink
      BY <1>4 DEF PoolLink
    <2>2. h \in Pool!Pooled \cup Pool!Linked => h \in PoolUp
      BY <1>1 DEF Pool!Pooled, Pool!Linked, PoolLink, PoolUp
    <2> QED
      BY <1>2, <2>1, <2>2 DEF Pool!Background
  <1> QED
    BY <1>3, <1>4

(* A private constructor gets a connection of its own, or fails and lets go. *)
LEMMA PoolConstructPrivate ==
    ASSUME Inv, NEW o \in Object, ConstructPrivate(o)
    PROVE  (\E h \in Handle : Pool!Own(o, h)) \/ Pool!Detach(o)
  <1> USE DEF ConstructPrivate, Inv, TypeOK, ListedStaysOpen, listvars
  <1>1. PICK h \in Handle, ok \in BOOLEAN :
          /\ cluster[h] = "free"
          /\ cluster' = [cluster EXCEPT ![h] = IF ok THEN "open" ELSE "closed"]
          /\ as_client' = [as_client EXCEPT ![o] = h]
          /\ is_connected' = [is_connected EXCEPT ![o] = ok]
    OBVIOUS
  <1>2. CASE ok
    <2>1. PoolLink' = [PoolLink EXCEPT ![o] = h]
      BY <1>1, <1>2 DEF PoolLink
    <2>2. PoolUp' = PoolUp \cup {h}
      BY <1>1, <1>2 DEF PoolUp
    <2>3. h \notin Pool!Pooled /\ \A q \in Object : PoolLink[q] # h
      BY <1>1 DEF Pool!Pooled, PoolLink
    <2> QED
      BY <2>1, <2>2, <2>3 DEF Pool!Own
  <1>3. CASE ~ok
    <2>1. PoolLink' = [PoolLink EXCEPT ![o] = Null]
      BY <1>1, <1>3 DEF PoolLink
    <2>2. PoolUp' = PoolUp
      BY <1>1, <1>3 DEF PoolUp
    <2> QED
      BY <2>1, <2>2 DEF Pool!Detach
  <1> QED
    BY <1>2, <1>3

(* A fresh handle is neither kept nor talked through. *)
LEMMA FreshIsUnused ==
    ASSUME Inv, NEW h \in Handle, cluster[h] = "free"
    PROVE  h \notin Pool!Pooled \cup Pool!Linked
  BY DEF Inv, ListedStaysOpen, Pool!Pooled, Pool!Linked, PoolLink

(* A persistent constructor attaches, or fails and lets go. *)
LEMMA PoolConstructPersistent ==
    ASSUME Inv, NEW o \in Object, NEW a \in Alias,
           ConstructPersistent(o, a)
    PROVE  (\E h \in Handle : Pool!Attach(o, a, h)) \/ Pool!Detach(o)
  <1>1. PICK h \in Handle, as \in Handle, ok \in BOOLEAN :
          /\ cluster[h] = "free"
          /\ persistent_connect(h, a, as, ok, FALSE)
          /\ as_client' = [as_client EXCEPT ![o] = as]
          /\ is_connected' = [is_connected EXCEPT ![o] = ok]
    BY DEF ConstructPersistent
  <1>2. PoolLink' = [PoolLink EXCEPT ![o] = IF ok THEN as ELSE Null]
    BY <1>1 DEF PoolLink, ConstructPersistent, Inv, TypeOK
  <1>3. CASE Found(a, as, ok)
    BY <1>2, <1>3 DEF Found, Pool!Attach, PoolUp
  <1>4. CASE Added(h, a, as, ok)
    <2>1. PoolUp' = PoolUp \cup {as}
      BY <1>4 DEF Added, PoolUp, Inv, TypeOK
    <2>2. Pool!Stock(a, as)
      BY <1>1, <1>4, <2>1, FreshIsUnused
         DEF Added, Pool!Stock, add_persistent_host
    <2> QED
      BY <1>2, <1>4, <2>2 DEF Added, Pool!Attach
  <1>5. CASE Failed(h, as, ok, "closed")
    <2>1. PoolUp' = PoolUp
      BY <1>1, <1>5 DEF Failed, PoolUp, Inv, TypeOK
    <2> QED
      BY <1>2, <1>5, <2>1 DEF Failed, Pool!Detach, listvars
  <1> QED
    BY <1>1, <1>3, <1>4, <1>5, PersistentConnectCases

(* PS_OPEN stocks the pool, or is not seen in it. *)
LEMMA PoolSessionOpen ==
    ASSUME Inv, NEW a \in Alias, SessionOpen(a)
    PROVE  (\E h \in Handle : Pool!Keep(a, h)) \/ UNCHANGED Pool!vars
  <1>1. PICK h \in Handle, as \in Handle, ok \in BOOLEAN :
          /\ cluster[h] = "free"
          /\ persistent_connect(h, a, as, ok, TRUE)
    BY DEF SessionOpen
  <1>2. PoolLink' = PoolLink
    BY DEF PoolLink, SessionOpen, objvars
  <1>3. CASE Found(a, as, ok)
    BY <1>2, <1>3 DEF Found, Pool!vars, PoolUp
  <1>4. CASE Added(h, a, as, ok)
    <2>1. PoolUp' = PoolUp \cup {as}
      BY <1>4 DEF Added, PoolUp, Inv, TypeOK
    <2>2. Pool!Stock(a, as)
      BY <1>1, <1>4, <2>1, FreshIsUnused
         DEF Added, Pool!Stock, add_persistent_host
    <2> QED
      BY <1>2, <2>2 DEF Pool!Keep
  <1>5. CASE Failed(h, as, ok, "free")
    <2>1. PoolUp' = PoolUp
      BY <1>1, <1>5 DEF Failed, PoolUp, Inv, TypeOK
    <2> QED
      BY <1>2, <1>5, <2>1 DEF Failed, Pool!vars, listvars
  <1> QED
    BY <1>1, <1>3, <1>4, <1>5, PersistentConnectCases

(* GSHUTDOWN is the shutdown of the pool. *)
LEMMA PoolShutdown ==
    ASSUME Inv, GShutdown
    PROVE  Pool!Shutdown
  <1> USE DEF GShutdown, Inv, TypeOK, objvars
  <1>1. PoolLink' = PoolLink
    BY DEF PoolLink
  <1>2. Pool!Linked = {}
    BY DEF Pool!Linked, PoolLink
  <1>3. PoolUp' = PoolUp \ Pool!Pooled
    BY DEF PoolUp, Pool!Pooled, Listed
  <1> QED
    BY <1>1, <1>2, <1>3 DEF Pool!Shutdown

(* Every step maps to a step of the pool or to a stutter. *)
LEMMA PoolNext ==
    ASSUME Inv, [Next]_vars
    PROVE  [Pool!Next]_(Pool!vars)
  BY PoolSilent, PoolDetach, PoolReconnect, PoolConstructPrivate,
     PoolConstructPersistent, PoolSessionOpen, PoolShutdown
     DEF Next, Stopped, Pool!Next

(* The extension implements the shared pool: every step is one of the      *)
(* pool's or leaves the pool, the links and the open connections alone.    *)
THEOREM Implementation == Spec => ImplementsPool
  <1>1. Inv /\ [Next]_vars => [Pool!Next]_(Pool!vars)
    BY PoolNext
  <1> QED
    BY <1>1, PoolInit, Invariance, PTL DEF Spec, ImplementsPool, Pool!Spec

=============================================================================
