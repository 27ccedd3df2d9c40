# A TLA+ model of the Aerospike PHP client

The repository is a PHP extension in C on top of the Aerospike C client. This
directory holds TLA+ modules that model its core, the TLC configurations that
check them on small instances, and proofs that TLAPS checks. Paths below are
relative to the repository's `src/` directory unless they start with `doc/`.

## 1. The system

| Part | State it keeps | Operations | Hard because |
| --- | --- | --- | --- |
| Connection life cycle (`client/aerospike_class.c`, `persistent_list.c`) | object: `as_client`, `is_connected`, `is_valid`, `is_persistent`; library handle; the persistent list, one per process (per thread under ZTS) | constructor, `close`, `reconnect`, object destructor and storage, `persistent_connect`, GSHUTDOWN | shared handles have no counted owner; two borrowers act on one handle; destructors run in any order |
| Session handler (`client/aerospike_session.c`) | module data with a borrowed handle; session records | open, read, write, destroy, create and validate an id, touch, close | runs after the destructors at request shutdown; never asks `is_connected` |
| Record streams (`user_callbacks.c`, `client/scan.c`, `client/query.c`) | one `as_error` per stream, one mutex for all | the wrapper called by the library for each record | one thread per node; script code inside a lock; the error is shared |
| Methods (`client/*.c`) | the error in the object (`errorno()`, `error()`) | 60 methods | each keeps the error and clean-up protocol by hand, over many ways out |
| Policies (`policy_conversions.c`, `client/aerospike_class.c`, `client/php_client_utils.c`) | default policies in the handle's config | constructor layers, overlay of a call's array | six layers, several options for one field, defaults shared between objects |
| Module globals (`aerospike.c`, `client/user_serializers.c`, `client/log_handlers.c`) | list, mutex; serializer, deserializer and log handler, each with a flag and a cache | GINIT, MINIT, RINIT, RSHUTDOWN, GSHUTDOWN, the three set methods | request state in process globals, the log callback runs in library threads |
| Value conversion (`conversions.c`, `serializers.c`) | none | PHP values to and from library values, at any depth | failures are told in three ways: return code, `err`, NULL |
| Operations (`client/operate.c`) | one `as_error` for all operations of a call | validation and conversion of operation arrays | what each operation requires stands apart from what uses it; values change owners |
| Predicates (`client/predicate.c`, `client/query.c`) | none | arrays built in one file and read in another | the array is untyped |
| Configuration, TLS, constants, PHP wrappers | none | copy values | nothing: no state |

How they interact. A method gets the object's handle from the life cycle,
converts its arguments (conversion, policies) and calls the library. The
policies' defaults live in the handle, so objects that share a handle share
them. `scan` and `query` pass the wrapper and their own `as_error` to the
library, whose threads call back into PHP under the mutex of the module globals.
The session handler takes its handle from the same list as the objects. A value
that has no counterpart in the library goes through the serializer in the globals.

What makes each part correct:

- life cycle: no pointer to a destroyed handle; nobody's step closes another
  one's connection; the flag a method tests agrees with the handle;
- session: every call finds an open connection, up to the last write; what was
  acknowledged stays until it is destroyed or expires; a destroyed session stays
  destroyed; an id a client invented is not adopted;
- streams: one thread in PHP; no failure lost; OK means that the callback had
  every record; the method returns; `false` halts;
- methods: `errorno()` is what was returned; OK means that nothing failed; no
  request with arguments that were refused; nothing stays allocated but what is known to;
- policies: the most specific layer wins; no call changes shared defaults;
- operations and predicates: what is sent is what was asked; a refusal has a cause;
  a converted value has one owner;
- conversion: stored whole or refused, returned whole (nils apart) or not at all, and under a
  key that names the same record;
- globals: a registered function is alive when it is called, and released once.

PROJECT.json lists the hazards behind these properties line by line.

## 2. Modules

A definition `Mut_<fault>_<name>` is `<name>` with a plausible fault in it. No
specification uses it: it is substituted for `<name>` to see that a property
notices.

### ClientLifecycle, SharedPool

One process, any number of requests. `CreateObject` is `create_object`, which
leaves the zeroes of `ecalloc`. The constructor is three actions, which can be
taken again on the same object (`__construct` is a public method):
`ConstructRejected` (arguments, hosts, config or policies refused, or
`aerospike_new` failed), `ConstructPersistent` and `ConstructPrivate`.
`persistent_connect` is one operator used by the constructor and by the session
handler, which differ in what they do with the pointer on failure
(`destroy_on_failure`). `Close`, `Reconnect`, `CheckedCall` (a method that stops
at a failed `check_object_and_connection`), `GetCall` (`get`, which does not stop),
`SessionOpen`, `SessionCall` and `SessionClose` are the operations of a request.
`Release` is the last reference going away; `Destruct`, `RShutdown`, `FreeStorage`
and `RequestDone` are the request's end, in the order of the engine (destructors,
RSHUTDOWN and the last session write, object store), including the fatal error
that skips the destructors. `GShutdown` runs `persistent_host_dtor`.

A handle is `free`, `closed` (allocated, no cluster) or `open`. `ref_cnt` and
`conn_cnt` of a list entry are never read and left out. `lastcall` is history:
what the last data call found. About the library the model assumes what the code
relies on: `aerospike_connect` returns OK on an open handle and leaves the cluster
NULL when it fails; `aerospike_close` may be repeated.

`SharedPool` is what the life cycle promises, without objects' flags, handles'
allocation or requests: a pool of connections that, once stocked, stay up until
shutdown; clients link to a pooled connection or own one; a step of one client
takes down no connection that another uses. `ImplementsPool` maps `pool` to the list, `link` to the pointer of a
live connected object, and `up` to the open handles.

### StreamCallbacks

Stream 1 is started by the script, stream 2 by a callback of stream 1. A thread per
node receives records (external), and each goes through the wrapper: `Lock`,
`Convert` (`as_record_to_zval`, which returns the code of the shared error and
therefore also fails on somebody else's), then one of `CallbackReturns`,
`CallbackThrows`, `CallbackReturnsFalse`, `CallbackFails`, and `Raise` for
`"Callback raised an error"`. The actions are cut where another thread can see a
difference: at the mutex, and around the writes to the shared error, which the
library makes without it (`NodeFails`). `latch` is the library's own record that a
node failed or was aborted. The engine's versions differ in what
`zend_call_function` does while an exception is pending: older ones fail
(`CallbackFails`), newer ones report SUCCESS without calling anything (`CallbackSkipped`; `skipped` is
the history of the records this happens to). An exception may be pending from another thread's
callback or from a deserializer that threw in `Convert`. A deserializer that starts a stream of its own
is left out.

### ApiCalls, ApiMethods, ApiDiscipline

`ApiMethods` translates each of the 60 methods that do work into a sequence of steps. A step is a check, a
conversion or a request, with what its failure leaves in `err`, what it passes to
`update_client_error`, whether the method then goes on, goes to CLEANUP or returns
at once, and what it has allocated when it succeeds. Consecutive tests that fail in
the same way are one step; optional steps may simply succeed. `ApiCalls` runs the table: any method after any
other, along every way out, on an object that is invalid, closed or open. `loses` names what a step
that fails has allocated and dropped: the copy of a string key that is refused (`KeyText`), a map with
an item that cannot be converted (`PartOfMap`), a value of an operation that the library does not
take. What counts is memory of the library and of `malloc`; PHP's values are the engine's. Where the code
does not look at the answer of the library when it adds an operation (`append`, `prepend`,
`increment`, `touch`, `listSize`, `listAppend`) the library has room for the one operation. `Close` and
`Reconnect` change the object; the accessors call nothing. A request resets `err`
before it does anything else (external): `append` and `increment` depend on it, as
their `as_error` is not initialised (`unset`).

`ApiDiscipline` states rules on the table that can be seen without running it, one
group for each property: `Tidy` (what a way out of the method leaves behind is listed for it in `Leaks`:
what CLEANUP does not free, what was made before a return that passes it by, and what a failing step
loses), `StopsBeforeCall` (a failure that does not
stop the method sets `err`, which is tested before the next request), `TellsFailure`
(no failure is answered as a success), `RecordsFailure` and `AnswersAsRecorded` (what is
returned is what was recorded). TLC evaluates them of the real table as assumptions, outside
the sets named in the cfg; a method that is added and breaks one fails there.

The methods that break a property are named in the cfg, one set for each property,
and are the observations of section 4; a method not in the set must keep it. `Leaks` is finer: pairs of a
method and the thing it leaves, and TLC also evaluates that none is listed without a way out that leaves
it (`LeaksAreReal`).

### Policies

A field of a policy is abstracted to its provenance: which layer wrote it, under
which option. `DefaultsFor` is the constructor: built-in values, php.ini
(`set_policy_defaults_from_ini`), the one field that the configuration array sets
(`set_as_config`: `compression_threshold`), options in the order they are looked up
(`OptionOrder`: of those that write a field, `Writers`, the last one counts), and the `OPT_*_DEFAULT_POL`
arrays (`set_subpolicies_from_hash`): five layers, and the call is the sixth.
`zval_to_as_policy` stands for the ten functions of that name: copy of the default,
timeout, generation, overlay. A value is of the right type or the wrong one; that of `OPT_POLICY_GEN`,
documented as two integers, may also be an array of one, or have a second or a first element of another type
(`GenTypes`; which of them each kind takes is `TakesGen`). An array under
string keys, whose element 0 is then NULL and dereferenced, is left out. The reference is an order of layers and names
(`Stronger`), and what each layer sets (`Sets`). `Together` says which sets of
options an array may hold. A call without a policy makes the library use
the handle's default, which is the same as a copy of it; operateOrdered, where
it is not, has its own action. The session handler's own handle has the ini layer alone. Serializer, ttl, map policy and scan and query
options are left out.

### SessionStore

One record per session id, on a server that all web servers share. A request opens
a session (`Start`), has the id of its cookie validated (`Validate`, in strict mode) or
gets one (`CreateSid`, one attempt of the loop in `PS_CREATE_SID`, and `CreateSidFailed`),
reads the record (`Read`), and ends with `Write`, `UpdateTimestamp` or `Destroy`. Each
of these is one call to the server. It is answered, or lost (`answered` is FALSE, `Gone`), or
given up by the client and executed later (`CloseUnanswered`, `DestroyUnanswered`, then
`Delivered`). Nothing in the handler locks a record between read and write, so requests on
one id interleave freely. `Tick` is the passing of time, with the expiry the
ttl gives; the ttl is kept modulo `TtlSize` and has the server's special values. Which
handler PHP calls when, and what it does with a refused id, is external.

What the record holds is the set of requests whose changes are in it. The history
variables say what the properties are about: the ids the servers made, the destroys that were
reported done, the changes acknowledged while no other request had the session open,
and the time since a close that reported success. Which connection the handler uses
is the matter of ClientLifecycle.

### Operations, Predicates

`Operations` is the loop of `operate` and `operateOrdered`. A script's array is an
operation with a kind of value for each entry (right, wrong, absent, not
convertible). `Inputs` is the set of arrays scripts give: any set, in the proofs; in the run, for each
operation, the array that is right in every entry and those wrong in one. The tables of `operate.c` (which operation needs a bin, a value, an
index, a key, a return type, ...) are sets with the names they have there;
`add_op_to_operations` and `add_map_op_to_operations` are `AddPlain`, `AddTouch` and `AddMap`, which look
at the entries in the order of the code, convert, and hand the values to the
library. `err` is the one `as_error` of the loop, with what an earlier array has left
in it. An argument that the code would pass without having set it appears in `ops` as `"unset"`.
`ttl` is the field of the request, which the option sets first (`option`) and each touch then overwrites;
the library's answer to a touch is not looked at, and it is taken to have room.
A value that cannot be converted may leave a part of it allocated (`LeavesPart`). Who owns a converted
value is kept in `leaked` and `twice`. The reference is `WellFormed`,
written from what an operation is for and not from the tables.

In `Predicates` a script gets an array from one of the `predicate*` helpers (`Ask`,
over everything a helper may be asked, with what it means) or writes one by hand (`WriteByHand`), and
makes a query with it (`Query`, whose answer is `Outcome`), which has `add_predicate_to_query` and the functions
it calls, under their names. MCOperations runs either of the two modules.

### Conversions

`Put` converts a record of bins with the writer's serializer, at any depth, `ForeignPut`
is a client in another language, `Get` converts back with the reader's deserializer or
without one. A value is a pair of its type and content; the conversion functions
keep their names. A text with a NUL byte, an integer key, a reference, a class whose name
is a prefix of `Aerospike\Bytes`, and an object without its text are values of their
own, because the code treats them differently. `initKey`, `z_hashtable_to_as_key`
and the key in the array that `get` returns close the circle: `Digest` is the record a key names.
`convert_zval` and `convert_as_val` convert one value, given what has become of its
parts; the recursion is a function over `Zvals` (`AsVals`), sets of values that
have all their parts in them and, for each, a `Depth`. A script's deserializer throws at a blob that no
serializer wrote. PHP 7 then refuses to call it for the next blob of the record, which fails it, and
PHP 8 answers SUCCESS and leaves the value undefined. The script gets the exception in each case, so what is
in the by-reference array by then is not modelled (`got` is empty), but the key may have been replaced.
The reference says of a PHP value whether it can be stored and what a script then sees (`Storable`, `Seen`),
and of a value of the library whether `get` must refuse it (`Unreadable`) and what a script sees of it
(`SeenWhole`).

### ModuleGlobals

The serializer, the deserializer and the log handler: for each a flag, a call info and a
cached function. `setSerializer`, `setDeserializer` and `setLogHandler` are cut into
their statements, in the order each of the three has (`Follows`), since the library's
threads read the log slot without a lock (`LogCheck` to `LogCall`). `RInit`,
`RShutdown` and `SymbolsGone` are the request; `script` and `refs` are who keeps a function
alive. A second set method does not run inside the first (section 6).

## 3. Runs

| Run | Instance | Shows |
| --- | --- | --- |
| `lifecycle` | 2 objects, 3 handles, 2 aliases, symmetric in all three | `Inv`, `NoDangling`, `ListedStaysOpen`, `LiveCheckedIsOpen`, `SessionReachesCluster`, and that the code implements `SharedPool` |
| `streams_concurrent` | 3 nodes at once, up to 2 records each, no nesting, with fairness | `Inv`, `OneThreadInPhp`, `ErrorsAreReported`, `OkIsComplete`, `StreamReturns` |
| `streams_in_turn` | 3 nodes in turn, up to 2 records, nested streams | `Inv`, `OneThreadInPhp`, `HaltInv`, `FalseHaltsStream` |
| `api_calls` | all 60 methods | `ErrornoIsStatus`, `OkIsDone`, `RefusedIsUnsent`, `ReleaseInv`, `ReportInv`, `AllReleased` |
| `policies` | 2 objects that share a handle; every option alone, the 3 options for `total_timeout` in pairs | `MostSpecificWins`, `DefaultsStand` |
| `session_store` | 3 requests, 2 ids, lifetime of 2 ticks, 2 destroys of an id | `AcknowledgedIsKept`, `OnlyIssuedIds`, `DestroyIsFinal`, `NewSessionIsEmpty`, `RenewedOnClose` |
| `operations` | all operations, each array right or wrong in one entry, 2 arrays a call; all predicates | `OperateInv`, `SentAsAsked`, `RefusedForCause`, `ValuesHaveOneOwner`, `PredicatesAsAsked`, `PredicateNotDropped` |
| `conversions` | every kind of value alone and in arrays of one; arrays of up to two items, each of them a value or an array of one; 3 serializers; values of other clients, and a deserializer that throws at them | `PutIsWhole`, `RoundTrip`, `GetIsWhole`, `KeyNamesRecord` |
| `globals` | 2 functions, 3 slots, 1 library thread, any number of requests | `CalledIsAlive`, `RefsBalanced` |
| `streams_nested`, `policies_operate`, `globals_log_handler` | the smallest instance that shows it | a property that the code does not have, see section 4 |

The bounds. Two objects, the session handler and the list are four holders of
handles; three handles allow a private one, a listed one and a fresh one at the same
time, two aliases a list with a second entry. With three nodes one thread can fail,
one wait for the mutex and one be in PHP; the second record makes a thread come back
after a callback. The methods' run is finite without a bound. A field takes its
value from one option, so options given alone reach every rule that is about a
single option; the only options that compete are the three for `total_timeout`, and
`compression_threshold` is also given in the configuration. Three requests on a
session are one that destroys it, one it overtakes and one that comes later; a lifetime of two ticks
lets a renewal fall before, at and after half of it, and `DefaultTtl` is less than it so
that a ttl of 0 is noticed. Two arrays are what it takes for one to leave an error to the
next (`MaxOps`). The conversion functions recurse alike at every depth,
so two levels (`MaxDepth`) show what a failure below the top does, and two items what it does
to its neighbour; `AsVals` has what the conversions make of the values, which TLC verifies (`AsValAssumption`). A library thread only reads, so
one shows what it may find. `MaxRecords`, `MaxOps`, `MaxDestroys` and `max_attempts` (which
is the code's) name the bounds. Deadlock is checked except where
nested streams really do deadlock. A process that has stopped, a stream that
has returned and requests that are all done stutter explicitly.

Fairness. Only `FairSpec` of StreamCallbacks has any: weak fairness of each
delivering thread and of the return. The operating system schedules the threads;
the library gives up on a silent node (a timeout is `NodeFails`); a callback is
taken to return. A thread waiting for the mutex is served in the end because in these
instances the others run out of records: no strong fairness is assumed.

## 4. Where the code and its documentation differ

Each of these has a run that TLC refutes:

- `streams_nested`: a callback that calls `scan` or `query` waits for the mutex its
  own thread holds.
- `policies_operate`: `as_policy_operate_copy` is called with its arguments
  exchanged, so each operate call resets the shared default.
- `globals_log_handler`: RSHUTDOWN releases the log handler and leaves its flag and
  the library's callback in place; a line logged before the next RINIT calls a released function.

Seen while modelling. The model has them, and the property that they would
break excludes them by name:

- Life cycle. A persistent constructor that cannot connect leaves a handle that no
  destructor frees (`client/aerospike_class.c:326`), and so does a second
  `__construct` on an object. A second constructor for a listed
  alias discards its own options (`ConstructShared`).
- Streams. With the nodes asked at once (the default of `query`), a callback runs
  after another returned `false`, so `FalseHaltsStream` is checked in turn
  only; a node's failure is reported as "Callback raised an error" when another
  record is converted after it. While an exception is pending a newer engine reports that a callback
  ran which it did not call: `scan` and `query` then return OK, with the exception (`OkIsComplete`).
- Methods. `get` notes a failed connection check and goes on (`client/get.c:50`). A key of
  the wrong type makes `getMany` and `existsMany` return OK and do nothing
  (`conversions.c:862`). A predicate of the wrong type is dropped and the query sent
  without it (`client/query.c:537`); `queryApply` then runs the function on every record. `z_hashtable_to_as_list` reports OK after a failure
  (`scanApply`, `apply`, `operate`, `listMerge`, `listInsertItems`). These are the sets in `api_calls.cfg`.
- Memory (`KnownLeaks`). `z_hashtable_to_as_map` returns past its CLEANUP when an item cannot be converted
  (`conversions.c:487`), so the map and the item's key stay allocated, at any depth of a value, in every method
  that converts one. The copy of a string key is not freed when `as_key_init` refuses it (`conversions.c:848`).
  `operate` does not free the value of a list operation that the library refuses
  (`client/operate.c:516`, 535, 559, 603). A list that is converted with an error in `err` from before loses its
  first item (`queryApply`, `aggregate`). `put`, `get`, `exists`, `prepend`, `increment`, `removeBin` and
  `query` return past CLEANUP after the key, record or query was made. `createUser` never frees its array of roles.
- Policies. The constructor never looks for `OPT_POLICY_READ_MODE_SC`. `remove` ignores an
  `OPT_POLICY_GEN` array that does not have two elements (`policy_conversions.c:106`), where `write` and `operate`
  take one, and with `operate` reads the first element unchecked (`OddGeneration`).
- Operations. A list of `OP_LIST_MERGE` or `OP_LIST_INSERT_ITEMS` with an item that cannot be converted is
  sent without the list (`Listless`), and leaves its error in `err`. That error refuses a later value or map operation
  though it is right (`StoppedByOldError`); a later list of these two is sent without its items; and the cleanup of a
  later map operation frees a value that the request owns (`twice` in `ValuesHaveOneOwner`).
  Of two touches the last ttl counts, for the whole request and in place of the ttl option
  (`client/operate.c:361`, `TtlIsLast`). What stays allocated is the list above: a map that cannot be
  converted, a value of a list operation that the library refuses, a value made after an old error (`leaked`).
- Predicates. `predicateGeoWithinRadius` makes a GEOCONTAINS predicate
  (`client/predicate.c:318`), where `doc/phpdoc/aerospike.php:2895` says
  "GEOWITHIN"; it is left out of `Asked`. Coordinates that are not finite
  make `json_encode` answer false, whose text is read all the same; the model has
  finite ones.
- Conversions (`Seen`, `Plain`, `SeenWholeOne`). A nil that another client stored, and a value of a type the
  wrapper does not know, becomes IS_UNDEF with AEROSPIKE_OK (`conversions.c:616`): the script sees no such item, or no
  such bin. Texts and keys are cut at a NUL byte, and two keys that are then
  the same become one; if one of them is an integer and the other a text cut to its digits, which of
  the two values is kept depends on the library's order. An object whose class name is a prefix of
  `Aerospike\Bytes` is stored as bytes, and of `Aerospike\GeoJSON` as a GeoJSON. The key in the array that `get` returns has a NULL primary key unless the
  policy sends keys, and is then no key for a next call.
- Log handler. The arguments are level, function, file, line; `doc/phpdoc/aerospike.php:3613` says
  level, file, function, line.
- Documentation of `operate`. `OP_MAP_GET_BY_VALUE` is documented with the entry `value`, where
  the code reads `val`.

## 5. Proofs

| Module | Theorems |
| --- | --- |
| ClientLifecycleProofs | `Invariance`, `PointersAreValid`, `ListedConnections`, `CheckIsSound`, `SessionCallsReach`, `Implementation` |
| StreamCallbacksProofs | `StreamInvariance`, `MutualExclusion`, `FailuresAreReported`, `SuccessIsComplete`, `HaltInvariance`, `FalseIsFinal` |
| ApiCallsProofs | `HeldIsKnown`, `NothingLeaks`, `CallsReport`, `NothingSentAfterFailure`, `SuccessIsDone`, `ErrornoAgrees` |
| PoliciesProofs | `HandleInvariance`, `DefaultsAreFixed`, `RequestInvariance`, `StrongestLayerWins` |
| SessionStoreProofs | `StoreInvariance`, `NothingAcknowledgedIsLost`, `NoInventedIds`, `DestroyHolds`, `NewSessionsAreEmpty`, `SessionsLive` |
| ModuleGlobalsProofs | `GlobalsInvariance`, `RegisteredIsAlive`, `ReferencesBalance` |
| RequestProofs | `OperateInvariance`, `RequestIsAsAsked`, `RefusalsHaveACause`, `OneOwner` (Operations), `HelpersAreHonoured`, `ClausesAreKept` (Predicates) |
| ConversionsProofs | `ConversionInvariant`, `PutIsWholeHolds`, `RoundTripHolds`, `GetIsWholeHolds`, `KeyNamesRecordHolds` |

They hold for every number of objects, handles, aliases, nodes and records, every
table of methods, all option names and array sizes, requests, session ids, lifetimes,
functions and library threads, every set of arrays given to `operate`, in calls of any
length, all bins, values, ranges, texts and arrays of predicates, and records of values nested to any
depth. The assumptions are named in the
modules: NULL is not a handle (`NullAssumption`, `NoneAssumption`), the bounds are
naturals and the flags Booleans (`RecordsAssumption` of StreamCallbacks, `FlagsAssumption`,
`BoundAssumption`), the table is well formed (`TableAssumption`) and
follows the rules outside the sets of exceptions (`TidyAssumption`, `StopsAssumption`,
`TellsAssumption`, `RecordsAssumption` of ApiDiscipline), a record is not
NULL (`SidAssumption`, `ForeignAssumption`, `FunAssumption`), the session's lifetime is less than
the two special ttls of 32 bits (`LifetimeAssumption`), an array of `operate` has an operation and a kind of
value for each entry (`InputsAssumption`), and one of a predicate has the keys that the code may look for, or
others that it ignores (`WrittenAssumption`). `HaltInvariance` and `FalseIsFinal` assume that the nodes are asked in
turn. About values: they are trees of bounded depth (`TreeAssumption`; any natural number bounds it, and a
reference is not entered, so a PHP array that contains itself is no exception), a PHP value has one of PHP's
types and an array keys that are integers or texts (`ZvalAssumption`), the library's values include whatever the
conversions make (`AsValAssumption`), and records and the values of other clients are made of
these (`InputAssumption`). TLC evaluates each of them.

*Life cycle.* `NoDangling` alone is not inductive: it does not say that nobody else
holds what a private object destroys. `Inv` adds ownership: a private pointer is on
no list entry, two objects that hold one handle hold a listed one, two aliases list
different handles, and the session's handle is listed. It also says that listed handles are open, which is
why the branch of `persistent_connect` for an unconnected entry, and with it the
session handler's destruction of a shared handle, is never taken. There is one
lemma per action; `PersistentConnectCases` reduces `persistent_connect` to three
cases under `Inv`. `Implementation` maps each action to a step of `SharedPool` or
a stutter (`PoolSilent`, `PoolDetach`, ...), using `Inv` for the steps that close a
handle.

*Streams.* `Inv` adds who holds the mutex (`LockHeldInside`) and that an error, once
set, stays set: a thread in `raise` or `abort` and a latched stream have an error or
were halted; and that a record is only skipped while an exception is pending. From it a stream that ends
with OK lost nothing but such records. `FalseIsFinal` follows from `HaltInvariance`:
with the nodes in turn a stream has one active thread at most, a halted stream has none
but the one that aborts, and then the latch starts no further node (`HaltInv`). With the nodes at once it is
false (section 4).

*Methods.* `ReleaseInv` says that what a running method holds was made by a step it
has passed. What is left when it returns then is what a way out leaves behind (`LeavesBehind`), and
`Tidy` lists each such thing (`LeftIsKnown`). `ReportInv` is about failures: while a method goes on after
one, it is in `err` with no test of `err` in between (`StopInv`, so that no request can follow); where the rules
demand it a failure stays in `err` until CLEANUP (`KeepInv`); and the object's last error is forgotten
until a step leaves, and is then the code or about to be recorded (`ErrornoInv`). Each
part is inductive only for the methods that follow its rule. Under that invariant no property
of the 60 methods is left to running them: TLC only evaluates the rules.

*Policies.* `HandleInv` says that an object's handle was created and has a policy of
each kind; then a call rewrites only the default of its own kind, with itself,
unless the kind is operate. `RequestInv` says that a handle's defaults are still what
its creator's options made, and that the last request was made from them.
`MostSpecificWins` is then a statement about two pure definitions, the layers as the code applies them
and the order of the reference, proved for each way a field gets its value: the fields of a policy are
independent, and only `total_timeout` has more than one name. It excepts operate and the odd generations of
remove by name.

*Sessions.* The properties speak of records; what a request that has read one may still
write has to be known too. `StoreInv` adds that a request holding a session has all
acknowledged changes in its copy, and is of the session's epoch or marked as
overtaken; and that an id given out as unused has no record, and nobody to write one, until its owner
has read it. `QuietStep` covers the steps that only the request sees, `EndStep`
those that end it with a change to its record; `GiveStep`, `DestroyStep` and `TickStep` are the
others.

*Globals.* `RefsBalanced` speaks of the moments between two set methods. `GlobalsInv` says
what holds at each statement of one, in its own order: the references are those of the
statements behind it (`Underway`), and all other slots are `Settled`.

*Operations.* Each array should be judged alone, though one `as_error` goes through the loop: `OperateInv` says
that it is clear exactly as long as no list of unconvertible items went by, since the loop ends
at any other failure, and that what was added is what was asked, also past such a list. The two exceptions of
`ValuesHaveOneOwner` and the one of `RefusedForCause` are about what meets that error. With a clear error the tables, checks and conversions of the code accept exactly the
well-formed arrays (`PlainRight`, `MapRight`), because the tables and the switch agree
for all 46 operations (`PlainTables`, `MapTables`: what is looked up is what is used). `Place` counts the
arrays that ask for something; one more array moves no other (`PlaceAppend`).
`GoesOn` and `Stops` say what the three handlers have in common, and `Adds` is proved from them once.

*Predicates.* The invariant only says with which array the query was made. The work is in the
pure definitions: each helper's array, read back key by key, reaches the reader of its operator
(`Dispatch`) and comes out as the clause it was asked for; and each reader,
given any value at all, adds a whole clause or fails (`ReadersKeep`).

*Conversions.* The invariant (`ConversionInv`) is short: which conversion made the record, the key it is under
and what the reader got. `PutIsWhole`, `RoundTrip` and `GetIsWhole` are then statements about the pure
conversions. The provers cannot use induction theorems that take a predicate, so both things recursion calls
for are proved with sets, from the well-foundedness of the natural numbers. That a recursive function satisfies its equation (`ConvertEquation`,
`ReadEquation`, `WithinEquation`, `SeenEquation`): by approximations, functions that satisfy it down to a depth, one for each
natural number up to `MaxDepth` (`SetInduction`). That a fact holds for every value: by `Shallowest`, as a value of least depth for which it
fails would have only parts for which it holds. So `ConvertsStorable` (a value converts exactly if it is storable),
`FailsUnreadable` (and is read exactly if it is readable), `ReadsWhole` (and then with all that is in it, but for the
nils), `OwnReadable` (what was made here can be read), and
`ComesBack`, for which the keys matter most: two keys of an array that the library takes for one are
one to the script, and except for `Plain` the reverse (`SeenKeyRead`, `KeptFacts`, `ReadMap`).
`KeyNamesRecord` needs no recursion, but is inductive (`KeyAgain`).

Only model-checked: `StreamReturns` (liveness under fairness is out of the prover's
reach), and the properties that the code does not have (section 4), which TLC refutes. Every
invariant that a run checks is stated by a theorem.

## 6. Not modelled

- Connection configuration and TLS (`set_as_config` but for its one policy field, `add_hosts_from_zhash`): values
  are copied into the library's config without state; a refusal is `ConstructRejected`.
- The constants and the PHP classes `Bytes` and `GeoJSON`: no behaviour. Examples and tests.
- The arrays of roles and privileges, and the result pairs of `operateOrdered`: the same
  conversions again in another layout, without nesting.
- The options of `scan`, `query` and `scanApply` (which are written before `as_scan_init`
  and lost, `client/scan_apply.c:91`), the ttl of `put` and the reading of a
  Boolean option with `Z_LVAL` (`policy_conversions.c:420`).
- The local copy of a UDF file in `register` (`client/udf.c:255`).
- A thread-safe (ZTS) build, where each thread has globals of its own and log handlers are
  refused; and a `__destruct` that calls a set method while the same set method releases the object.

## 7. Plan

Done: the core (ClientLifecycle with SharedPool, StreamCallbacks, ApiCalls with the table of
methods, Policies), then SessionStore, Operations with Predicates, Conversions and
ModuleGlobals, with the theorems of section 5. Next:

1. The rest of Policies: serializer, ttl and generation, scan and query options.
2. The other layouts of the conversions: roles and privileges, and the results of `operateOrdered`.
