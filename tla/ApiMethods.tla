----------------------------- MODULE ApiMethods -----------------------------
(***************************************************************************)
(* The methods of the Aerospike class as sequences of steps for ApiCalls,  *)
(* one definition per PHP_METHOD of client/*.c.                            *)
(*                                                                         *)
(* Consecutive tests that fail in the same way are one step.  A step is    *)
(*   kind   reset, check, own_check, test, err_test or call                *)
(*   errs   what its failure leaves in err (kept: what was there)          *)
(*   says   what it passes to update_client_error: nothing, err, a code    *)
(*   to     go_on, cleanup, or the value it returns at once (err: err.code)*)
(*   gives  what it has allocated when it succeeds                         *)
(*   loses  what its failure may leave allocated, with nobody to free it    *)
(* What is allocated is memory of the C client and of malloc: the values   *)
(* of PHP are the engine's to free.                                        *)
(***************************************************************************)
EXTENDS Sequences

Step(kind, errs, says, to, gives) ==
    [kind |-> kind, errs |-> errs, says |-> says, to |-> to, gives |-> gives,
     loses |-> {}]
Losing(step, what) == [step EXCEPT !.loses = what]

Reset == Step("reset", {}, "nothing", "cleanup", {})

(* The object is tested and the call refused: recorded and returned, or    *)
(* through CLEANUP.                                                        *)
Check == Step("check", {}, "err", "err", {})
CheckGoto == Step("check", {}, "nothing", "cleanup", {})
OwnCheck == Step("own_check", {}, "err", "err", {})

(* An argument is refused on the spot: recorded, returned, nothing freed. *)
MakeOrRefuse(what) == Step("test", {"kept"}, "PARAM", "PARAM", what)
Refuse == MakeOrRefuse({})

(* An argument is refused through CLEANUP, err set to code. *)
MakeOrGoto(what, code) == Step("test", {code}, "nothing", "cleanup", what)
Goto(code) == MakeOrGoto({}, code)
Make(what) == Step("test", {}, "nothing", "cleanup", what)

(* A failure that sets err but does not stop the method. *)
GoesOn(code) == Step("test", {code}, "nothing", "go_on", {})

(* The C client is called (external); a failure goes to CLEANUP. *)
Request(what) == Step("call", {}, "nothing", "cleanup", what)

(* A method whose CLEANUP frees what is in frees, records err and returns  *)
(* err.code; most methods are of this form.                                *)
Body(steps, frees) ==
    [steps |-> steps, frees |-> frees, reports |-> TRUE, answers |-> "code",
     unset |-> FALSE]

(* z_hashtable_to_as_key: a key of another type than string or integer, or *)
(* one that as_key_init refuses, fails with a code that is not put in err. *)
(* The copy of a string key that is refused is not freed.                  *)
KeyText == {"text"}
z_hashtable_to_as_key(says, to) ==
    Losing(Step("test", {"PARAM", "kept"}, says, to, {"key"}), KeyText)
KeyOrRefuse == Losing(MakeOrRefuse({"key"}), KeyText)
KeyOrGoto == Losing(MakeOrGoto({"key"}, "PARAM"), KeyText)
KeyOfBatch == Losing(Step("test", {"PARAM", "kept"}, "nothing", "cleanup", {}), KeyText)

(* zval_to_as_val: a map, at any depth, that has an item that cannot be    *)
(* converted is dropped as it stands, with the key of the item:            *)
(* z_hashtable_to_as_map returns past its own CLEANUP.                     *)
PartOfMap == {"map"}
zval_to_as_val == Losing(Goto("PARAM"), PartOfMap)

(* z_hashtable_to_as_list returns AEROSPIKE_OK even when an item cannot be *)
(* converted: the list is dropped, err is set and the caller goes on.      *)
z_hashtable_to_as_list == Losing(GoesOn("PARAM"), PartOfMap)

(* With an error in err from before, the first item of the list is made,   *)
(* taken for one that failed, and dropped.                                 *)
z_hashtable_to_as_list_after_error == Losing(GoesOn("PARAM"), PartOfMap \cup {"value"})

(* add_predicate_to_query, then the predicate's value: equals and contains *)
(* set err for a value of the wrong type but return AEROSPIKE_OK.          *)
add_predicate_to_query == <<Goto("PARAM"), GoesOn("PARAM")>>

(* add_op_to_operations, for the array that stops operate: its value may   *)
(* fail to convert, and the list operations do not free a value that the   *)
(* library refuses (Operations has each operation).                        *)
add_op_to_operations ==
    Losing(Step("test", {"PARAM", "CLIENT"}, "nothing", "cleanup", {}),
           PartOfMap \cup {"value"})

-----------------------------------------------------------------------------
(* Single records. *)

put == Body(<<Reset, Check, Refuse, Goto("PARAM"), KeyOrGoto, Goto("PARAM"),
              Make({"record"}), zval_to_as_val,
              Step("test", {"PARAM"}, "nothing", "PARAM", {}), Request({})>>,
            {"key", "record"})

(* A failed check is recorded and the method goes on (with a handle: an    *)
(* invalid object that has none is ClientLifecycle's GetCall).             *)
get == Body(<<Reset, Step("check", {}, "err", "go_on", {}), Refuse,
              KeyOrRefuse, Refuse, Goto("PARAM"), Request({"record"}),
              Goto("CLIENT")>>,
            {"key", "record"})

exists == Body(<<Reset, Check, Refuse, KeyOrRefuse, Refuse,
                 Request({"record"})>>,
               {"key", "record"})

remove == Body(<<Reset, Check, Refuse, z_hashtable_to_as_key("err", "PARAM"),
                 Request({})>>,
               {"key"})

touch == Body(<<Reset, OwnCheck, Step("test", {"kept"}, "nothing", "NULL", {}),
                KeyOrGoto, Goto("PARAM"), Make({"operations"}),
                Goto("PARAM"), Request({"record"})>>,
              {"key", "operations", "record"})

append ==
    [Body(<<CheckGoto, Reset, Refuse, Goto("PARAM"), KeyOrGoto,
            Goto("PARAM"), Make({"operations"}), Goto("PARAM"), Request({"record"})>>,
          {"key", "operations", "record"}) EXCEPT !.unset = TRUE]

prepend == Body(<<Reset, OwnCheck, Refuse, KeyOrRefuse, Refuse,
                  Make({"operations"}), Goto("PARAM"), Request({"record"})>>,
                {"key", "operations", "record"})

(* CLEANUP does not record: each failure before it does. *)
increment ==
    [Body(<<Reset, OwnCheck, Refuse, KeyOrRefuse, Refuse,
            Make({"operations"}), Step("test", {"PARAM"}, "PARAM", "cleanup", {}),
            Step("call", {}, "err", "cleanup", {"record"})>>,
          {"key", "operations", "record"}) EXCEPT !.unset = TRUE, !.reports = FALSE]

removeBin == Body(<<Reset, Check, Refuse, KeyOrRefuse, Make({"record"}),
                    Refuse, Request({})>>,
                  {"key", "record"})

(* A key whose conversion leaves err alone is refused with PARAM; an       *)
(* argument list that cannot be converted is replaced by none.             *)
apply == Body(<<CheckGoto, Reset, Refuse, KeyOrGoto,
                Goto("PARAM"), z_hashtable_to_as_list, Make({"args"}),
                Request({"result"}), Goto("CLIENT")>>,
              {"key", "args", "result"})

getKeyDigest ==
    [Body(<<Reset, Step("test", {"kept"}, "nothing", "NULL", {}), Make({"array"}),
            z_hashtable_to_as_key("nothing", "cleanup"),
            Step("test", {"kept"}, "nothing", "cleanup", {})>>,
          {"key", "array"}) EXCEPT !.reports = FALSE, !.answers = "value"]

(* operate and operateOrdered: a list that cannot be converted is replaced *)
(* by none (add_op_to_operations) before a later array stops the method.   *)
operate == Body(<<Reset, Refuse, Check, KeyOrRefuse, Goto("PARAM"),
                  Make({"operations"}), Goto("PARAM"), z_hashtable_to_as_list,
                  add_op_to_operations, Request({"record"}), Goto("CLIENT")>>,
                {"key", "operations", "record"})

operateOrdered == Body(<<Reset, Refuse, Check, KeyOrRefuse, Goto("PARAM"),
                         Make({"operations"}), Goto("PARAM"), z_hashtable_to_as_list,
                         add_op_to_operations, Request({"record"}), Goto("CLIENT")>>,
                       {"key", "operations", "record"})

-----------------------------------------------------------------------------
(* Lists in a bin. *)

setup_list_operation_variables ==
    <<KeyOrGoto, Goto("PARAM"), Make({"operations"}), Goto("PARAM")>>

(* What the methods on lists share: the opening, and their CLEANUP. *)
cleanup_list_operation == {"key", "operations", "record"}
ListBody(steps) ==
    Body(<<Reset, OwnCheck, Refuse>> \o setup_list_operation_variables \o steps,
         cleanup_list_operation)

listSize == ListBody(<<Request({"record"})>>)
(* Whether the library takes the value is not looked at; it has room for   *)
(* one operation.                                                          *)
listAppend == ListBody(<<Goto("PARAM"), zval_to_as_val, Request({"record"})>>)
(* The object is tested before the last error is forgotten. *)
listMerge == Body(<<OwnCheck, Reset, Refuse>> \o setup_list_operation_variables
                  \o <<Goto("PARAM"), z_hashtable_to_as_list, Goto("CLIENT"),
                       Request({"record"})>>,
                  cleanup_list_operation)
listInsert == ListBody(<<Goto("PARAM"), zval_to_as_val, Goto("CLIENT"),
                         Request({"record"})>>)
listInsertItems == ListBody(<<Goto("PARAM"), z_hashtable_to_as_list,
                              Goto("CLIENT"), Request({"record"})>>)
listPop == ListBody(<<Goto("PARAM"), Goto("CLIENT"), Request({"record"}),
                      Goto("CLIENT")>>)
listPopRange == ListBody(<<Goto("CLIENT"), Request({"record"}), Goto("CLIENT")>>)
listRemove == ListBody(<<Goto("CLIENT"), Request({"record"})>>)
listRemoveRange == ListBody(<<Goto("CLIENT"), Request({"record"})>>)
listTrim == ListBody(<<Goto("CLIENT"), Request({"record"})>>)
listClear == ListBody(<<Goto("CLIENT"), Request({"record"})>>)
listSet == ListBody(<<Goto("PARAM"), zval_to_as_val, Goto("CLIENT"),
                      Request({"record"})>>)
listGet == ListBody(<<Goto("CLIENT"), Request({"record"}), Goto("CLIENT")>>)
listGetRange == ListBody(<<Goto("CLIENT"), Request({"record"}), Goto("CLIENT")>>)

-----------------------------------------------------------------------------
(* Batches, scans and queries. *)

get_many_with_batch_read ==
    <<Make({"batch"}), Goto("PARAM"), KeyOfBatch, Request({}), Goto("CLIENT")>>
getMany == Body(<<Reset, Check, Refuse, Goto("PARAM")>> \o get_many_with_batch_read,
                {"batch"})

(* exists_callback, called by the request, may fail as well. *)
existsMany == Body(<<CheckGoto, Reset, Goto("PARAM"), Make({"batch"}), Goto("PARAM"),
                     KeyOfBatch, Request({}), Goto("CLIENT")>>,
                   {"batch"})

scan == Body(<<Reset, Check, Refuse, Make({"scan"}), Goto("PARAM"), Request({})>>,
             {"scan"})

(* The scan takes over the arguments. *)
scanApply == Body(<<Reset, Check, Refuse, Goto("PARAM"), z_hashtable_to_as_list,
                    MakeOrGoto({"scan"}, "PARAM"), Goto("PARAM"), Request({}),
                    Request({})>>,
                  {"scan"})

query == Body(<<Reset, Check, Refuse, MakeOrGoto({"query"}, "PARAM"),
                Step("test", {"kept"}, "nothing", "PARAM", {}), Goto("PARAM")>>
              \o add_predicate_to_query \o <<Request({})>>,
              {"query"})

queryApply == Body(<<Reset, Check, Refuse, MakeOrGoto({"query"}, "PARAM")>>
                   \o add_predicate_to_query
                   \o <<z_hashtable_to_as_list_after_error, Goto("CLIENT"),
                       Request({})>>,
                   {"query"})

(* aggregate looks at err before it goes on.  Last, a result may fail to   *)
(* convert (aggregate_callback_wrapper).  A ZTS build refuses the call.    *)
aggregate == Body(<<Reset, Check, Refuse, MakeOrGoto({"query"}, "PARAM")>>
                  \o add_predicate_to_query
                  \o <<z_hashtable_to_as_list_after_error,
                       Step("err_test", {}, "nothing", "cleanup", {}),
                       Goto("CLIENT"), Request({}), Goto("CLIENT")>>,
                  {"query"})

scanInfo == Body(<<Reset, Check, Refuse, Request({})>>, {})

jobInfo == Body(<<Reset, Check, Refuse, Request({})>>, {})

addIndex == Body(<<Reset, Check, Refuse, Request({}), Request({})>>, {})

dropIndex == Body(<<Reset, Check, Refuse, Request({})>>, {})

truncate == Body(<<Reset, Check, Refuse, Request({})>>, {})

-----------------------------------------------------------------------------
(* Information and user-defined functions. *)

(* The nodes are reserved, not asked; an address that cannot be split ends *)
(* the list early.                                                         *)
getNodes ==
    [Body(<<Reset, Check, Step("test", {"kept"}, "CLUSTER", "CLUSTER", {"nodes"}),
            Step("test", {"kept"}, "nothing", "cleanup", {})>>,
          {"nodes"}) EXCEPT !.answers = "always_value"]

info == Body(<<Reset, Check, Refuse, Goto("PARAM"), Request({"response"})>>,
             {"response"})

infoMany ==
    [Body(<<Reset, Step("check", {}, "err", "NULL", {}),
            Step("test", {"kept"}, "PARAM", "NULL", {}), Request({})>>,
          {}) EXCEPT !.answers = "value"]

getRegistered == Body(<<Reset, Check, Refuse, Make({"file"}), Request({})>>, {"file"})

(* The script is copied to the local path chunk by chunk; a write that     *)
(* fails after the first one ends the loop, and the chunks before it are   *)
(* registered.                                                             *)
register == Body(<<Reset, Check, Refuse, MakeOrGoto({"read_file"}, "CLIENT"),
                   Goto("CLIENT"), MakeOrGoto({"write_file"}, "CLIENT"),
                   MakeOrGoto({"bytes"}, "CLIENT"), Goto("CLIENT"), GoesOn("kept"),
                   Request({}), Request({})>>,
                 {"read_file", "write_file", "bytes"})

deregister == Body(<<Reset, Check, Refuse, Request({})>>, {})

(* CLEANUP does not record: the failure before it does. *)
listRegistered ==
    [Body(<<Reset, Check, Refuse, Make({"files"}),
            Step("call", {}, "err", "cleanup", {})>>,
          {"files"}) EXCEPT !.reports = FALSE]

-----------------------------------------------------------------------------
(* Users and roles. *)

createRole == Body(<<CheckGoto, Reset, Goto("PARAM"),
                     MakeOrGoto({"privileges"}, "CLIENT"), Goto("PARAM"),
                     Request({})>>,
                   {"privileges"})

queryRole == Body(<<CheckGoto, Reset, Goto("PARAM"), Request({"role"}),
                    Goto("CLIENT")>>, {"role"})

queryRoles == Body(<<Reset, CheckGoto, Goto("PARAM"), Request({"roles"}),
                     Goto("CLIENT")>>, {"roles"})

dropRole == Body(<<Reset, CheckGoto, Goto("PARAM"), Request({})>>, {})

(* The names are freed and the array that holds them is not. *)
createUser == Body(<<Reset, CheckGoto, Goto("PARAM"), MakeOrGoto({"roles"}, "CLIENT"),
                     Make({"names"}), Goto("PARAM"), Request({})>>,
                   {"names"})

grantPrivileges == Body(<<Reset, CheckGoto, Goto("PARAM"),
                          MakeOrGoto({"privileges"}, "CLIENT"), Goto("PARAM"),
                          Request({})>>,
                        {"privileges"})

revokePrivileges == Body(<<Reset, CheckGoto, Goto("PARAM"),
                           MakeOrGoto({"privileges"}, "CLIENT"), Goto("PARAM"),
                           Request({})>>,
                         {"privileges"})

(* A failed check is returned and not recorded. *)
changePassword == Body(<<Reset, Step("check", {}, "nothing", "err", {}),
                         Goto("PARAM"), Request({})>>, {})

setPassword == Body(<<CheckGoto, Reset, Goto("PARAM"), Request({})>>, {})

grantRoles == Body(<<Reset, CheckGoto, Goto("PARAM"), MakeOrGoto({"roles"}, "CLIENT"),
                     Make({"names"}), Goto("PARAM"), Request({})>>,
                   {"roles", "names"})

revokeRoles == Body(<<Reset, CheckGoto, Goto("PARAM"), MakeOrGoto({"roles"}, "CLIENT"),
                      Make({"names"}), Goto("PARAM"), Request({})>>,
                    {"roles", "names"})

queryUser == Body(<<Reset, CheckGoto, Goto("PARAM"), Request({"user"})>>, {"user"})

queryUsers == Body(<<Reset, CheckGoto, Goto("PARAM"), Request({"users"})>>, {"users"})

dropUser == Body(<<Reset, CheckGoto, Goto("PARAM"), Request({})>>, {})

-----------------------------------------------------------------------------
(* The methods of the class, but for the constructor, close and reconnect  *)
(* (ClientLifecycle) and the accessors that call nothing.                  *)
Methods == [
    put |-> put, get |-> get, exists |-> exists, remove |-> remove,
    touch |-> touch, append |-> append, prepend |-> prepend,
    increment |-> increment, removeBin |-> removeBin, apply |-> apply,
    getKeyDigest |-> getKeyDigest, operate |-> operate,
    operateOrdered |-> operateOrdered,
    listSize |-> listSize, listAppend |-> listAppend, listMerge |-> listMerge,
    listInsert |-> listInsert, listInsertItems |-> listInsertItems,
    listPop |-> listPop, listPopRange |-> listPopRange,
    listRemove |-> listRemove, listRemoveRange |-> listRemoveRange,
    listTrim |-> listTrim, listClear |-> listClear, listSet |-> listSet,
    listGet |-> listGet, listGetRange |-> listGetRange,
    getMany |-> getMany, existsMany |-> existsMany, scan |-> scan,
    scanApply |-> scanApply, query |-> query, queryApply |-> queryApply,
    aggregate |-> aggregate, scanInfo |-> scanInfo, jobInfo |-> jobInfo,
    addIndex |-> addIndex, dropIndex |-> dropIndex, truncate |-> truncate,
    getNodes |-> getNodes, info |-> info, infoMany |-> infoMany,
    getRegistered |-> getRegistered, register |-> register,
    deregister |-> deregister, listRegistered |-> listRegistered,
    createRole |-> createRole, queryRole |-> queryRole,
    queryRoles |-> queryRoles, dropRole |-> dropRole,
    createUser |-> createUser, grantPrivileges |-> grantPrivileges,
    revokePrivileges |-> revokePrivileges, changePassword |-> changePassword,
    setPassword |-> setPassword, grantRoles |-> grantRoles,
    revokeRoles |-> revokeRoles, queryUser |-> queryUser,
    queryUsers |-> queryUsers, dropUser |-> dropUser]

=============================================================================
