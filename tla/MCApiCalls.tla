----------------------------- MODULE MCApiCalls -----------------------------
(* Every method of the class; the cfg names the exceptions of a property.  *)
EXTENDS ApiDiscipline, ApiMethods

(***************************************************************************)
(* What the methods of client/*.c leave allocated on some way out.         *)
(***************************************************************************)

(* The copy of a string key that as_key_init_strp refuses. *)
KeyMethods ==
    {"put", "get", "exists", "remove", "touch", "append", "prepend", "increment",
     "removeBin", "apply", "getKeyDigest", "operate", "operateOrdered", "listSize",
     "listAppend", "listMerge", "listInsert", "listInsertItems", "listPop",
     "listPopRange", "listRemove", "listRemoveRange", "listTrim", "listClear",
     "listSet", "listGet", "listGetRange", "getMany", "existsMany"}

(* A map with an item that cannot be converted. *)
ValueMethods ==
    {"put", "apply", "operate", "operateOrdered", "listAppend", "listMerge",
     "listInsert", "listInsertItems", "listSet", "scanApply", "queryApply",
     "aggregate"}

(* A value that the library refuses, or made with an old error in err. *)
RefusedValueMethods == {"operate", "operateOrdered", "queryApply", "aggregate"}

(* A key or a query made before a return that passes CLEANUP by. *)
EarlyReturns ==
    {<<"put", "key">>, <<"put", "record">>, <<"get", "key">>, <<"exists", "key">>,
     <<"prepend", "key">>, <<"increment", "key">>, <<"removeBin", "key">>,
     <<"removeBin", "record">>, <<"query", "query">>}

(* The array of role names, which no way out frees. *)
NeverFreed == {<<"createUser", "roles">>}

KnownLeaks ==
    (KeyMethods \X KeyText) \cup (ValueMethods \X PartOfMap)
    \cup (RefusedValueMethods \X {"value"}) \cup EarlyReturns \cup NeverFreed

(* None of them is listed without a way out that leaves it. *)
ASSUME LeaksAreReal ==
    \A leak \in Leaks : leak[1] \in Method /\ LeavesBehind(leak[1], leak[2])
=============================================================================
