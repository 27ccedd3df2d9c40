----------------------------- MODULE Operations -----------------------------
(***************************************************************************)
(* operate() and operateOrdered(): a script's arrays become the operations *)
(* of one request.                                                         *)
(*                                                                         *)
(* Each array names an operation and its arguments.  What an operation     *)
(* requires stands in a dozen tables apart from the switch that uses it: an *)
(* argument a table forgets is an uninitialised local of the library call. *)
(* Values are converted on the way and given to the library with the       *)
(* operation; one as_error is passed through the whole loop.               *)
(*                                                                         *)
(* An array is its operation and what each of its entries holds.  A        *)
(* definition named Mut_<fault>_<name> is <name> with that fault in it.    *)
(*                                                                         *)
(* Source: client/operate.c.                                               *)
(***************************************************************************)
EXTENDS Naturals, Sequences, FiniteSets

CONSTANTS
    MaxOps,         \* bound on the arrays of one call
    Inputs          \* the arrays a script gives, each with an integer "op"

VARIABLES
    option,         \* the ttl of the call's options, "unset" without one
    method,         \* which of the two methods was called
    keys,           \* the keys of its array: "list", "ints" (any integers) or "mixed" (a string among them)
    asked,          \* the arrays looked at so far
    ops,            \* the operations added for them
    ttl,            \* the ttl of the whole request
    err,            \* the code in the as_error
    phase,          \* "adding", "sent" or "failed"
    refused,        \* history: the library refused to add an operation
    leaked,         \* history: operations with a value, or a part of one, nobody frees
    twice           \* history: operations with a value freed by us and owned by the request

vars == <<option, method, keys, asked, ops, ttl, err, phase, refused, leaked, twice>>

List == {"list", "badlist", "badmaps"}
Array == List \cup {"map", "badmap"}

(* object: serialised.  bad: cannot be converted.  badlist and badmap have  *)
(* such an item behind a good one, badmaps is a list with a badmap in front. *)
(* No array is empty.  toolong: longer than AS_BIN_NAME_MAX_LEN.            *)
Long == {"long", "negative"}
String == {"string", "numeric", "toolong"}
Kind == Long \cup String \cup Array \cup {"double", "object", "null", "bad", "absent"}

Entry == {"bin", "index", "val", "ttl", "key", "count", "rank", "return_type", "map_policy", "range_end"}

-----------------------------------------------------------------------------
(* The operations and their arguments. *)

Indexed == {"LIST_INSERT", "LIST_INSERT_ITEMS", "LIST_POP", "LIST_POP_RANGE", "LIST_REMOVE",
            "LIST_REMOVE_RANGE", "LIST_SET", "LIST_GET", "LIST_GET_RANGE", "LIST_TRIM"}
ListOp == Indexed \cup {"LIST_APPEND", "LIST_MERGE", "LIST_CLEAR", "LIST_SIZE"}
PlainOp == {"WRITE", "READ", "INCR", "PREPEND", "APPEND", "TOUCH", "DELETE"} \cup ListOp

RemoveBy == {"MAP_REMOVE_BY_KEY", "MAP_REMOVE_BY_KEY_LIST", "MAP_REMOVE_BY_KEY_RANGE",
             "MAP_REMOVE_BY_VALUE", "MAP_REMOVE_BY_VALUE_LIST", "MAP_REMOVE_BY_VALUE_RANGE",
             "MAP_REMOVE_BY_INDEX", "MAP_REMOVE_BY_INDEX_RANGE",
             "MAP_REMOVE_BY_RANK", "MAP_REMOVE_BY_RANK_RANGE"}
GetBy == {"MAP_GET_BY_KEY", "MAP_GET_BY_KEY_RANGE", "MAP_GET_BY_VALUE", "MAP_GET_BY_VALUE_RANGE",
          "MAP_GET_BY_INDEX", "MAP_GET_BY_INDEX_RANGE", "MAP_GET_BY_RANK", "MAP_GET_BY_RANK_RANGE"}
op_is_map_op == {"MAP_SET_POLICY", "MAP_PUT", "MAP_PUT_ITEMS", "MAP_INCREMENT", "MAP_DECREMENT",
                 "MAP_SIZE", "MAP_CLEAR"} \cup RemoveBy \cup GetBy

Op == PlainOp \cup op_is_map_op \cup {"unknown"}

(* An array of a script.  Any subset of them is a set of inputs. *)
Asking == [op : Op, e : [Entry -> Kind]]

ASSUME InputsAssumption == MaxOps \in Nat /\ Inputs \subseteq Asking

(* The tables: the operations that have their array searched for an entry.  *)
op_requires_bin == Op \ {"DELETE"}
Mut_PopNeedsVal_op_requires_val ==
  Op \ {"TOUCH", "LIST_CLEAR", "READ", "LIST_SIZE", "LIST_REMOVE", "LIST_GET",
        "MAP_SIZE", "MAP_CLEAR", "DELETE"}

op_requires_val ==
  Op \ {"TOUCH", "LIST_CLEAR", "READ", "LIST_SIZE", "LIST_POP", "LIST_REMOVE", "LIST_GET",
        "MAP_SIZE", "MAP_CLEAR", "DELETE"}
op_requires_list_val == {"LIST_MERGE", "LIST_INSERT_ITEMS"}
op_requires_long_val == {"LIST_POP_RANGE", "LIST_REMOVE_RANGE", "LIST_GET_RANGE", "LIST_TRIM"}
op_requires_as_val == {"LIST_INSERT", "LIST_SET", "LIST_APPEND", "WRITE"}
op_requires_index == Indexed

map_op_requires_key ==
  {"MAP_PUT", "MAP_INCREMENT", "MAP_DECREMENT", "MAP_REMOVE_BY_KEY", "MAP_REMOVE_BY_KEY_LIST",
   "MAP_REMOVE_BY_KEY_RANGE", "MAP_GET_BY_KEY", "MAP_GET_BY_KEY_RANGE"}
map_op_requires_val ==
  {"MAP_PUT", "MAP_INCREMENT", "MAP_DECREMENT", "MAP_REMOVE_BY_VALUE", "MAP_REMOVE_BY_VALUE_LIST",
   "MAP_REMOVE_BY_VALUE_RANGE", "MAP_GET_BY_VALUE", "MAP_GET_BY_VALUE_RANGE", "MAP_PUT_ITEMS"}

Mut_NoRangeGet_map_op_requires_rank ==
  {"MAP_REMOVE_BY_RANK", "MAP_REMOVE_BY_RANK_RANGE", "MAP_GET_BY_RANK"}

map_op_requires_rank ==
  {"MAP_REMOVE_BY_RANK", "MAP_REMOVE_BY_RANK_RANGE", "MAP_GET_BY_RANK", "MAP_GET_BY_RANK_RANGE"}
map_op_requires_return_type == RemoveBy \cup GetBy
map_op_requires_map_policy == {"MAP_SET_POLICY", "MAP_PUT", "MAP_PUT_ITEMS", "MAP_INCREMENT", "MAP_DECREMENT"}
map_op_requires_index ==
  {"MAP_REMOVE_BY_INDEX", "MAP_REMOVE_BY_INDEX_RANGE", "MAP_GET_BY_INDEX", "MAP_GET_BY_INDEX_RANGE"}
map_op_requires_count ==
  {"MAP_REMOVE_BY_INDEX_RANGE", "MAP_REMOVE_BY_RANK_RANGE", "MAP_GET_BY_INDEX_RANGE", "MAP_GET_BY_RANK_RANGE"}
map_op_requires_range_end ==
  {"MAP_REMOVE_BY_KEY_RANGE", "MAP_REMOVE_BY_VALUE_RANGE", "MAP_GET_BY_KEY_RANGE", "MAP_GET_BY_VALUE_RANGE"}

(* What the tables of add_map_op_to_operations make it look up. *)
MapLooksUp(op) ==
  {x \in Entry : \/ x = "bin"
                 \/ x = "key" /\ op \in map_op_requires_key
                 \/ x = "val" /\ op \in map_op_requires_val
                 \/ x = "rank" /\ op \in map_op_requires_rank
                 \/ x = "return_type" /\ op \in map_op_requires_return_type
                 \/ x = "map_policy" /\ op \in map_op_requires_map_policy
                 \/ x = "index" /\ op \in map_op_requires_index
                 \/ x = "count" /\ op \in map_op_requires_count
                 \/ x = "range_end" /\ op \in map_op_requires_range_end}

LooksUp(op) ==
  IF op \in op_is_map_op THEN MapLooksUp(op)
  ELSE IF op = "TOUCH" THEN {"ttl"}
  ELSE {x \in Entry : \/ x = "bin" /\ op \in op_requires_bin
                      \/ x = "index" /\ op \in op_requires_index
                      \/ x = "val" /\ op \in op_requires_val}

(* The variables each case of the two switches hands to the library. *)
PlainUses(op) ==
  CASE op = "TOUCH" -> {"ttl"}
    [] op = "DELETE" -> {}
    [] op \in {"READ", "LIST_CLEAR", "LIST_SIZE"} -> {"bin"}
    [] op \in {"WRITE", "INCR", "PREPEND", "APPEND", "LIST_APPEND", "LIST_MERGE"} -> {"bin", "val"}
    [] op \in {"LIST_POP", "LIST_REMOVE", "LIST_GET"} -> {"bin", "index"}
    [] OTHER -> {"bin", "index", "val"}

MapUses(op) ==
  CASE op = "MAP_SET_POLICY" -> {"map_policy"}
    [] op \in {"MAP_PUT", "MAP_INCREMENT", "MAP_DECREMENT"} -> {"map_policy", "key", "val"}
    [] op = "MAP_PUT_ITEMS" -> {"map_policy", "val"}
    [] op \in {"MAP_SIZE", "MAP_CLEAR"} -> {}
    [] op \in {"MAP_REMOVE_BY_KEY", "MAP_REMOVE_BY_KEY_LIST", "MAP_GET_BY_KEY"} -> {"key", "return_type"}
    [] op \in {"MAP_REMOVE_BY_KEY_RANGE", "MAP_GET_BY_KEY_RANGE"} -> {"key", "range_end", "return_type"}
    [] op \in {"MAP_REMOVE_BY_VALUE", "MAP_REMOVE_BY_VALUE_LIST", "MAP_GET_BY_VALUE"} -> {"val", "return_type"}
    [] op \in {"MAP_REMOVE_BY_VALUE_RANGE", "MAP_GET_BY_VALUE_RANGE"} -> {"val", "range_end", "return_type"}
    [] op \in {"MAP_REMOVE_BY_INDEX", "MAP_GET_BY_INDEX"} -> {"index", "return_type"}
    [] op \in {"MAP_REMOVE_BY_INDEX_RANGE", "MAP_GET_BY_INDEX_RANGE"} -> {"index", "count", "return_type"}
    [] op \in {"MAP_REMOVE_BY_RANK", "MAP_GET_BY_RANK"} -> {"rank", "return_type"}
    [] OTHER -> {"rank", "count", "return_type"}

Uses(op) == IF op \in op_is_map_op THEN {"bin"} \cup MapUses(op) ELSE PlainUses(op)

-----------------------------------------------------------------------------
(* zval_to_as_val on an entry, called with the as_error as it is.  A list   *)
(* or map fails when the error is already set; a serialised value does not  *)
(* look at it, and the others are made and answered with the old code.      *)
Made(k) ==
  /\ k \notin {"bad", "badlist", "badmap", "badmaps", "absent"}
  /\ k \in Array => err = "OK"

(* A map that fails is left as far as it got, with the key of the item.  A  *)
(* list is destroyed, but for the item it was about to take when the error  *)
(* was already set.                                                         *)
LeavesPart(k) == k \in Array /\ (k \in {"badmap", "badmaps"} \/ err # "OK")

ConvertOk(k) == Made(k) /\ (err = "OK" \/ k \in {"object", "null"})

bin_ok(a) == "bin" \in LooksUp(a.op) => a.e["bin"] \in {"string", "numeric"}

(* The checks of add_op_to_operations before it makes an as_val. *)
PlainChecked(a) ==
  LET v == a.e["val"]
  IN /\ a.op \in PlainOp
     /\ bin_ok(a)
     /\ a.op \in op_requires_index => a.e["index"] \in Long
     /\ a.op \in op_requires_val => v # "absent"
     /\ a.op \in op_requires_list_val => v \in List
     /\ a.op \in op_requires_long_val => v \in Long
     /\ a.op = "INCR" => v \in Long \cup {"double", "numeric"}
     /\ a.op \in {"PREPEND", "APPEND"} => v \in String

(* The getters of what is not converted. *)
get_count_from_op_hash(a) == a.e["count"] = "long"
get_return_type_from_op_hash(a) == a.e["return_type"] \in Long
get_index_or_rank_from_op_hash(a, x) == a.e[x] \in Long
zval_to_as_policy_map(k) == k \in {"map", "null"}

MapChecked(a) ==
  LET looked == MapLooksUp(a.op)
  IN /\ bin_ok(a)
     /\ \A x \in looked \cap {"index", "rank"} : get_index_or_rank_from_op_hash(a, x)
     /\ "return_type" \in looked => get_return_type_from_op_hash(a)
     /\ "count" \in looked => get_count_from_op_hash(a)
     /\ "map_policy" \in looked => zval_to_as_policy_map(a.e["map_policy"])

(* The values add_map_op_to_operations converts, in the order key,          *)
(* range_end, val, and the one that failed first.                           *)
Converted(a) == MapLooksUp(a.op) \cap {"key", "range_end", "val"}
Before(x) == CASE x = "key" -> {} [] x = "range_end" -> {"key"} [] OTHER -> {"key", "range_end"}
FailsFirst(a, x) == ~ConvertOk(a.e[x]) /\ \A y \in Converted(a) \cap Before(x) : ConvertOk(a.e[y])

(* The library takes lists and maps for these, the extension looks first.   *)
ShapeOk(a) ==
  /\ a.op = "MAP_PUT_ITEMS" => a.e["val"] = "map"
  /\ a.op = "MAP_REMOVE_BY_KEY_LIST" => a.e["key"] = "list"
  /\ a.op = "MAP_REMOVE_BY_VALUE_LIST" => a.e["val"] = "list"

-----------------------------------------------------------------------------
Init ==
  /\ \/ method = "operate" /\ keys \in {"list", "ints", "mixed"}
     \/ method = "operateOrdered" /\ keys \in {"ints", "mixed"}
  /\ option \in Long \cup {"unset"} /\ ttl = option
  /\ asked = <<>> /\ ops = <<>>
  /\ err = "OK" /\ phase = "adding"
  /\ refused = FALSE /\ leaked = {} /\ twice = {}

(* operate wants a list; operateOrdered stops at a string key. *)
KeysRefused ==
  /\ phase = "adding"
  /\ IF method = "operate" THEN keys # "list" /\ asked = <<>> ELSE keys = "mixed"
  /\ err' = "PARAM" /\ phase' = "failed"
  /\ UNCHANGED <<option, method, keys, asked, ops, ttl, refused, leaked, twice>>

Adding == phase = "adding" /\ (method = "operate" => keys = "list")

Room == Adding /\ Len(asked) < MaxOps

(* An element that is not an array, or has no integer "op". *)
NoOperation == [op |-> "none", e |-> [x \in Entry |-> "absent"]]

NotAnOperation ==
  /\ Room
  /\ asked' = Append(asked, NoOperation)
  /\ err' = "PARAM" /\ phase' = "failed"
  /\ UNCHANGED <<option, method, keys, ops, ttl, refused, leaked, twice>>

Leak(a, lost) == leaked' = IF lost THEN leaked \cup {a.op} ELSE leaked

Refuse(a, code, lost) ==
  /\ asked' = Append(asked, a)
  /\ err' = code /\ phase' = "failed"
  /\ Leak(a, lost)
  /\ UNCHANGED <<option, method, keys, ops, ttl, twice>>

(* What the library is handed: what was looked up, or whatever the variable *)
(* held; no list where the items could not be converted.  The ttl is not an *)
(* operation's but the request's.                                           *)
Request(a) ==
  [op |-> a.op,
   args |-> [x \in Uses(a.op) \ {"ttl"} |->
               IF x \notin LooksUp(a.op) THEN "unset"
               ELSE IF a.op \in op_requires_list_val /\ x = "val" /\ ~Made(a.e["val"]) THEN "null"
               ELSE a.e[x]]]

Accept(a) ==
  /\ asked' = Append(asked, a)
  /\ ops' = Append(ops, Request(a))
  /\ UNCHANGED <<option, method, keys, phase>>

Mut_KeepsTtl_AddTouch(a) ==
  /\ a.op = "TOUCH"
  /\ \/ /\ a.e["ttl"] = "absent"
        /\ asked' = Append(asked, a)
        /\ UNCHANGED <<option, method, keys, ops, ttl, err, phase, refused, leaked, twice>>
     \/ /\ a.e["ttl"] \notin Long \cup {"absent"}
        /\ Refuse(a, "PARAM", FALSE) /\ UNCHANGED refused
     \/ /\ a.e["ttl"] \in Long
        /\ Accept(a)
        /\ ttl' = IF ttl = "unset" THEN a.e["ttl"] ELSE ttl
        /\ UNCHANGED <<err, refused, leaked, twice>>

(* Touch is handled first, without a look at what the library answers: the  *)
(* request has room.  Its ttl becomes that of the request.  Without one the *)
(* touch is dropped.                                                        *)
AddTouch(a) ==
  /\ a.op = "TOUCH"
  /\ \/ /\ a.e["ttl"] = "absent"
        /\ asked' = Append(asked, a)
        /\ UNCHANGED <<option, method, keys, ops, ttl, err, phase, refused, leaked, twice>>
     \/ /\ a.e["ttl"] \notin Long \cup {"absent"}
        /\ Refuse(a, "PARAM", FALSE) /\ UNCHANGED refused
     \/ /\ a.e["ttl"] \in Long
        /\ Accept(a) /\ ttl' = a.e["ttl"]
        /\ UNCHANGED <<err, refused, leaked, twice>>

(* The other operations that are not on maps.  A value made while an old    *)
(* error stands is forgotten, and so is one the library did not take, but   *)
(* for write.  A list of unconvertible items sets the error and goes on.    *)
AddPlain(a, accepted) ==
  LET v == a.e["val"]
      valued == a.op \in op_requires_as_val
      listed == a.op \in op_requires_list_val
      made == (valued \/ listed) /\ Made(v)
      part == (valued \/ listed) /\ LeavesPart(v)
      ready == valued => made /\ err = "OK"
  IN /\ a.op \notin op_is_map_op \cup {"TOUCH"}
     /\ \/ /\ ~PlainChecked(a)
           /\ Refuse(a, "PARAM", FALSE) /\ UNCHANGED refused
        \/ /\ PlainChecked(a) /\ ~ready
           /\ Refuse(a, "PARAM", made \/ part) /\ UNCHANGED refused
        \/ /\ PlainChecked(a) /\ ready /\ ~accepted
           /\ Refuse(a, "CLIENT", (made /\ a.op # "WRITE") \/ part) /\ refused' = TRUE
        \/ /\ PlainChecked(a) /\ ready /\ accepted
           /\ Accept(a)
           /\ err' = IF listed /\ ~made THEN "PARAM" ELSE err
           /\ Leak(a, part)
           /\ UNCHANGED <<ttl, refused, twice>>

(* At CLEANUP everything made is freed when the error is set, also an old   *)
(* one.                                                                     *)
Mut_Always_FreedAtCleanup(code) == TRUE

FreedAtCleanup(code) == code # "OK"

(* add_map_op_to_operations *)
AddMap(a, accepted) ==
  LET converted == \A x \in Converted(a) : ConvertOk(a.e[x])
      part == MapChecked(a) /\ \E x \in Converted(a) : FailsFirst(a, x) /\ LeavesPart(a.e[x])
      code == IF accepted THEN err ELSE "CLIENT"
  IN /\ a.op \in op_is_map_op
     /\ \/ /\ ~(MapChecked(a) /\ converted /\ ShapeOk(a))
           /\ Refuse(a, "PARAM", part) /\ UNCHANGED refused
        \/ /\ MapChecked(a) /\ converted /\ ShapeOk(a)
           /\ asked' = Append(asked, a)
           /\ ops' = IF accepted THEN Append(ops, Request(a)) ELSE ops
           /\ twice' = IF accepted /\ FreedAtCleanup(code) /\ Converted(a) # {}
                       THEN twice \cup {a.op} ELSE twice
           /\ err' = code
           /\ phase' = IF code = "OK" THEN phase ELSE "failed"
           /\ refused' = (refused \/ ~accepted)
           /\ UNCHANGED <<option, method, keys, ttl, leaked>>

(* aerospike_key_operate, which clears the error; an empty array is refused *)
(* before the loop.                                                         *)
Send ==
  /\ Adding /\ keys # "mixed"
  /\ IF asked = <<>>
     THEN err' = "PARAM" /\ phase' = "failed"
     ELSE err' = "OK" /\ phase' = "sent"
  /\ UNCHANGED <<option, method, keys, asked, ops, ttl, refused, leaked, twice>>

Done == phase # "adding" /\ UNCHANGED vars

-----------------------------------------------------------------------------
(* What a script may give for each entry of an operation: the reference the *)
(* tables and checks above are held against.                                *)

Convertible == Long \cup String \cup {"double", "object", "null", "list", "map"}

RightVal(op) ==
  CASE op \in {"LIST_MERGE", "LIST_INSERT_ITEMS", "MAP_REMOVE_BY_VALUE_LIST"} -> {"list"}
    [] op \in {"LIST_POP_RANGE", "LIST_REMOVE_RANGE", "LIST_GET_RANGE", "LIST_TRIM"} -> Long
    [] op = "MAP_PUT_ITEMS" -> {"map"}
    [] op = "INCR" -> Long \cup {"double", "numeric"}
    [] op \in {"PREPEND", "APPEND"} -> String
    [] OTHER -> Convertible

Right(op, x) ==
  CASE x = "bin" -> {"string", "numeric"}
    [] x \in {"index", "rank", "return_type"} -> Long
    [] x = "ttl" -> Long \cup {"absent"}
    [] x = "count" -> {"long"}
    [] x = "map_policy" -> {"map", "null"}
    [] x = "key" -> IF op = "MAP_REMOVE_BY_KEY_LIST" THEN {"list"} ELSE Convertible
    [] x = "range_end" -> Convertible
    [] x = "val" -> RightVal(op)

WellFormed(a) == a.op \in Op \ {"unknown"} /\ \A x \in Uses(a.op) : a.e[x] \in Right(a.op, x)

(* A list whose items cannot be converted is not refused.  It is sent as no *)
(* list, and so is every list of these two operations after it.             *)
BadItems(a) == a.op \in op_requires_list_val /\ a.e["val"] \in {"badlist", "badmaps"}
BadItemsUpTo(i) == \E j \in 1..i : BadItems(asked[j])
NoBadItems == ~BadItemsUpTo(Len(asked))

-----------------------------------------------------------------------------
Next ==
  \/ KeysRefused \/ NotAnOperation \/ Send \/ Done
  \/ Room /\ \E a \in Inputs :
       \/ AddTouch(a)
       \/ \E accepted \in BOOLEAN : AddPlain(a, accepted) \/ AddMap(a, accepted)

Spec == Init /\ [][Next]_vars

-----------------------------------------------------------------------------
(* What an array asks for, with or without a list to send; a touch without  *)
(* a ttl asks for nothing.                                                  *)
Kept(a) == a.op # "TOUCH" \/ a.e["ttl"] # "absent"
Wanted(a, listless) ==
  [op |-> a.op,
   args |-> [x \in Uses(a.op) \ {"ttl"} |-> IF listless /\ x = "val" THEN "null" ELSE a.e[x]]]
Listless(i) == asked[i].op \in op_requires_list_val /\ BadItemsUpTo(i)

(* The operation of the i-th array of s is the Place(s, i)-th of the request. *)
Place(s, i) == Cardinality({j \in 1..i : Kept(s[j])})

Matches ==
  /\ Len(ops) = Place(asked, Len(asked))
  /\ \A i \in 1..Len(asked) :
       Kept(asked[i]) => ops[Place(asked, i)] = Wanted(asked[i], Listless(i))

Touches(a) == a.op = "TOUCH" /\ a.e["ttl"] # "absent"

(* The request lasts as the last touch says, else as the option does. *)
TtlIsLast ==
  \/ \E i \in 1..Len(asked) :
       /\ Touches(asked[i]) /\ ttl = asked[i].e["ttl"]
       /\ \A j \in 1..Len(asked) : j > i => ~Touches(asked[j])
  \/ ttl = option /\ \A i \in 1..Len(asked) : ~Touches(asked[i])

AllTaken == \A i \in 1..Len(asked) : WellFormed(asked[i]) \/ BadItems(asked[i])

(* The request holds exactly the operations the script asked for, in their  *)
(* order and with their arguments, each given and of a right type: no       *)
(* library call of add_op_to_operations sees a variable that was not set.   *)
(* Touches without a ttl are left out, and the last one that has one says   *)
(* how long the record lasts, whatever the option and the others say.  A    *)
(* LIST_MERGE or LIST_INSERT_ITEMS is sent without its list when an item of *)
(* it, or of such a list before it, could not be converted.                 *)
SentAsAsked == phase = "sent" => Matches /\ AllTaken /\ TtlIsLast

(* What the as_error of an earlier list of unconvertible items stops.       *)
StoppedByOldError(a) == a.op \in op_requires_as_val \cup op_is_map_op

(* A call is refused only for a reason: keys the method does not take, the  *)
(* library, or the last array, which is not well formed, or which is right  *)
(* and is refused for the error a list of unconvertible items before it     *)
(* left behind: a value to convert or an operation on a map, and no other.  *)
RefusedForCause ==
  (phase = "failed" /\ asked # <<>>) =>
    \/ refused
    \/ keys = "mixed"
    \/ ~WellFormed(asked[Len(asked)])
    \/ StoppedByOldError(asked[Len(asked)]) /\ BadItemsUpTo(Len(asked) - 1)

(* The array has a map, or a list of maps, that cannot be converted. *)
HasBadMap(a) == \E x \in Entry : a.e[x] \in {"badmap", "badmaps"}

(* A converted value has one owner.  It is not freed once the request has   *)
(* it, but by an operation on a map after a list of unconvertible items,    *)
(* which ends the call.  It is freed when the operation is not added, but   *)
(* where the library refuses a list operation, where a map cannot be        *)
(* converted and after such a list.                                         *)
ValuesHaveOneOwner ==
  /\ twice # {} => /\ phase = "failed" /\ BadItemsUpTo(Len(asked) - 1)
                  /\ asked[Len(asked)].op \in op_is_map_op /\ twice = {asked[Len(asked)].op}
  /\ \A o \in leaked :
       \E i \in 1..Len(asked) :
         /\ asked[i].op = o
         /\ (refused /\ o \in ListOp) \/ HasBadMap(asked[i]) \/ BadItemsUpTo(i - 1)

(* Types. *)
Sent == UNION {[op : {o}, args : [Uses(o) \ {"ttl"} -> Kind \cup {"unset", "null"}]] : o \in Op}

TypeOK ==
  /\ method \in {"operate", "operateOrdered"} /\ keys \in {"list", "ints", "mixed"}
  /\ option \in Long \cup {"unset"} /\ ttl \in Long \cup {"unset"}
  /\ asked \in Seq(Asking \cup {NoOperation}) /\ ops \in Seq(Sent)
  /\ err \in {"OK", "PARAM", "CLIENT"} /\ phase \in {"adding", "sent", "failed"}
  /\ refused \in BOOLEAN /\ leaked \subseteq Op /\ twice \subseteq Op

(* While arrays are added the as_error is set exactly when a list with      *)
(* unconvertible items went by, nothing was refused, and what was added is  *)
(* what was asked: the loop of operate stops at the first array that is not *)
(* right, so that an error left by such a list is the only one a later      *)
(* array can meet.                                                          *)
OperateInv ==
  /\ TypeOK
  /\ phase = "adding" => ~refused /\ (err = "OK" <=> NoBadItems)
  /\ phase # "failed" => Matches /\ AllTaken /\ TtlIsLast
=============================================================================
