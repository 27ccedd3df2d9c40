--------------------------- MODULE RequestProofs ---------------------------
(***************************************************************************)
(* Proofs about what a request is made of: the operations of operate()     *)
(* (Operations) and the predicate of a query (Predicates).                 *)
(*                                                                         *)
(* Operations, for any number of arrays in a call and any arrays at all:   *)
(* the request is what was asked, a refusal has a cause and a converted    *)
(* value has one owner.  First the tables and checks of client/operate.c,  *)
(* one array at a time, against the reference (MapTables to                *)
(* RequestIsWanted); then the place of an array's operation in the request *)
(* (PlaceFacts, PlaceAppend); then what each handler may do, said in one   *)
(* form for all three (GoesOn, Stops); then the inductive invariant.       *)
(*                                                                         *)
(* Predicates, for any bin names, values, ranges, index types and texts,   *)
(* and any array a script writes by hand: the array of a helper is read    *)
(* back key by key (PlainArray, IndexedArray, Dispatch), each helper is    *)
(* met with the reader of its operator (ValueHelpers, RangeHelpers,        *)
(* GeoHelpers), and each reader is shown to keep its clause or fail        *)
(* (ReadersKeep); the invariant says with which array the query was made.  *)
(***************************************************************************)
EXTENDS Operations, Predicates, FiniteSetTheorems, TLAPS

-----------------------------------------------------------------------------
(* The operations of operate().                                             *)

(* For a map operation the tables make add_map_op_to_operations look up     *)
(* exactly the entries its switch hands to the library: no variable of the  *)
(* switch is left unset, none is demanded for nothing.                      *)
LEMMA MapTables ==
  ASSUME NEW op \in op_is_map_op
  PROVE  Uses(op) = LooksUp(op)
  BY DEF op_is_map_op, RemoveBy, GetBy, Uses, MapUses, LooksUp, MapLooksUp, Entry,
         map_op_requires_key, map_op_requires_val, map_op_requires_rank,
         map_op_requires_return_type, map_op_requires_map_policy, map_op_requires_index,
         map_op_requires_count, map_op_requires_range_end

(* The same for the other operations, whose tables are separate functions.  *)
LEMMA PlainTables ==
  ASSUME NEW op \in PlainOp
  PROVE  op \notin op_is_map_op /\ Uses(op) = LooksUp(op)
<1>1. op \notin op_is_map_op
  BY DEF PlainOp, ListOp, Indexed, op_is_map_op, RemoveBy, GetBy
<1>2. PlainUses(op) = LooksUp(op)
  BY <1>1 DEF PlainOp, ListOp, Indexed, PlainUses, LooksUp, Entry, Op,
         op_requires_bin, op_requires_index, op_requires_val
<1> QED BY <1>1, <1>2 DEF Uses

(* zval_to_as_val makes a value of nothing but what the reference calls     *)
(* convertible, and with a clear as_error of all of that.  It leaves a part *)
(* of a container only in the two named cases.                              *)
LEMMA Conversion ==
  ASSUME NEW k \in Kind
  PROVE  /\ Made(k) => k \in Convertible
         /\ ConvertOk(k) => k \in Convertible
         /\ err = "OK" => (Made(k) <=> k \in Convertible) /\ (ConvertOk(k) <=> k \in Convertible)
         /\ LeavesPart(k) => k \in {"badmap", "badmaps"} \/ err # "OK"
  BY DEF Made, ConvertOk, LeavesPart, Kind, Convertible, Long, String, Array, List

(* What add_op_to_operations insists on before it adds a plain operation.   *)
Right1(a) == PlainChecked(a) /\ (a.op \in op_requires_as_val => a.e["val"] \in Convertible)

(* The checks of add_op_to_operations pass for exactly the well-formed      *)
(* arrays, and for a list of unconvertible items.                           *)
LEMMA PlainRight ==
  ASSUME NEW a \in Asking, a.op \notin op_is_map_op, a.op # "TOUCH"
  PROVE  /\ WellFormed(a) => Right1(a)
         /\ Right1(a) => WellFormed(a) \/ BadItems(a)
<1> DEFINE op == a.op
           e == a.e
<1>1. /\ op \in Op /\ op # "TOUCH" /\ op \notin op_is_map_op
      /\ e \in [Entry -> Kind]
  BY DEF Asking
<1>2. op \in PlainOp <=> op # "unknown"
  BY <1>1 DEF Op, PlainOp, ListOp, Indexed
<1>3. CASE op = "unknown"
  BY <1>2, <1>3 DEF PlainChecked, WellFormed, Right1
<1>4. CASE op # "unknown"
  <2>1. op \in PlainOp
    BY <1>2, <1>4
  <2>2. Uses(op) = LooksUp(op)
    BY <2>1, PlainTables
  <2>3. "bin" \in Entry /\ "index" \in Entry /\ "val" \in Entry
    BY DEF Entry
  <2>4. /\ "bin" \in Uses(op) <=> op \in op_requires_bin
        /\ "index" \in Uses(op) <=> op \in op_requires_index
        /\ "val" \in Uses(op) <=> op \in op_requires_val
        /\ Uses(op) \subseteq {"bin", "index", "val"}
    BY <1>1, <2>2, <2>3 DEF LooksUp
  <2>5. WellFormed(a) <=> /\ op \in op_requires_bin => e["bin"] \in {"string", "numeric"}
                          /\ op \in op_requires_index => e["index"] \in Long
                          /\ op \in op_requires_val => e["val"] \in RightVal(op)
    BY <1>1, <1>4, <2>4 DEF WellFormed, Right
  <2>6. bin_ok(a) <=> (op \in op_requires_bin => e["bin"] \in {"string", "numeric"})
    BY <2>2, <2>4 DEF bin_ok
  <2>7. e["val"] \in Kind
    BY <1>1, <2>3
  <2>9. (op \in op_requires_val => e["val"] \in RightVal(op)) =>
          /\ op \in op_requires_val => e["val"] # "absent"
          /\ op \in op_requires_list_val => e["val"] \in List
          /\ op \in op_requires_long_val => e["val"] \in Long
          /\ op = "INCR" => e["val"] \in Long \cup {"double", "numeric"}
          /\ op \in {"PREPEND", "APPEND"} => e["val"] \in String
          /\ op \in op_requires_as_val => e["val"] \in Convertible
    BY <2>1, <2>7 DEF PlainOp, ListOp, Indexed, Op, op_requires_val, op_requires_list_val, op_requires_long_val,
                op_requires_as_val, RightVal, Convertible, Long, String, List
  <2>10. ASSUME op \in op_requires_val => e["val"] # "absent",
                op \in op_requires_list_val => e["val"] \in List,
                op \in op_requires_long_val => e["val"] \in Long,
                op = "INCR" => e["val"] \in Long \cup {"double", "numeric"},
                op \in {"PREPEND", "APPEND"} => e["val"] \in String,
                op \in op_requires_as_val => e["val"] \in Convertible,
                op \in op_requires_val
         PROVE  e["val"] \in RightVal(op) \/ BadItems(a)
    BY <2>1, <2>10 DEF PlainOp, ListOp, Indexed, Op, op_requires_val, op_requires_list_val,
             op_requires_long_val, op_requires_as_val, RightVal, BadItems, List
  <2> QED
    BY <2>1, <2>5, <2>6, <2>9, <2>10 DEF PlainChecked, Right1
<1> QED BY <1>3, <1>4

(* The getters, conversions and shape tests of add_map_op_to_operations     *)
(* pass for exactly the well-formed arrays.                                 *)
LEMMA MapRight ==
  ASSUME NEW a \in Asking, a.op \in op_is_map_op
  PROVE  /\ WellFormed(a) <=> /\ MapChecked(a)
                              /\ \A x \in Converted(a) : a.e[x] \in Convertible
                              /\ ShapeOk(a)
         /\ ~BadItems(a)
<1> DEFINE op == a.op
           e == a.e
           L == MapLooksUp(op)
<1>1. op \in op_is_map_op /\ e \in [Entry -> Kind]
  BY DEF Asking
<1>2. Uses(op) = L /\ LooksUp(op) = L /\ op \in Op \ {"unknown"}
  BY <1>1, MapTables DEF LooksUp, Op, op_is_map_op, RemoveBy, GetBy
<1>3. L \subseteq Entry /\ "ttl" \notin L /\ "bin" \in L
  BY DEF MapLooksUp, Entry
<1>4. WellFormed(a) <=> \A x \in L : e[x] \in Right(op, x)
  BY <1>2 DEF WellFormed
<1>7. "val" \in L => (e["val"] \in Right(op, "val") <=>
        /\ e["val"] \in Convertible
        /\ op = "MAP_PUT_ITEMS" => e["val"] = "map"
        /\ op = "MAP_REMOVE_BY_VALUE_LIST" => e["val"] = "list")
  <2>1. "val" \in L => op \in map_op_requires_val
    BY DEF MapLooksUp
  <2> QED BY <2>1 DEF map_op_requires_val, Right, RightVal, Convertible
<1>8. e["key"] \in Right(op, "key") <=>
        /\ e["key"] \in Convertible
        /\ op = "MAP_REMOVE_BY_KEY_LIST" => e["key"] = "list"
  BY DEF Right, Convertible
<1>9. /\ op = "MAP_PUT_ITEMS" => "val" \in L
      /\ op = "MAP_REMOVE_BY_VALUE_LIST" => "val" \in L
      /\ op = "MAP_REMOVE_BY_KEY_LIST" => "key" \in L
  BY DEF MapLooksUp, Entry, map_op_requires_val, map_op_requires_key
<1>10. \A x \in L : x \in {"bin", "index", "rank", "return_type", "count", "map_policy", "key", "range_end", "val"}
  BY DEF MapLooksUp
<1>11. ASSUME WellFormed(a)
       PROVE  MapChecked(a) /\ (\A x \in Converted(a) : a.e[x] \in Convertible) /\ ShapeOk(a)
  <2>1. \A x \in L : e[x] \in Right(op, x)
    BY <1>4, <1>11
  <2>2. MapChecked(a)
    BY <1>2, <2>1 DEF MapChecked, bin_ok, Right, get_index_or_rank_from_op_hash,
       get_return_type_from_op_hash, get_count_from_op_hash, zval_to_as_policy_map
  <2>3. ShapeOk(a)
    BY <1>7, <1>8, <1>9, <2>1 DEF ShapeOk
  <2>4. \A x \in Converted(a) : x \in L /\ e[x] \in Convertible
    BY <1>7, <1>8, <2>1 DEF Converted, Right
  <2> QED BY <2>2, <2>3, <2>4
<1>12. ASSUME MapChecked(a), \A x \in Converted(a) : a.e[x] \in Convertible, ShapeOk(a)
       PROVE  WellFormed(a)
  <2>1. \A x \in {"key", "range_end", "val"} : x \in L => e[x] \in Convertible
    BY <1>12 DEF Converted
  <2>2. \A x \in {"bin", "index", "rank", "return_type", "count", "map_policy"} : x \in L => e[x] \in Right(op, x)
    BY <1>2, <1>12 DEF MapChecked, bin_ok, Right, get_index_or_rank_from_op_hash,
       get_return_type_from_op_hash, get_count_from_op_hash, zval_to_as_policy_map
  <2>3. \A x \in {"key", "range_end", "val"} : x \in L => e[x] \in Right(op, x)
    BY <1>7, <1>8, <1>12, <2>1 DEF ShapeOk, Right
  <2> QED BY <1>4, <1>10, <2>2, <2>3
<1>13. ~BadItems(a)
  BY <1>1 DEF BadItems, op_requires_list_val, op_is_map_op, RemoveBy, GetBy
<1> QED BY <1>11, <1>12, <1>13

(* What is handed to the library for an array is what the array asks for,   *)
(* without its list where that could not be made.                           *)
LEMMA RequestIsWanted ==
  ASSUME NEW a \in Asking, a.op # "unknown", NEW listless \in BOOLEAN,
         listless <=> a.op \in op_requires_list_val /\ ~Made(a.e["val"])
  PROVE  Request(a) \in Sent /\ Request(a) = Wanted(a, listless)
<1>1. a.op \in Op /\ a.e \in [Entry -> Kind]
  BY DEF Asking
<1>2. Uses(a.op) = LooksUp(a.op)
  BY <1>1, MapTables, PlainTables DEF Op
<1>3. LooksUp(a.op) \subseteq Entry
  BY DEF LooksUp, MapLooksUp, Entry
<1>4. \A x \in Uses(a.op) : a.e[x] \in Kind
  BY <1>1, <1>2, <1>3
<1> DEFINE D == Uses(a.op) \ {"ttl"}
           f == [x \in D |->
               IF x \notin LooksUp(a.op) THEN "unset"
               ELSE IF a.op \in op_requires_list_val /\ x = "val" /\ ~Made(a.e["val"]) THEN "null"
               ELSE a.e[x]]
           g == [x \in D |-> IF listless /\ x = "val" THEN "null" ELSE a.e[x]]
<1>5. g \in [D -> Kind \cup {"unset", "null"}]
  BY <1>4
<1>6. f = g
  BY <1>2
<1>7. Request(a) = [op |-> a.op, args |-> f] /\ Wanted(a, listless) = [op |-> a.op, args |-> g]
  BY DEF Request, Wanted
<1>8. [op |-> a.op, args |-> g] \in Sent
  <2> HIDE DEF g
  <2> QED BY <1>1, <1>5 DEF Sent
<1> HIDE DEF f, g
<1> QED BY <1>6, <1>7, <1>8

(* The places of the operations of a call are within its request.           *)
LEMMA PlaceFacts ==
  ASSUME NEW S, NEW s \in Seq(S), NEW i \in 0..Len(s)
  PROVE  /\ Place(s, i) \in Nat /\ Place(s, i) <= Place(s, Len(s))
         /\ i > 0 /\ Kept(s[i]) => Place(s, i) > 0
<1> DEFINE T(n) == {j \in 1..n : Kept(s[j])}
<1>1. \A n \in 0..Len(s) : IsFiniteSet(T(n))
  <2> TAKE n \in 0..Len(s)
  <2>1. IsFiniteSet(1..n)
    BY FS_Interval
  <2> QED BY <2>1, FS_Subset
<1>2. Len(s) \in Nat
  OBVIOUS
<1>3. T(i) \subseteq T(Len(s))
  BY <1>2
<1>4. Cardinality(T(i)) \in Nat /\ Cardinality(T(i)) <= Cardinality(T(Len(s)))
  BY <1>1, <1>2, <1>3, FS_Subset, FS_CardinalityType
<1>5. ASSUME i > 0, Kept(s[i]) PROVE Cardinality(T(i)) > 0
  <2>1. i \in T(i)
    BY <1>5
  <2>2. Cardinality(T(i)) # 0
    BY <1>1, <2>1, FS_EmptySet
  <2> QED BY <1>4, <2>2
<1> QED BY <1>4, <1>5 DEF Place

(* One more array does not move the places of the others, and takes the     *)
(* next one unless it asks for nothing.                                     *)
LEMMA PlaceAppend ==
  ASSUME NEW S, NEW s \in Seq(S), NEW a \in S
  PROVE  /\ \A i \in 0..Len(s) : Place(Append(s, a), i) = Place(s, i)
         /\ Place(Append(s, a), Len(s) + 1) =
              IF Kept(a) THEN Place(s, Len(s)) + 1 ELSE Place(s, Len(s))
<1> DEFINE t == Append(s, a)
           T(n) == {j \in 1..n : Kept(s[j])}
           n == Len(s)
<1>1. n \in Nat /\ t[n + 1] = a /\ \A j \in 1..n : t[j] = s[j]
  OBVIOUS
<1> HIDE DEF t
<1>2. \A i \in 0..n : {j \in 1..i : Kept(t[j])} = T(i)
  BY <1>1
<1>3. {j \in 1..(n + 1) : Kept(t[j])} = IF Kept(a) THEN T(n) \cup {n + 1} ELSE T(n)
  BY <1>1
<1>4. IsFiniteSet(T(n)) /\ n + 1 \notin T(n)
  <2>1. IsFiniteSet(1..n)
    BY <1>1, FS_Interval
  <2> QED BY <1>1, <2>1, FS_Subset
<1>5. Cardinality(T(n) \cup {n + 1}) = Cardinality(T(n)) + 1
  BY <1>4, FS_AddElement
<1>6. \A i \in 0..n : Place(t, i) = Place(s, i)
  BY <1>2 DEF Place
<1>7. Place(t, n + 1) = IF Kept(a) THEN Place(s, n) + 1 ELSE Place(s, n)
  BY <1>3, <1>5 DEF Place
<1> QED BY <1>6, <1>7 DEF t

(* The operations of a request are of its type, one more is too.            *)
LEMMA AppendSent ==
  ASSUME NEW S, NEW s \in Seq(S), NEW x \in S
  PROVE  Append(s, x) \in Seq(S)
  OBVIOUS

(* The handler added the array, or dropped it where it asks for nothing.    *)
(* The as_error is set only by a list of unconvertible items, or was set    *)
(* before.                                                                  *)
GoesOn(a) ==
  /\ phase' = phase /\ refused' = refused /\ twice' = twice
  /\ leaked' \subseteq leaked \cup {a.op}
  /\ leaked' = leaked \/ HasBadMap(a) \/ err # "OK"
  /\ err' \in {"OK", "PARAM", "CLIENT"} /\ (err' = "OK" <=> err = "OK" /\ ~BadItems(a))
  /\ WellFormed(a) \/ BadItems(a)
  /\ ops' \in Seq(Sent)
  /\ ops' = IF Kept(a)
            THEN Append(ops, Wanted(a, a.op \in op_requires_list_val /\ (err # "OK" \/ BadItems(a))))
            ELSE ops
  /\ ttl' \in Long \cup {"unset"} /\ ttl' = IF Touches(a) THEN a.e["ttl"] ELSE ttl

(* The handler ended the call: for the array itself, an error that stood    *)
(* before it, or the library.                                               *)
Stops(a) ==
  /\ phase' = "failed" /\ err' \in {"OK", "PARAM", "CLIENT"} /\ ops' \in Seq(Sent) /\ ttl' = ttl
  /\ refused' = refused \/ refused' = TRUE
  /\ refused' = TRUE \/ ~WellFormed(a) \/ (StoppedByOldError(a) /\ err # "OK")
  /\ leaked' \subseteq leaked \cup {a.op}
  /\ leaked' = leaked \/ HasBadMap(a) \/ err # "OK" \/ (refused' = TRUE /\ a.op \in ListOp)
  /\ twice' \subseteq twice \cup {a.op}
  /\ twice' = twice \/ (err # "OK" /\ a.op \in op_is_map_op)

(* The touch case of the loop either goes on or stops.                      *)
LEMMA Touch ==
  ASSUME TypeOK, NEW a \in Asking, AddTouch(a)
  PROVE  asked' = Append(asked, a) /\ UNCHANGED <<option, method, keys>> /\ (GoesOn(a) \/ Stops(a))
<1>1. a.op = "TOUCH" /\ a.op # "unknown" /\ a.op \in PlainOp /\ ~BadItems(a) /\ a.op \notin op_requires_list_val
  BY DEF AddTouch, PlainOp, BadItems, op_requires_list_val
<1>2. Request(a) = Wanted(a, FALSE) /\ Request(a) \in Sent
  BY <1>1, RequestIsWanted
<1>3. Uses(a.op) = {"ttl"} /\ a.op \in Op
  BY <1>1, PlainTables DEF LooksUp, Asking
<1>4. WellFormed(a) <=> a.e["ttl"] \in Long \cup {"absent"}
  BY <1>1, <1>3 DEF WellFormed, Right
<1>5. (Kept(a) <=> a.e["ttl"] # "absent") /\ (Touches(a) <=> a.e["ttl"] # "absent")
  BY <1>1 DEF Kept, Touches
<1>6. "absent" \notin Long
  BY DEF Long
<1>7. CASE a.e["ttl"] = "absent"
  BY <1>1, <1>4, <1>5, <1>6, <1>7 DEF AddTouch, TypeOK, GoesOn
<1>8. CASE a.e["ttl"] \notin Long \cup {"absent"}
  BY <1>1, <1>4, <1>5, <1>8 DEF AddTouch, Refuse, Leak, TypeOK, Stops
<1>9. CASE a.e["ttl"] \in Long
  <2>1. Accept(a) /\ ttl' = a.e["ttl"] /\ UNCHANGED <<err, refused, leaked, twice>>
    BY <1>6, <1>9 DEF AddTouch
  <2>2. Kept(a) /\ Touches(a) /\ WellFormed(a)
    BY <1>4, <1>5, <1>6, <1>9
  <2>3. ops' = Append(ops, Wanted(a, FALSE)) /\ ops' \in Seq(Sent)
    <3>1. ops \in Seq(Sent) /\ ops' = Append(ops, Request(a))
      BY <2>1 DEF Accept, TypeOK
    <3> QED BY <1>2, <3>1, AppendSent, Zenon
  <2> QED BY <1>1, <1>9, <2>1, <2>2, <2>3 DEF Accept, TypeOK, GoesOn
<1> QED BY <1>7, <1>8, <1>9

(* add_op_to_operations on any other plain operation either goes on or      *)
(* stops.                                                                   *)
LEMMA Plain ==
  ASSUME TypeOK, NEW a \in Asking, NEW accepted \in BOOLEAN, AddPlain(a, accepted)
  PROVE  asked' = Append(asked, a) /\ UNCHANGED <<option, method, keys>> /\ (GoesOn(a) \/ Stops(a))
<1> DEFINE v == a.e["val"]
           valued == a.op \in op_requires_as_val
           listed == a.op \in op_requires_list_val
           made == (valued \/ listed) /\ Made(v)
           part == (valued \/ listed) /\ LeavesPart(v)
           ready == valued => made /\ err = "OK"
<1>1. a.op \notin op_is_map_op /\ a.op # "TOUCH" /\ a.op \in Op /\ Kept(a) /\ ~Touches(a)
  BY DEF AddPlain, Kept, Touches, Asking
<1>2. /\ WellFormed(a) => Right1(a)
      /\ Right1(a) => WellFormed(a) \/ BadItems(a)
  BY <1>1, PlainRight
<1>3. PlainChecked(a) => a.op # "unknown"
  BY DEF PlainChecked, PlainOp, ListOp, Indexed
<1>4. PlainChecked(a) => Request(a) \in Sent /\ Request(a) = Wanted(a, listed /\ ~Made(v))
  BY <1>3, RequestIsWanted
<1>5. v \in Kind /\ "val" \in Entry
  BY DEF Asking, Entry
<1>6. /\ Made(v) => v \in Convertible
      /\ err = "OK" /\ v \in Convertible => Made(v)
      /\ part => HasBadMap(a) \/ err # "OK"
  BY <1>5, Conversion DEF HasBadMap
<1>7. PlainChecked(a) /\ listed => (~Made(v) <=> err # "OK" \/ BadItems(a))
  BY DEF PlainChecked, BadItems, Made, List, Array
<1>8. valued \/ listed => a.op = "WRITE" \/ a.op \in ListOp
  BY DEF op_requires_as_val, op_requires_list_val, ListOp, Indexed
<1>9. CASE ~PlainChecked(a)
  <2>1. Refuse(a, "PARAM", FALSE) /\ UNCHANGED refused
    BY <1>9 DEF AddPlain
  <2> QED BY <1>2, <1>9, <2>1 DEF Right1, Refuse, Leak, Stops, TypeOK
<1>10. CASE PlainChecked(a) /\ ~ready
  <2>1. Refuse(a, "PARAM", made \/ part) /\ UNCHANGED refused
    BY <1>10 DEF AddPlain
  <2>2. err = "OK" => ~made /\ ~WellFormed(a)
    BY <1>2, <1>6, <1>10 DEF Right1
  <2>3. StoppedByOldError(a)
    BY <1>10 DEF StoppedByOldError
  <2> HIDE DEF made, part
  <2> QED BY <1>6, <2>1, <2>2, <2>3 DEF Refuse, Leak, Stops, TypeOK
<1>11. CASE PlainChecked(a) /\ ready /\ ~accepted
  <2>1. Refuse(a, "CLIENT", (made /\ a.op # "WRITE") \/ part) /\ refused' = TRUE
    BY <1>11 DEF AddPlain
  <2>2. made /\ a.op # "WRITE" => a.op \in ListOp
    BY <1>8
  <2> HIDE DEF made, part
  <2> QED BY <1>6, <2>1, <2>2 DEF Refuse, Leak, Stops, TypeOK
<1>12. CASE PlainChecked(a) /\ ready /\ accepted
  <2>1. /\ Accept(a)
        /\ err' = IF listed /\ ~made THEN "PARAM" ELSE err
        /\ Leak(a, part)
        /\ UNCHANGED <<ttl, refused, twice>>
    BY <1>12 DEF AddPlain
  <2>2. err' \in {"OK", "PARAM", "CLIENT"} /\ (err' = "OK" <=> err = "OK" /\ ~BadItems(a))
    <3>1. listed /\ ~made => err' = "PARAM"
      BY <2>1
    <3>2. ~(listed /\ ~made) => err' = err
      BY <2>1
    <3>3. err \in {"OK", "PARAM", "CLIENT"}
      BY DEF TypeOK
    <3>4. BadItems(a) => listed
      BY DEF BadItems
    <3> QED BY <1>7, <1>12, <3>1, <3>2, <3>3, <3>4
  <2>3. WellFormed(a) \/ BadItems(a)
    BY <1>2, <1>6, <1>12 DEF Right1
  <2>4. (listed /\ ~Made(v)) = (listed /\ (err # "OK" \/ BadItems(a)))
    BY <1>7, <1>12
  <2>5. ops' = Append(ops, Wanted(a, listed /\ (err # "OK" \/ BadItems(a)))) /\ ops' \in Seq(Sent)
    BY <1>4, <1>12, <2>1, <2>4 DEF Accept, TypeOK
  <2>6. /\ phase' = phase /\ ttl' = ttl /\ refused' = refused /\ twice' = twice
        /\ asked' = Append(asked, a) /\ UNCHANGED <<option, method, keys>>
    BY <2>1 DEF Accept
  <2>7. leaked' \subseteq leaked \cup {a.op} /\ (leaked' = leaked \/ HasBadMap(a) \/ err # "OK")
    <3> HIDE DEF part
    <3> QED BY <1>6, <2>1 DEF Leak
  <2> HIDE DEF made, part
  <2> QED BY <1>1, <2>2, <2>3, <2>5, <2>6, <2>7 DEF GoesOn, TypeOK
<1> QED BY <1>9, <1>10, <1>11, <1>12

(* add_map_op_to_operations either goes on or stops.                        *)
LEMMA MapOperation ==
  ASSUME TypeOK, NEW a \in Asking, NEW accepted \in BOOLEAN, phase = "adding", AddMap(a, accepted)
  PROVE  asked' = Append(asked, a) /\ UNCHANGED <<option, method, keys>> /\ (GoesOn(a) \/ Stops(a))
<1> DEFINE right == MapChecked(a) /\ (\A x \in Converted(a) : ConvertOk(a.e[x])) /\ ShapeOk(a)
           part == MapChecked(a) /\ \E x \in Converted(a) : FailsFirst(a, x) /\ LeavesPart(a.e[x])
           code == IF accepted THEN err ELSE "CLIENT"
<1>1. a.op \in op_is_map_op /\ a.op \in Op /\ Kept(a) /\ ~Touches(a) /\ a.op # "unknown" /\ a.op \notin op_requires_list_val
  BY DEF AddMap, Kept, Touches, Asking, op_is_map_op, RemoveBy, GetBy, op_requires_list_val
<1>2. Request(a) = Wanted(a, FALSE) /\ Request(a) \in Sent
  BY <1>1, RequestIsWanted
<1>3. \A x \in Converted(a) : x \in Entry /\ a.e[x] \in Kind
  BY DEF Converted, MapLooksUp, Asking
<1>4. /\ right => WellFormed(a)
      /\ err = "OK" /\ WellFormed(a) => right
      /\ ~BadItems(a)
      /\ part => HasBadMap(a) \/ err # "OK"
  BY <1>1, <1>3, MapRight, Conversion DEF HasBadMap
<1>5. StoppedByOldError(a)
  BY <1>1 DEF StoppedByOldError
<1>6. CASE ~right
  <2>1. Refuse(a, "PARAM", part) /\ UNCHANGED refused
    BY <1>6 DEF AddMap
  <2> HIDE DEF right, part
  <2> QED BY <1>4, <1>5, <1>6, <2>1 DEF Refuse, Leak, Stops, TypeOK
<1>7. CASE right
  <2>1. /\ asked' = Append(asked, a)
        /\ ops' = IF accepted THEN Append(ops, Request(a)) ELSE ops
        /\ twice' = IF accepted /\ FreedAtCleanup(code) /\ Converted(a) # {}
                    THEN twice \cup {a.op} ELSE twice
        /\ err' = code
        /\ phase' = IF code = "OK" THEN phase ELSE "failed"
        /\ refused' = (refused \/ ~accepted)
        /\ UNCHANGED <<option, method, keys, ttl, leaked>>
    BY <1>7 DEF AddMap
  <2> HIDE DEF right
  <2>2. CASE ~accepted
    <3>1. /\ ops' = ops /\ twice' = twice /\ err' = "CLIENT" /\ phase' = "failed" /\ leaked' = leaked
      BY <2>1, <2>2
    <3>2. refused' = TRUE
      BY <2>1, <2>2
    <3> QED BY <2>1, <3>1, <3>2 DEF Stops, TypeOK
  <2>3. CASE accepted
    <3>1. ops' = Append(ops, Wanted(a, FALSE)) /\ ops' \in Seq(Sent) /\ err' = err /\ leaked' = leaked
      <4>1. ops \in Seq(Sent)
        BY DEF TypeOK
      <4>2. ops' = Append(ops, Request(a)) /\ err' = err /\ leaked' = leaked
        BY <2>1, <2>3
      <4> QED BY <1>2, <4>1, <4>2, AppendSent, Zenon
    <3>2. refused' = refused
      <4>1. refused \in BOOLEAN
        BY DEF TypeOK
      <4> QED BY <2>1, <2>3, <4>1, Zenon
    <3>3. CASE err = "OK"
      <4>1. twice' = twice /\ phase' = phase
        BY <2>1, <2>3, <3>3 DEF FreedAtCleanup
      <4> QED BY <1>1, <1>4, <1>7, <2>1, <3>1, <3>2, <3>3, <4>1 DEF GoesOn, TypeOK
    <3>4. CASE err # "OK"
      <4>1. twice' \subseteq twice \cup {a.op} /\ phase' = "failed"
        BY <2>1, <2>3, <3>4
      <4> QED BY <1>1, <1>5, <2>1, <3>1, <3>2, <3>4, <4>1 DEF Stops, TypeOK
    <3> QED BY <3>3, <3>4
  <2> QED BY <2>2, <2>3
<1> QED BY <1>6, <1>7

(* What one more array means for the statements about all of them.          *)
LEMMA Appended ==
  ASSUME TypeOK, NEW a \in Asking \cup {NoOperation}, asked' = Append(asked, a)
  PROVE  /\ asked' \in Seq(Asking \cup {NoOperation}) /\ asked' # <<>>
         /\ Len(asked) \in Nat /\ Len(asked') = Len(asked) + 1
         /\ asked'[Len(asked) + 1] = a /\ \A i \in 1..Len(asked) : asked'[i] = asked[i]
         /\ \A i \in 0..Len(asked) : BadItemsUpTo(i)' <=> BadItemsUpTo(i)
         /\ \A k : k = Len(asked) + 1 => (BadItemsUpTo(k)' <=> ~NoBadItems \/ BadItems(a))
         /\ NoBadItems' <=> NoBadItems /\ ~BadItems(a)
<1>1. asked \in Seq(Asking \cup {NoOperation})
  BY DEF TypeOK
<1>2. /\ Len(asked) \in Nat /\ Len(asked') = Len(asked) + 1
      /\ asked' \in Seq(Asking \cup {NoOperation}) /\ asked' # <<>>
      /\ asked'[Len(asked) + 1] = a /\ \A i \in 1..Len(asked) : asked'[i] = asked[i]
  BY <1>1
<1>3. \A i \in 0..Len(asked) : BadItemsUpTo(i)' <=> BadItemsUpTo(i)
  BY <1>2 DEF BadItemsUpTo
<1>4. \A i \in 1..(Len(asked) + 1) : i \in 1..Len(asked) \/ i = Len(asked) + 1
  BY <1>2
<1>5. 1..Len(asked) \subseteq 1..(Len(asked) + 1) /\ Len(asked) + 1 \in 1..(Len(asked) + 1)
  BY <1>2
<1>6. ASSUME NEW k, k = Len(asked) + 1
      PROVE  BadItemsUpTo(k)' <=> ~NoBadItems \/ BadItems(a)
  BY <1>2, <1>4, <1>5, <1>6 DEF BadItemsUpTo, NoBadItems
<1>7. NoBadItems' <=> NoBadItems /\ ~BadItems(a)
  BY <1>2, <1>4, <1>5 DEF NoBadItems, BadItemsUpTo
<1> QED BY <1>2, <1>3, <1>6, <1>7

(* A request that holds what was asked so far still does when an array and  *)
(* its operation are appended.                                              *)
LEMMA MatchesGrows ==
  ASSUME TypeOK, Matches, NEW a \in Asking, asked' = Append(asked, a), NEW listless,
         listless = (a.op \in op_requires_list_val /\ (~NoBadItems \/ BadItems(a))),
         ops' = IF Kept(a) THEN Append(ops, Wanted(a, listless)) ELSE ops
  PROVE  Matches'
<1> DEFINE S == Asking \cup {NoOperation}
           n == Len(asked)
           w(i) == Wanted(asked[i], Listless(i))
<1>1. asked \in Seq(S) /\ a \in S /\ ops \in Seq(Sent)
  BY DEF TypeOK
<1>2. /\ n \in Nat /\ Len(asked') = n + 1
      /\ asked'[n + 1] = a /\ \A i \in 1..n : asked'[i] = asked[i]
      /\ \A i \in 0..n : BadItemsUpTo(i)' <=> BadItemsUpTo(i)
      /\ \A k : k = n + 1 => (BadItemsUpTo(k)' <=> ~NoBadItems \/ BadItems(a))
  BY <1>1, Appended
<1> HIDE DEF S
<1>3. /\ \A i \in 0..n : Place(asked', i) = Place(asked, i)
      /\ Place(asked', n + 1) = IF Kept(a) THEN Place(asked, n) + 1 ELSE Place(asked, n)
  BY <1>1, PlaceAppend
<1>4. \A i \in 0..n : /\ Place(asked, i) \in Nat /\ Place(asked, i) <= Place(asked, n)
                      /\ i > 0 /\ Kept(asked[i]) => Place(asked, i) > 0
  BY <1>1, PlaceFacts
<1>5. Len(ops) = Place(asked, n) /\ \A i \in 1..n : Kept(asked[i]) => ops[Place(asked, i)] = w(i)
  BY DEF Matches
<1>w. /\ \A i \in 1..n : w(i)' = w(i)
      /\ \A k : k = n + 1 => w(k)' = Wanted(a, listless)
  <2>1. \A i \in 1..n : Listless(i)' = Listless(i)
    <3> TAKE i \in 1..n
    <3>1. i \in 0..n /\ asked'[i] = asked[i]
      BY <1>2
    <3>2. BadItemsUpTo(i)' <=> BadItemsUpTo(i)
      BY <1>2, <3>1
    <3> QED BY <3>1, <3>2 DEF Listless
  <2>2. ASSUME NEW k, k = n + 1 PROVE Listless(k)' = listless
    BY <1>2, <2>2 DEF Listless
  <2> QED BY <1>2, <2>1, <2>2
<1>m. Matches' <=> /\ Len(ops') = Place(asked', n + 1)
                   /\ \A i \in 1..(n + 1) : Kept(asked'[i]) => ops'[Place(asked', i)] = w(i)'
  BY <1>2 DEF Matches
<1> HIDE DEF w
<1>6. CASE ~Kept(a)
  <2>1. ops' = ops
    BY <1>6
  <2>2. Len(ops') = Place(asked', n + 1)
    BY <1>3, <1>5, <1>6, <2>1
  <2>3. ASSUME NEW i \in 1..(n + 1), Kept(asked'[i]) PROVE ops'[Place(asked', i)] = w(i)'
    <3>1. i \in 1..n
      BY <1>2, <1>6, <2>3
    <3> QED BY <1>2, <1>3, <1>5, <1>w, <2>1, <2>3, <3>1
  <2> QED BY <1>m, <2>2, <2>3
<1>7. CASE Kept(a)
  <2> DEFINE u == Wanted(a, listless)
  <2>1. /\ Len(ops') = Len(ops) + 1 /\ ops'[Len(ops) + 1] = u
        /\ \A k \in 1..Len(ops) : ops'[k] = ops[k]
    <3>1. ops' = Append(ops, u)
      BY <1>7
    <3> HIDE DEF u
    <3> QED BY <1>1, <3>1
  <2>2. Len(ops') = Place(asked', n + 1)
    BY <1>3, <1>5, <1>7, <2>1
  <2>3. ASSUME NEW i \in 1..n, Kept(asked'[i]) PROVE ops'[Place(asked', i)] = w(i)'
    <3>1. Kept(asked[i]) /\ i \in 0..n /\ i > 0
      BY <1>2, <2>3
    <3>2. Place(asked, i) \in 1..Len(ops) /\ Place(asked', i) = Place(asked, i)
      BY <1>3, <1>4, <1>5, <3>1
    <3> QED BY <1>5, <1>w, <2>1, <3>1, <3>2
  <2>4. ASSUME NEW i, i = n + 1 PROVE ops'[Place(asked', i)] = w(i)'
    BY <1>3, <1>5, <1>7, <1>w, <2>1, <2>4
  <2>5. \A i \in 1..(n + 1) : i \in 1..n \/ i = n + 1
    BY <1>2
  <2> QED BY <1>m, <2>2, <2>3, <2>4, <2>5
<1> QED BY <1>6, <1>7

(* A touch that is appended sets the ttl of the request, any other array    *)
(* leaves it.                                                               *)
LEMMA TtlGrows ==
  ASSUME TypeOK, TtlIsLast, NEW a \in Asking, asked' = Append(asked, a), option' = option,
         ttl' = IF Touches(a) THEN a.e["ttl"] ELSE ttl
  PROVE  TtlIsLast'
<1> DEFINE n == Len(asked)
<1>1. /\ n \in Nat /\ Len(asked') = n + 1
      /\ asked'[n + 1] = a /\ \A i \in 1..n : asked'[i] = asked[i]
  BY Appended
<1>2. \A i \in 1..(n + 1) : i \in 1..n \/ i = n + 1
  BY <1>1
<1>3. n + 1 \in 1..(n + 1) /\ 1..n \subseteq 1..(n + 1)
  BY <1>1
<1>4. CASE Touches(a)
  <2>1. \A j \in 1..(n + 1) : ~(j > n + 1)
    BY <1>1
  <2> QED BY <1>1, <1>3, <1>4, <2>1 DEF TtlIsLast
<1>5. CASE ~Touches(a)
  <2>1. CASE ttl = option /\ \A i \in 1..n : ~Touches(asked[i])
    BY <1>1, <1>2, <1>5, <2>1 DEF TtlIsLast
  <2>2. ASSUME NEW i \in 1..n, Touches(asked[i]), ttl = asked[i].e["ttl"],
               \A j \in 1..n : j > i => ~Touches(asked[j])
        PROVE  TtlIsLast'
    <3>1. \A j \in 1..(n + 1) : j > i => ~Touches(asked'[j])
      BY <1>1, <1>2, <1>5, <2>2
    <3> QED BY <1>1, <1>3, <1>5, <2>2, <3>1 DEF TtlIsLast
  <2> QED BY <2>1, <2>2 DEF TtlIsLast
<1> QED BY <1>4, <1>5

(* The inductive invariant. *)
FullInv == OperateInv /\ RefusedForCause /\ ValuesHaveOneOwner

(* What is leaked stays excused when an array is appended, and what the     *)
(* array leaks is.                                                          *)
LEMMA LeaksGrow ==
  ASSUME TypeOK, ValuesHaveOneOwner, ~refused, NEW a \in Asking \cup {NoOperation},
         asked' = Append(asked, a), leaked' \subseteq leaked \cup {a.op},
         leaked' = leaked \/ HasBadMap(a) \/ ~NoBadItems \/ (refused' = TRUE /\ a.op \in ListOp)
  PROVE  \A o \in leaked' :
           \E i \in 1..Len(asked') :
             /\ asked'[i].op = o
             /\ (refused' /\ o \in ListOp) \/ HasBadMap(asked'[i]) \/ BadItemsUpTo(i - 1)'
<1> DEFINE n == Len(asked)
<1>1. /\ n \in Nat /\ Len(asked') = n + 1
      /\ asked'[n + 1] = a /\ \A i \in 1..n : asked'[i] = asked[i]
      /\ \A i \in 0..n : BadItemsUpTo(i)' <=> BadItemsUpTo(i)
  BY Appended
<1>2. ASSUME NEW o \in leaked
      PROVE  \E i \in 1..Len(asked') :
             /\ asked'[i].op = o
             /\ (refused' /\ o \in ListOp) \/ HasBadMap(asked'[i]) \/ BadItemsUpTo(i - 1)'
  <2>1. PICK i \in 1..n : asked[i].op = o /\ (HasBadMap(asked[i]) \/ BadItemsUpTo(i - 1))
    BY <1>2 DEF ValuesHaveOneOwner
  <2>2. i \in 1..Len(asked') /\ i - 1 \in 0..n /\ asked'[i] = asked[i]
    BY <1>1
  <2>3. BadItemsUpTo(i - 1)' <=> BadItemsUpTo(i - 1)
    BY <1>1, <2>2
  <2> QED BY <2>1, <2>2, <2>3
<1>3. ASSUME HasBadMap(a) \/ ~NoBadItems \/ (refused' = TRUE /\ a.op \in ListOp)
      PROVE  \E i \in 1..Len(asked') :
             /\ asked'[i].op = a.op
             /\ (refused' /\ a.op \in ListOp) \/ HasBadMap(asked'[i]) \/ BadItemsUpTo(i - 1)'
  <2>1. n + 1 \in 1..Len(asked') /\ (n + 1) - 1 = n /\ n \in 0..n
    BY <1>1
  <2>2. ASSUME NEW k, k = n + 1 PROVE BadItemsUpTo(k - 1)' <=> ~NoBadItems
    BY <1>1, <2>1, <2>2 DEF NoBadItems
  <2>3. ASSUME NEW k, k = n + 1
        PROVE  /\ k \in 1..Len(asked') /\ asked'[k].op = a.op
               /\ (refused' /\ a.op \in ListOp) \/ HasBadMap(asked'[k]) \/ BadItemsUpTo(k - 1)'
    BY <1>1, <1>3, <2>1, <2>2, <2>3
  <2> QED BY <2>3
<1>4. \A o \in leaked' : o \in leaked \/ (o = a.op /\ leaked' # leaked)
  OBVIOUS
<1> QED BY <1>2, <1>3, <1>4

(* A handler that goes on or stops keeps the invariant.                     *)
LEMMA Adds ==
  ASSUME FullInv, phase = "adding", NEW a \in Asking, asked' = Append(asked, a),
         UNCHANGED <<option, method, keys>>, GoesOn(a) \/ Stops(a)
  PROVE  FullInv'
<1> DEFINE n == Len(asked)
<1>0. TypeOK /\ ValuesHaveOneOwner
  BY DEF FullInv, OperateInv
<1>1. a \in Asking \cup {NoOperation} /\ a.op \in Op
  BY DEF Asking
<1>2. /\ asked' \in Seq(Asking \cup {NoOperation}) /\ asked' # <<>>
      /\ n \in Nat /\ Len(asked') = n + 1
      /\ asked'[n + 1] = a /\ \A i \in 1..n : asked'[i] = asked[i]
      /\ \A i \in 0..n : BadItemsUpTo(i)' <=> BadItemsUpTo(i)
      /\ NoBadItems' <=> NoBadItems /\ ~BadItems(a)
  BY <1>0, <1>1, Appended
<1>3. /\ ~refused /\ (err = "OK" <=> NoBadItems)
      /\ Matches /\ AllTaken /\ TtlIsLast /\ twice = {}
  BY DEF FullInv, OperateInv, ValuesHaveOneOwner
<1>4. BadItemsUpTo(Len(asked) - 1)' <=> ~NoBadItems
  <2>1. Len(asked') - 1 = n /\ n \in 0..n
    BY <1>2
  <2> QED BY <1>2, <2>1 DEF NoBadItems
<1>5. TypeOK'
  <2>1. refused' \in BOOLEAN
    <3>1. refused \in BOOLEAN
      BY <1>0 DEF TypeOK
    <3>2. CASE GoesOn(a)
      BY <3>1, <3>2 DEF GoesOn
    <3>3. CASE Stops(a)
      BY <3>1, <3>3, Zenon DEF Stops
    <3> QED BY <3>2, <3>3
  <2>2. CASE GoesOn(a)
    BY <1>0, <1>1, <1>2, <2>1, <2>2 DEF GoesOn, TypeOK
  <2>3. CASE Stops(a)
    BY <1>0, <1>1, <1>2, <2>1, <2>3 DEF Stops, TypeOK
  <2> QED BY <2>2, <2>3
<1>6. \A o \in leaked' :
        \E i \in 1..Len(asked') :
          /\ asked'[i].op = o
          /\ (refused' /\ o \in ListOp) \/ HasBadMap(asked'[i]) \/ BadItemsUpTo(i - 1)'
  <2>1. /\ leaked' \subseteq leaked \cup {a.op}
        /\ leaked' = leaked \/ HasBadMap(a) \/ ~NoBadItems \/ (refused' = TRUE /\ a.op \in ListOp)
    BY <1>3 DEF GoesOn, Stops
  <2> QED BY <1>0, <1>3, <2>1, LeaksGrow
<1>7. CASE GoesOn(a)
  <2>1. phase' = "adding" /\ ~refused' /\ (err' = "OK" <=> NoBadItems') /\ twice' = {}
    BY <1>2, <1>3, <1>7 DEF GoesOn
  <2>2. Matches'
    <3>1. ops' = IF Kept(a)
                 THEN Append(ops, Wanted(a, a.op \in op_requires_list_val /\ (~NoBadItems \/ BadItems(a))))
                 ELSE ops
      BY <1>3, <1>7 DEF GoesOn
    <3> QED BY <1>0, <1>3, <3>1, MatchesGrows
  <2>3. TtlIsLast'
    BY <1>0, <1>3, <1>7, TtlGrows DEF GoesOn
  <2>4. AllTaken'
    <3>1. \A i \in 1..(n + 1) : i \in 1..n \/ i = n + 1
      BY <1>2
    <3> QED BY <1>2, <1>3, <1>7, <3>1 DEF GoesOn, AllTaken
  <2>5. RefusedForCause'
    BY <2>1 DEF RefusedForCause
  <2>6. ValuesHaveOneOwner'
    BY <1>6, <2>1 DEF ValuesHaveOneOwner
  <2> QED BY <1>5, <2>1, <2>2, <2>3, <2>4, <2>5, <2>6 DEF FullInv, OperateInv
<1>8. CASE Stops(a)
  <2>1. phase' = "failed"
    BY <1>8 DEF Stops
  <2>2. asked'[Len(asked')] = a
    BY <1>2
  <2>3. RefusedForCause'
    BY <1>3, <1>4, <1>8, <2>2 DEF Stops, RefusedForCause
  <2>4. ValuesHaveOneOwner'
    <3>1. twice' # {} => ~NoBadItems /\ a.op \in op_is_map_op /\ twice' = {a.op}
      BY <1>3, <1>8 DEF Stops
    <3> QED BY <1>4, <1>6, <2>1, <2>2, <3>1 DEF ValuesHaveOneOwner
  <2> QED BY <1>5, <2>1, <2>3, <2>4 DEF FullInv, OperateInv
<1> QED BY <1>7, <1>8

(* Every step of operate and operateOrdered keeps the invariant.            *)
LEMMA OperateStep ==
  ASSUME FullInv, [Next]_vars
  PROVE  FullInv'
<1>0. TypeOK /\ RefusedForCause /\ ValuesHaveOneOwner
  BY DEF FullInv, OperateInv
<1>1. ASSUME UNCHANGED <<option, asked, ops, ttl>>
      PROVE  /\ (NoBadItems' <=> NoBadItems) /\ \A i : BadItemsUpTo(i)' <=> BadItemsUpTo(i)
             /\ (AllTaken' <=> AllTaken) /\ (Matches' <=> Matches) /\ (TtlIsLast' <=> TtlIsLast)
  BY <1>1 DEF NoBadItems, BadItemsUpTo, AllTaken, Matches, Listless, TtlIsLast
<1>2. ASSUME UNCHANGED <<asked, refused, leaked, twice>>, phase' = phase \/ phase = "adding"
      PROVE  ValuesHaveOneOwner'
  <2>1. \A i : BadItemsUpTo(i)' <=> BadItemsUpTo(i)
    BY <1>2 DEF BadItemsUpTo
  <2>2. (twice # {} => phase = "failed") /\ (phase = "adding" => twice = {})
    BY <1>0 DEF ValuesHaveOneOwner
  <2> QED BY <1>0, <1>2, <2>1, <2>2 DEF ValuesHaveOneOwner
<1>3. CASE KeysRefused
  <2>1. /\ UNCHANGED <<option, method, keys, asked, ops, ttl, refused, leaked, twice>>
        /\ err' = "PARAM" /\ phase' = "failed" /\ (asked = <<>> \/ keys = "mixed")
        /\ phase = "adding"
    BY <1>3 DEF KeysRefused
  <2>2. TypeOK'
    BY <1>0, <2>1 DEF TypeOK
  <2>3. ValuesHaveOneOwner'
    BY <1>2, <2>1
  <2> QED BY <2>1, <2>2, <2>3 DEF FullInv, OperateInv, RefusedForCause
<1>4. CASE NotAnOperation
  <2>1. /\ asked' = Append(asked, NoOperation)
        /\ UNCHANGED <<option, method, keys, ops, ttl, refused, leaked, twice>>
        /\ err' = "PARAM" /\ phase' = "failed" /\ phase = "adding"
    BY <1>4 DEF NotAnOperation, Room, Adding
  <2>2. /\ asked' \in Seq(Asking \cup {NoOperation}) /\ asked' # <<>>
        /\ asked'[Len(asked')] = NoOperation
    BY <1>0, <2>1, Appended
  <2>3. ~WellFormed(NoOperation)
    BY DEF WellFormed, NoOperation, Op, PlainOp, ListOp, Indexed, op_is_map_op, RemoveBy, GetBy
  <2>4. TypeOK'
    BY <1>0, <2>1, <2>2 DEF TypeOK
  <2>5. ~refused /\ twice = {}
    BY <2>1 DEF FullInv, OperateInv, ValuesHaveOneOwner
  <2>6. \A o \in leaked' :
           \E i \in 1..Len(asked') :
             /\ asked'[i].op = o
             /\ (refused' /\ o \in ListOp) \/ HasBadMap(asked'[i]) \/ BadItemsUpTo(i - 1)'
    BY <1>0, <2>1, <2>5, LeaksGrow
  <2>7. ValuesHaveOneOwner'
    BY <2>1, <2>5, <2>6 DEF ValuesHaveOneOwner
  <2> QED BY <2>1, <2>2, <2>3, <2>4, <2>7 DEF FullInv, OperateInv, RefusedForCause
<1>5. CASE Send
  <2>1. UNCHANGED <<option, method, keys, asked, ops, ttl, refused, leaked, twice>> /\ phase = "adding"
    BY <1>5 DEF Send, Adding
  <2>2. (asked = <<>> /\ err' = "PARAM" /\ phase' = "failed") \/ (err' = "OK" /\ phase' = "sent")
    BY <1>5 DEF Send
  <2>3. TypeOK'
    BY <1>0, <2>1, <2>2 DEF TypeOK
  <2>4. ValuesHaveOneOwner'
    BY <1>2, <2>1
  <2> QED BY <1>1, <2>1, <2>2, <2>3, <2>4 DEF FullInv, OperateInv, RefusedForCause
<1>6. CASE Room /\ \E a \in Inputs : AddTouch(a)
  BY <1>0, <1>6, Touch, Adds, InputsAssumption DEF Room, Adding
<1>7. CASE Room /\ \E a \in Inputs : \E accepted \in BOOLEAN : AddPlain(a, accepted)
  BY <1>0, <1>7, Plain, Adds, InputsAssumption DEF Room, Adding
<1>8. CASE Room /\ \E a \in Inputs : \E accepted \in BOOLEAN : AddMap(a, accepted)
  BY <1>0, <1>8, MapOperation, Adds, InputsAssumption DEF Room, Adding
<1>9. CASE Done \/ UNCHANGED vars
  <2>1. UNCHANGED vars
    BY <1>9 DEF Done
  <2>2. UNCHANGED <<option, method, keys, asked, ops, ttl, err, phase, refused, leaked, twice>>
    BY <2>1 DEF vars
  <2>3. TypeOK'
    BY <1>0, <2>2 DEF TypeOK
  <2>4. ValuesHaveOneOwner'
    BY <1>2, <2>2
  <2>5. RefusedForCause'
    BY <1>0, <1>1, <2>2 DEF RefusedForCause
  <2> QED BY <1>1, <2>2, <2>3, <2>4, <2>5 DEF FullInv, OperateInv
<1> QED BY <1>3, <1>4, <1>5, <1>6, <1>7, <1>8, <1>9 DEF Next

(* The invariant holds when the loop starts.                                *)
LEMMA OperateStart == Init => FullInv
<1> SUFFICES ASSUME Init PROVE FullInv
  OBVIOUS
<1>1. /\ method \in {"operate", "operateOrdered"} /\ keys \in {"list", "ints", "mixed"}
      /\ option \in Long \cup {"unset"} /\ ttl = option
      /\ asked = <<>> /\ ops = <<>> /\ err = "OK" /\ phase = "adding"
      /\ refused = FALSE /\ leaked = {} /\ twice = {}
  BY DEF Init
<1>2. TypeOK
  <2>1. \A S : <<>> \in Seq(S)
    OBVIOUS
  <2>2. asked \in Seq(Asking \cup {NoOperation}) /\ ops \in Seq(Sent)
    BY <1>1, <2>1
  <2> QED BY <1>1, <2>2 DEF TypeOK
<1>3. NoBadItems /\ AllTaken /\ TtlIsLast
  BY <1>1 DEF NoBadItems, BadItemsUpTo, AllTaken, TtlIsLast
<1>4. Matches
  <2>1. Place(<<>>, 0) = 0
    <3>1. {j \in 1..0 : Kept(<<>>[j])} = {}
      OBVIOUS
    <3> QED BY <3>1, FS_EmptySet DEF Place
  <2> QED BY <1>1, <2>1 DEF Matches
<1> QED BY <1>1, <1>2, <1>3, <1>4 DEF FullInv, OperateInv, RefusedForCause, ValuesHaveOneOwner

(* The inductive invariant holds along every call.                          *)
LEMMA FullInvariance == Spec => []FullInv
  BY OperateStart, OperateStep, PTL DEF Spec

(* The invariant of the loop of operate: the as_error it passes along is    *)
(* clear until a list with an unconvertible item goes by, what was added is *)
(* what was asked, and the ttl is the last touch's, for any number of       *)
(* arrays with any entries.                                                 *)
THEOREM OperateInvariance == Spec => []OperateInv
<1>1. FullInv => OperateInv
  BY DEF FullInv
<1> QED BY <1>1, FullInvariance, PTL

(* The request sent holds exactly the operations asked for, in order, with  *)
(* the arguments given, each of a right type, and the ttl of the last       *)
(* touch, for any arrays.  Only a list that could not be made is sent as    *)
(* none, and so are the lists after it.                                     *)
THEOREM RequestIsAsAsked == Spec => []SentAsAsked
<1>1. FullInv => SentAsAsked
  BY DEF FullInv, OperateInv, SentAsAsked
<1> QED BY <1>1, FullInvariance, PTL

(* operate refuses a call only for its last array, for its keys, because    *)
(* the library refused an operation, or for the error a list of             *)
(* unconvertible items before the last array left.                          *)
THEOREM RefusalsHaveACause == Spec => []RefusedForCause
<1>1. FullInv => RefusedForCause
  BY DEF FullInv
<1> QED BY <1>1, FullInvariance, PTL

(* A converted value is freed by the extension and owned by the request     *)
(* only for a map operation that follows a list of unconvertible items, and *)
(* leaks only where the library refused a list operation, a map could not   *)
(* be converted, or after such a list.                                      *)
THEOREM OneOwner == Spec => []ValuesHaveOneOwner
<1>1. FullInv => ValuesHaveOneOwner
  BY DEF FullInv
<1> QED BY <1>1, FullInvariance, PTL

-----------------------------------------------------------------------------
(* The predicate of a query.                                                *)

(* The inductive invariant: the array is the one the remembered helper      *)
(* made, or one of the script, and the query was made with that array.      *)
PredicateInv ==
  /\ \/ predicate = NoPredicate /\ meant = {} /\ query = NoQuery
     \/ meant = {} /\ predicate \in Written
     \/ \E h \in Asked : meant = {h} /\ predicate = h.array
  /\ query = NoQuery \/ \E takes \in BOOLEAN : query = Answer(Outcome(predicate, takes), takes)

(* What the script sees of the outcome of add_predicate_to_query.           *)
LEMMA AnswerFields ==
  ASSUME NEW o, NEW takes \in BOOLEAN
  PROVE  /\ Answer(o, takes).sent <=> o.status = "OK"
         /\ Answer(o, takes).refused <=> o.status # "OK"
         /\ Answer(o, takes).took <=> takes
         /\ Answer(o, takes).err = o.err
         /\ Answer(o, takes).where = o.where
<1> DEFINE q == Answer(o, takes)
<1>1. /\ q.sent = (o.status = "OK") /\ q.refused = (o.status # "OK")
      /\ q.took = takes /\ q.err = o.err /\ q.where = o.where
  BY DEF Answer
<1> QED BY <1>1, Zenon

(* add_predicate_to_query reaches the reader of the operator when the array *)
(* has the three keys, strings where it wants them and an index where the   *)
(* operator needs one.                                                      *)
LEMMA Dispatch ==
  ASSUME NEW p, NEW takes \in BOOLEAN,
         Cardinality(DOMAIN p) >= 3, Cardinality(DOMAIN p) \in Nat, {"bin", "op", "val"} \subseteq DOMAIN p,
         IsType(p["bin"], "string"), IsType(p["op"], "string"),
         p["op"][2] \in {"CONTAINS", "RANGE"} => HasIndex(p)
  PROVE  LET r == add_predicate_to_query(p, takes)
             op == p["op"][2]
             bin == p["bin"][2]
             v == p["val"]
         IN /\ op = "=" => r = add_equal_predicate_to_query(bin, v, takes)
            /\ op = "BETWEEN" => r = add_between_predicate_to_query(bin, v, takes)
            /\ op = "CONTAINS" => r = add_contains_predicate_to_query(bin, p["index_type"][2], v, takes)
            /\ op = "RANGE" => r = add_range_predicate_to_query(bin, p["index_type"][2], v, takes)
            /\ op = "GEOCONTAINS" => r = add_geo_contains_predicate_to_query(bin, v, takes)
            /\ op = "GEOWITHIN" => r = add_geo_within_predicate_to_query(bin, v, takes)
            /\ op \notin {"=", "BETWEEN", "CONTAINS", "RANGE", "GEOCONTAINS", "GEOWITHIN"} => r = Fails("PARAM")
<1>1. /\ ~(Cardinality(DOMAIN p) < 3)
      /\ {"bin", "op", "val"} \ DOMAIN p = {}
      /\ ~(p["op"][2] \in {"CONTAINS", "RANGE"} /\ ~HasIndex(p))
  OBVIOUS
<1> QED BY <1>1 DEF add_predicate_to_query

(* The array of a helper without an index type.                             *)
LEMMA PlainArray ==
  ASSUME NEW bin, NEW op, NEW v
  PROVE  LET p == Predicate(bin, op, v)
         IN /\ DOMAIN p = {"bin", "op", "val"} /\ Cardinality(DOMAIN p) = 3
            /\ p["bin"] = <<"string", bin.name>> /\ p["op"] = <<"string", op>> /\ p["val"] = v
            /\ p # NullResult /\ p # NoPredicate
<1> DEFINE p == Predicate(bin, op, v)
<1>1. DOMAIN p = {"bin", "op", "val"}
  BY DEF Predicate
<1>2. Cardinality({"bin", "op", "val"}) = 3
  <2>1. IsFiniteSet({}) /\ Cardinality({}) = 0
    BY FS_EmptySet
  <2>2. IsFiniteSet({"bin"}) /\ Cardinality({"bin"}) = 1
    BY FS_Singleton
  <2>3. IsFiniteSet({"bin"} \cup {"op"}) /\ Cardinality({"bin"} \cup {"op"}) = 2
    BY <2>2, FS_AddElement
  <2>4. {"bin"} \cup {"op"} = {"bin", "op"}
    OBVIOUS
  <2>5. Cardinality({"bin", "op"} \cup {"val"}) = 3
    BY <2>3, <2>4, FS_AddElement
  <2>6. {"bin", "op"} \cup {"val"} = {"bin", "op", "val"}
    OBVIOUS
  <2> QED BY <2>5, <2>6
<1>3. p["bin"] = <<"string", bin.name>> /\ p["op"] = <<"string", op>> /\ p["val"] = v
  BY DEF Predicate, StringVal
<1>4. DOMAIN NullResult = {"null"} /\ DOMAIN NoPredicate = {"made"}
  BY DEF NullResult, NoPredicate
<1>5. p # NullResult /\ p # NoPredicate
  BY <1>1, <1>4
<1> QED BY <1>1, <1>2, <1>3, <1>5

(* The array of predicateContains and predicateRange.                       *)
LEMMA IndexedArray ==
  ASSUME NEW bin, NEW op, NEW v, NEW i
  PROVE  LET p == OnIndex(Predicate(bin, op, v), i)
         IN /\ DOMAIN p = {"bin", "op", "val", "index_type"} /\ Cardinality(DOMAIN p) = 4
            /\ p["bin"] = <<"string", bin.name>> /\ p["op"] = <<"string", op>> /\ p["val"] = v
            /\ p["index_type"] = <<"int", i>> /\ HasIndex(p)
            /\ p # NullResult /\ p # NoPredicate
<1> DEFINE q == Predicate(bin, op, v)
           p == OnIndex(q, i)
<1>1. /\ DOMAIN q = {"bin", "op", "val"} /\ Cardinality(DOMAIN q) = 3
      /\ q["bin"] = <<"string", bin.name>> /\ q["op"] = <<"string", op>> /\ q["val"] = v
  BY PlainArray
<1> HIDE DEF q
<1>2. DOMAIN p = DOMAIN q \cup {"index_type"}
  BY DEF OnIndex
<1>3. Cardinality(DOMAIN q \cup {"index_type"}) = 4
  <2>1. IsFiniteSet({"bin", "op", "val"})
    <3>1. IsFiniteSet({"bin"})
      BY FS_Singleton
    <3>2. IsFiniteSet({"bin"} \cup {"op"})
      BY <3>1, FS_AddElement
    <3>3. IsFiniteSet(({"bin"} \cup {"op"}) \cup {"val"})
      BY <3>2, FS_AddElement
    <3>4. ({"bin"} \cup {"op"}) \cup {"val"} = {"bin", "op", "val"}
      OBVIOUS
    <3> QED BY <3>3, <3>4
  <2>2. IsFiniteSet(DOMAIN q) /\ "index_type" \notin DOMAIN q
    BY <1>1, <2>1
  <2> QED BY <1>1, <2>2, FS_AddElement
<1>4. /\ p["bin"] = <<"string", bin.name>> /\ p["op"] = <<"string", op>> /\ p["val"] = v
      /\ p["index_type"] = <<"int", i>>
  BY <1>1 DEF OnIndex, IntVal
<1>5. DOMAIN p = {"bin", "op", "val", "index_type"}
  BY <1>1, <1>2
<1>6. HasIndex(p)
  BY <1>4, <1>5 DEF HasIndex, IsType
<1>7. DOMAIN NullResult = {"null"} /\ DOMAIN NoPredicate = {"made"}
  BY DEF NullResult, NoPredicate
<1>8. p # NullResult /\ p # NoPredicate
  BY <1>5, <1>7
<1>9. Cardinality(DOMAIN p) = 4
  BY <1>2, <1>3
<1> QED BY <1>4, <1>5, <1>6, <1>8, <1>9 DEF q

(* A query made with the array of a helper selects what the helper was      *)
(* asked, and is refused only for a cause.                                  *)
AsAsked(h, takes) ==
  LET r == Outcome(h.array, takes)
  IN /\ r.status = "OK" => \/ h.right /\ r.where = h.meant
                           \/ r.err # "OK" /\ h.array["op"][2] \in {"=", "CONTAINS"}
     /\ r.status # "OK" /\ takes => ~h.right \/ h.meant.on = "no_index"

(* What a helper was asked, field by field.                                 *)
LEMMA SayFields ==
  ASSUME NEW bin \in Bins, NEW p, NEW on, NEW op, NEW v
  PROVE  LET h == Say(bin, p, on, op, v)
         IN /\ h.right <=> bin.fits /\ (op = "equal" => Scalar(v))
            /\ h.array = p /\ h.meant = Clause(bin.name, on, op, v) /\ h.meant.on = on
<1> DEFINE h == Say(bin, p, on, op, v)
<1>1. /\ h.right = (bin.fits /\ (op = "equal" => Scalar(v)))
      /\ h.array = p /\ h.meant = Clause(bin.name, on, op, v) /\ h.meant.on = on
  BY DEF Say, Clause
<1>2. h.right <=> bin.fits /\ (op = "equal" => Scalar(v))
  BY <1>1, Zenon
<1> QED BY <1>1, <1>2

(* A helper that was asked for something it does not take answers NULL, and *)
(* no query is sent with it.                                                *)
LEMMA NullIsRefused ==
  ASSUME NEW h, NEW takes \in BOOLEAN, h.array = NullResult, ~h.right
  PROVE  AsAsked(h, takes)
<1>1. Outcome(h.array, takes).status = "PARAM"
  BY DEF Outcome, Parsed, Fails
<1> QED BY <1>1 DEF AsAsked

(* The array of a helper without an index type reaches its reader whole.    *)
LEMMA PlainOutcome ==
  ASSUME NEW bin, NEW op, NEW v, NEW takes \in BOOLEAN
  PROVE  LET r == Outcome(Predicate(bin, op, v), takes)
         IN /\ op = "=" => r = add_equal_predicate_to_query(bin.name, v, takes)
            /\ op = "BETWEEN" => r = add_between_predicate_to_query(bin.name, v, takes)
            /\ op = "GEOCONTAINS" => r = add_geo_contains_predicate_to_query(bin.name, v, takes)
            /\ op = "GEOWITHIN" => r = add_geo_within_predicate_to_query(bin.name, v, takes)
<1> DEFINE p == Predicate(bin, op, v)
<1>1. /\ DOMAIN p = {"bin", "op", "val"} /\ Cardinality(DOMAIN p) = 3
      /\ p["bin"] = <<"string", bin.name>> /\ p["op"] = <<"string", op>> /\ p["val"] = v
      /\ p # NullResult
  BY PlainArray
<1> HIDE DEF p
<1>2. Outcome(p, takes) = add_predicate_to_query(p, takes)
  BY <1>1 DEF Outcome, Parsed
<1>3. /\ Cardinality(DOMAIN p) >= 3 /\ Cardinality(DOMAIN p) \in Nat /\ {"bin", "op", "val"} \subseteq DOMAIN p
      /\ IsType(p["bin"], "string") /\ IsType(p["op"], "string")
      /\ p["op"][2] = op /\ p["bin"][2] = bin.name
  BY <1>1 DEF IsType
<1>4. op \notin {"CONTAINS", "RANGE"} =>
        /\ op = "=" => Outcome(p, takes) = add_equal_predicate_to_query(bin.name, v, takes)
        /\ op = "BETWEEN" => Outcome(p, takes) = add_between_predicate_to_query(bin.name, v, takes)
        /\ op = "GEOCONTAINS" => Outcome(p, takes) = add_geo_contains_predicate_to_query(bin.name, v, takes)
        /\ op = "GEOWITHIN" => Outcome(p, takes) = add_geo_within_predicate_to_query(bin.name, v, takes)
  BY <1>1, <1>2, <1>3, Dispatch
<1> QED BY <1>4 DEF p

(* The array of predicateContains and predicateRange reaches its reader     *)
(* whole.                                                                   *)
LEMMA IndexedOutcome ==
  ASSUME NEW bin, NEW op, NEW v, NEW i, NEW takes \in BOOLEAN
  PROVE  LET r == Outcome(OnIndex(Predicate(bin, op, v), i), takes)
         IN /\ op = "CONTAINS" => r = add_contains_predicate_to_query(bin.name, i, v, takes)
            /\ op = "RANGE" => r = add_range_predicate_to_query(bin.name, i, v, takes)
<1> DEFINE p == OnIndex(Predicate(bin, op, v), i)
<1>1. /\ DOMAIN p = {"bin", "op", "val", "index_type"} /\ Cardinality(DOMAIN p) = 4
      /\ p["bin"] = <<"string", bin.name>> /\ p["op"] = <<"string", op>> /\ p["val"] = v
      /\ p["index_type"] = <<"int", i>> /\ HasIndex(p)
      /\ p # NullResult
  BY IndexedArray
<1> HIDE DEF p
<1>2. Outcome(p, takes) = add_predicate_to_query(p, takes)
  BY <1>1 DEF Outcome, Parsed
<1>3. /\ Cardinality(DOMAIN p) >= 3 /\ Cardinality(DOMAIN p) \in Nat /\ {"bin", "op", "val"} \subseteq DOMAIN p
      /\ IsType(p["bin"], "string") /\ IsType(p["op"], "string")
      /\ p["op"][2] = op /\ p["bin"][2] = bin.name /\ p["index_type"][2] = i
  BY <1>1 DEF IsType
<1>4. /\ op = "CONTAINS" => Outcome(p, takes) = add_contains_predicate_to_query(bin.name, i, v, takes)
      /\ op = "RANGE" => Outcome(p, takes) = add_range_predicate_to_query(bin.name, i, v, takes)
  BY <1>1, <1>2, <1>3, Dispatch
<1> QED BY <1>4 DEF p

(* predicateEquals and predicateContains are honoured, for any value and    *)
(* index type.                                                              *)
LEMMA ValueHelpers ==
  ASSUME NEW b \in Bins, NEW v, NEW i, NEW takes \in BOOLEAN
  PROVE  /\ AsAsked(Say(b, predicateEquals(b, v), "bin", "equal", v), takes)
         /\ AsAsked(Say(b, predicateContains(b, i, v), OnOf(i), "equal", v), takes)
<1>0. b.fits \in BOOLEAN /\ Scalar(v) \in BOOLEAN
  BY DEF Bins, Scalar
<1>1. AsAsked(Say(b, predicateEquals(b, v), "bin", "equal", v), takes)
  <2> DEFINE p == predicateEquals(b, v)
             h == Say(b, p, "bin", "equal", v)
             c == Clause(b.name, "bin", "equal", v)
  <2>1. (h.right <=> b.fits /\ Scalar(v)) /\ h.array = p /\ h.meant = c
    BY <1>0, SayFields
  <2> HIDE DEF h, c
  <2> SUFFICES AsAsked(h, takes)
    BY DEF h
  <2>2. CASE ~(b.fits /\ Scalar(v))
    <3>1. p = NullResult
      BY <2>2 DEF predicateEquals
    <3> QED BY <2>1, <2>2, <3>1, NullIsRefused
  <2>3. CASE b.fits /\ Scalar(v)
    <3>1. p = Predicate(b, "=", v)
      BY <2>3 DEF predicateEquals
    <3>2. p["op"] = <<"string", "=">>
      BY <3>1, PlainArray
    <3>3. Outcome(p, takes) = add_equal_predicate_to_query(b.name, v, takes)
      BY <3>1, PlainOutcome
    <3> HIDE DEF p
    <3>4. /\ Outcome(p, takes).status = "OK"
          /\ IF takes THEN Outcome(p, takes).where = c ELSE Outcome(p, takes).err = "CLIENT"
      BY <2>3, <3>3 DEF add_equal_predicate_to_query, as_query_where, Quietly, Fails, c
    <3> QED BY <2>1, <2>3, <3>2, <3>4 DEF AsAsked
  <2> QED BY <2>2, <2>3
<1>2. AsAsked(Say(b, predicateContains(b, i, v), OnOf(i), "equal", v), takes)
  <2> DEFINE p == predicateContains(b, i, v)
             h == Say(b, p, OnOf(i), "equal", v)
             c == Clause(b.name, OnOf(i), "equal", v)
  <2>1. (h.right <=> b.fits /\ Scalar(v)) /\ h.array = p /\ h.meant = c /\ h.meant.on = OnOf(i)
    BY <1>0, SayFields
  <2> HIDE DEF h, c
  <2> SUFFICES AsAsked(h, takes)
    BY DEF h
  <2>2. CASE ~(b.fits /\ Scalar(v))
    <3>1. p = NullResult
      BY <2>2 DEF predicateContains
    <3> QED BY <2>1, <2>2, <3>1, NullIsRefused
  <2>3. CASE b.fits /\ Scalar(v)
    <3>1. p = OnIndex(Predicate(b, "CONTAINS", v), i)
      BY <2>3 DEF predicateContains
    <3>2. p["op"] = <<"string", "CONTAINS">>
      BY <3>1, IndexedArray
    <3>3. Outcome(p, takes) = add_contains_predicate_to_query(b.name, i, v, takes)
      BY <3>1, IndexedOutcome
    <3> HIDE DEF p
    <3>4. CASE i \in DOMAIN Collection
      <4>1. /\ Outcome(p, takes).status = "OK"
            /\ IF takes THEN Outcome(p, takes).where = c ELSE Outcome(p, takes).err = "CLIENT"
        BY <2>3, <3>3, <3>4 DEF add_contains_predicate_to_query, as_query_where, Quietly, Fails, c, OnOf
      <4> QED BY <2>1, <2>3, <3>2, <4>1 DEF AsAsked
    <3>5. CASE i \notin DOMAIN Collection
      <4>1. Outcome(p, takes).status = "PARAM"
        BY <3>3, <3>5 DEF add_contains_predicate_to_query, Fails
      <4>2. h.meant.on = "no_index"
        BY <2>1, <3>5 DEF OnOf
      <4> QED BY <2>1, <4>1, <4>2 DEF AsAsked
    <3> QED BY <3>4, <3>5
  <2> QED BY <2>2, <2>3
<1> QED BY <1>1, <1>2

(* predicateBetween and predicateRange are honoured, for any ends and index *)
(* type.                                                                    *)
LEMMA RangeHelpers ==
  ASSUME NEW b \in Bins, NEW m, NEW n, NEW i, NEW takes \in BOOLEAN
  PROVE  /\ AsAsked(Say(b, predicateBetween(b, m, n), "bin", "range", MinMax(m, n)), takes)
         /\ AsAsked(Say(b, predicateRange(b, i, m, n), OnOf(i), "range", MinMax(m, n)), takes)
<1>0. b.fits \in BOOLEAN /\ get_min_max_from_zval(MinMax(m, n))
  BY DEF Bins, get_min_max_from_zval, MinMax, ListVal, IntVal, IsType
<1>1. AsAsked(Say(b, predicateBetween(b, m, n), "bin", "range", MinMax(m, n)), takes)
  <2> DEFINE p == predicateBetween(b, m, n)
             w == MinMax(m, n)
             h == Say(b, p, "bin", "range", w)
             c == Clause(b.name, "bin", "range", w)
  <2>0. get_min_max_from_zval(w)
    BY <1>0
  <2> HIDE DEF w
  <2>1. (h.right <=> b.fits) /\ h.array = p /\ h.meant = c
    BY <1>0, SayFields
  <2> HIDE DEF h, c
  <2> SUFFICES AsAsked(h, takes)
    BY DEF h, w
  <2>2. CASE ~b.fits
    <3>1. p = NullResult
      BY <2>2 DEF predicateBetween
    <3> QED BY <2>1, <2>2, <3>1, NullIsRefused
  <2>3. CASE b.fits
    <3>1. p = Predicate(b, "BETWEEN", w)
      BY <2>3 DEF predicateBetween, w
    <3> HIDE DEF p
    <3>2. Outcome(p, takes) = add_between_predicate_to_query(b.name, w, takes)
      BY <3>1, PlainOutcome
    <3>3. IF takes THEN Outcome(p, takes).status = "OK" /\ Outcome(p, takes).where = c
                   ELSE Outcome(p, takes).status # "OK"
      BY <2>0, <3>2 DEF add_between_predicate_to_query, as_query_where, Fails, c
    <3> QED BY <2>1, <2>3, <3>3 DEF AsAsked
  <2> QED BY <2>2, <2>3
<1>2. AsAsked(Say(b, predicateRange(b, i, m, n), OnOf(i), "range", MinMax(m, n)), takes)
  <2> DEFINE p == predicateRange(b, i, m, n)
             w == MinMax(m, n)
             h == Say(b, p, OnOf(i), "range", w)
             c == Clause(b.name, OnOf(i), "range", w)
  <2>0. get_min_max_from_zval(w)
    BY <1>0
  <2> HIDE DEF w
  <2>1. (h.right <=> b.fits) /\ h.array = p /\ h.meant = c /\ h.meant.on = OnOf(i)
    BY <1>0, SayFields
  <2> HIDE DEF h, c
  <2> SUFFICES AsAsked(h, takes)
    BY DEF h, w
  <2>2. CASE ~b.fits
    <3>1. p = NullResult
      BY <2>2 DEF predicateRange
    <3> QED BY <2>1, <2>2, <3>1, NullIsRefused
  <2>3. CASE b.fits
    <3>1. p = OnIndex(Predicate(b, "RANGE", w), i)
      BY <2>3 DEF predicateRange, w
    <3> HIDE DEF p
    <3>2. Outcome(p, takes) = add_range_predicate_to_query(b.name, i, w, takes)
      BY <3>1, IndexedOutcome
    <3>3. CASE i \in DOMAIN Collection
      <4>1. IF takes THEN Outcome(p, takes).status = "OK" /\ Outcome(p, takes).where = c
                     ELSE Outcome(p, takes).status # "OK"
        BY <2>0, <3>2, <3>3 DEF add_range_predicate_to_query, as_query_where, Fails, c, OnOf
      <4> QED BY <2>1, <2>3, <4>1 DEF AsAsked
    <3>4. CASE i \notin DOMAIN Collection
      <4>1. Outcome(p, takes).status = "PARAM"
        BY <3>2, <3>4 DEF add_range_predicate_to_query, Fails
      <4>2. h.meant.on = "no_index"
        BY <2>1, <3>4 DEF OnOf
      <4> QED BY <2>1, <4>1, <4>2 DEF AsAsked
    <3> QED BY <3>3, <3>4
  <2> QED BY <2>2, <2>3
<1> QED BY <1>1, <1>2

(* The GeoJSON helpers are honoured, for any text.                          *)
LEMMA GeoHelpers ==
  ASSUME NEW b \in Bins, NEW t, NEW takes \in BOOLEAN
  PROVE  /\ AsAsked(Say(b, predicateGeoContainsGeoJSONPoint(b, t), "bin", "geo_contains", StringVal(t)), takes)
         /\ AsAsked(Say(b, predicateGeoWithinGeoJSONRegion(b, t), "bin", "geo_within", StringVal(t)), takes)
         /\ AsAsked(Say(b, predicateGeoContainsPoint(b), "bin", "geo_contains", StringVal("json_of_Point")), takes)
<1>0. b.fits \in BOOLEAN
  BY DEF Bins
<1>1. AsAsked(Say(b, predicateGeoContainsGeoJSONPoint(b, t), "bin", "geo_contains", StringVal(t)), takes)
  <2> DEFINE p == predicateGeoContainsGeoJSONPoint(b, t)
             w == StringVal(t)
             h == Say(b, p, "bin", "geo_contains", w)
             c == Clause(b.name, "bin", "geo_contains", w)
  <2>0. IsType(w, "string")
    BY DEF IsType, StringVal
  <2> HIDE DEF w
  <2>1. (h.right <=> b.fits) /\ h.array = p /\ h.meant = c
    BY <1>0, SayFields
  <2> HIDE DEF h, c
  <2> SUFFICES AsAsked(h, takes)
    BY DEF h, w
  <2>2. CASE ~b.fits
    <3>1. p = NullResult
      BY <2>2 DEF predicateGeoContainsGeoJSONPoint
    <3> QED BY <2>1, <2>2, <3>1, NullIsRefused
  <2>3. CASE b.fits
    <3>1. p = Predicate(b, "GEOCONTAINS", w)
      BY <2>3 DEF predicateGeoContainsGeoJSONPoint, w
    <3> HIDE DEF p
    <3>2. Outcome(p, takes) = add_geo_contains_predicate_to_query(b.name, w, takes)
      BY <3>1, PlainOutcome
    <3>3. IF takes THEN Outcome(p, takes).status = "OK" /\ Outcome(p, takes).where = c
                   ELSE Outcome(p, takes).status # "OK"
      BY <2>0, <3>2 DEF IsType, add_geo_contains_predicate_to_query, as_query_where, Fails, c
    <3> QED BY <2>1, <2>3, <3>3 DEF AsAsked
  <2> QED BY <2>2, <2>3
<1>2. AsAsked(Say(b, predicateGeoWithinGeoJSONRegion(b, t), "bin", "geo_within", StringVal(t)), takes)
  <2> DEFINE p == predicateGeoWithinGeoJSONRegion(b, t)
             w == StringVal(t)
             h == Say(b, p, "bin", "geo_within", w)
             c == Clause(b.name, "bin", "geo_within", w)
  <2>0. IsType(w, "string")
    BY DEF IsType, StringVal
  <2> HIDE DEF w
  <2>1. (h.right <=> b.fits) /\ h.array = p /\ h.meant = c
    BY <1>0, SayFields
  <2> HIDE DEF h, c
  <2> SUFFICES AsAsked(h, takes)
    BY DEF h, w
  <2>2. CASE ~b.fits
    <3>1. p = NullResult
      BY <2>2 DEF predicateGeoWithinGeoJSONRegion
    <3> QED BY <2>1, <2>2, <3>1, NullIsRefused
  <2>3. CASE b.fits
    <3>1. p = Predicate(b, "GEOWITHIN", w)
      BY <2>3 DEF predicateGeoWithinGeoJSONRegion, w
    <3> HIDE DEF p
    <3>2. Outcome(p, takes) = add_geo_within_predicate_to_query(b.name, w, takes)
      BY <3>1, PlainOutcome
    <3>3. IF takes THEN Outcome(p, takes).status = "OK" /\ Outcome(p, takes).where = c
                   ELSE Outcome(p, takes).status # "OK"
      BY <2>0, <3>2 DEF IsType, add_geo_within_predicate_to_query, as_query_where, Fails, c
    <3> QED BY <2>1, <2>3, <3>3 DEF AsAsked
  <2> QED BY <2>2, <2>3
<1>3. AsAsked(Say(b, predicateGeoContainsPoint(b), "bin", "geo_contains", StringVal("json_of_Point")), takes)
  <2> DEFINE p == predicateGeoContainsPoint(b)
             w == StringVal("json_of_Point")
             h == Say(b, p, "bin", "geo_contains", w)
             c == Clause(b.name, "bin", "geo_contains", w)
  <2>0. IsType(w, "string")
    BY DEF IsType, StringVal
  <2> HIDE DEF w
  <2>1. (h.right <=> b.fits) /\ h.array = p /\ h.meant = c
    BY <1>0, SayFields
  <2> HIDE DEF h, c
  <2> SUFFICES AsAsked(h, takes)
    BY DEF h, w
  <2>2. CASE ~b.fits
    <3>1. p = NullResult
      BY <2>2 DEF predicateGeoContainsPoint
    <3> QED BY <2>1, <2>2, <3>1, NullIsRefused
  <2>3. CASE b.fits
    <3>1. p = Predicate(b, "GEOCONTAINS", w)
      BY <2>3 DEF predicateGeoContainsPoint, geo_val_to_json, w
    <3> HIDE DEF p
    <3>2. Outcome(p, takes) = add_geo_contains_predicate_to_query(b.name, w, takes)
      BY <3>1, PlainOutcome
    <3>3. IF takes THEN Outcome(p, takes).status = "OK" /\ Outcome(p, takes).where = c
                   ELSE Outcome(p, takes).status # "OK"
      BY <2>0, <3>2 DEF IsType, add_geo_contains_predicate_to_query, as_query_where, Fails, c
    <3> QED BY <2>1, <2>3, <3>3 DEF AsAsked
  <2> QED BY <2>2, <2>3
<1> QED BY <1>1, <1>2, <1>3

(* No helper makes what stands for the absence of an array.                 *)
LEMMA HelperArray ==
  ASSUME NEW b, NEW v, NEW i, NEW m, NEW n, NEW t
  PROVE  /\ predicateEquals(b, v) # NoPredicate
         /\ predicateContains(b, i, v) # NoPredicate
         /\ predicateBetween(b, m, n) # NoPredicate
         /\ predicateRange(b, i, m, n) # NoPredicate
         /\ predicateGeoContainsGeoJSONPoint(b, t) # NoPredicate
         /\ predicateGeoWithinGeoJSONRegion(b, t) # NoPredicate
         /\ predicateGeoContainsPoint(b) # NoPredicate
<1>1. NullResult # NoPredicate
  <2>1. DOMAIN NullResult = {"null"} /\ DOMAIN NoPredicate = {"made"}
    BY DEF NullResult, NoPredicate
  <2> QED BY <2>1
<1>2. \A bin, op, w : Predicate(bin, op, w) # NoPredicate
  BY PlainArray
<1>3. \A bin, op, w, k : OnIndex(Predicate(bin, op, w), k) # NoPredicate
  BY IndexedArray
<1> QED BY <1>1, <1>2, <1>3 DEF predicateEquals, predicateContains, predicateBetween, predicateRange,
        predicateGeoContainsGeoJSONPoint, predicateGeoWithinGeoJSONRegion, predicateGeoContainsPoint

(* Every helper is honoured.                                                *)
LEMMA HelperIsAsAsked ==
  ASSUME NEW h \in Asked, NEW takes \in BOOLEAN
  PROVE  AsAsked(h, takes) /\ h.array # NoPredicate
<1>1. ASSUME NEW b \in Bins, NEW v \in Values,
             h = Say(b, predicateEquals(b, v), "bin", "equal", v)
      PROVE  AsAsked(h, takes) /\ h.array # NoPredicate
  BY <1>1, ValueHelpers, HelperArray DEF Say
<1>2. ASSUME NEW b \in Bins, NEW v \in Values, NEW i \in Indexes,
             h = Say(b, predicateContains(b, i, v), OnOf(i), "equal", v)
      PROVE  AsAsked(h, takes) /\ h.array # NoPredicate
  BY <1>2, ValueHelpers, HelperArray DEF Say
<1>3. ASSUME NEW b \in Bins, NEW m \in Numbers, NEW n \in Numbers,
             h = Say(b, predicateBetween(b, m, n), "bin", "range", MinMax(m, n))
      PROVE  AsAsked(h, takes) /\ h.array # NoPredicate
  BY <1>3, RangeHelpers, HelperArray DEF Say
<1>4. ASSUME NEW b \in Bins, NEW i \in Indexes, NEW m \in Numbers, NEW n \in Numbers,
             h = Say(b, predicateRange(b, i, m, n), OnOf(i), "range", MinMax(m, n))
      PROVE  AsAsked(h, takes) /\ h.array # NoPredicate
  BY <1>4, RangeHelpers, HelperArray DEF Say
<1>5. ASSUME NEW b \in Bins, NEW t \in Texts,
             h = Say(b, predicateGeoContainsGeoJSONPoint(b, t), "bin", "geo_contains", StringVal(t))
      PROVE  AsAsked(h, takes) /\ h.array # NoPredicate
  BY <1>5, GeoHelpers, HelperArray DEF Say
<1>6. ASSUME NEW b \in Bins, NEW t \in Texts,
             h = Say(b, predicateGeoWithinGeoJSONRegion(b, t), "bin", "geo_within", StringVal(t))
      PROVE  AsAsked(h, takes) /\ h.array # NoPredicate
  BY <1>6, GeoHelpers, HelperArray DEF Say
<1>7. ASSUME NEW b \in Bins,
             h = Say(b, predicateGeoContainsPoint(b), "bin", "geo_contains", StringVal("json_of_Point"))
      PROVE  AsAsked(h, takes) /\ h.array # NoPredicate
  BY <1>7, GeoHelpers, HelperArray DEF Say
<1>8. \/ \E b \in Bins, v \in Values : h = Say(b, predicateEquals(b, v), "bin", "equal", v)
      \/ \E b \in Bins, v \in Values, i \in Indexes :
           h = Say(b, predicateContains(b, i, v), OnOf(i), "equal", v)
      \/ \E b \in Bins, m \in Numbers, n \in Numbers :
           h = Say(b, predicateBetween(b, m, n), "bin", "range", MinMax(m, n))
      \/ \E b \in Bins, i \in Indexes, m \in Numbers, n \in Numbers :
           h = Say(b, predicateRange(b, i, m, n), OnOf(i), "range", MinMax(m, n))
      \/ \E b \in Bins, t \in Texts :
           h = Say(b, predicateGeoContainsGeoJSONPoint(b, t), "bin", "geo_contains", StringVal(t))
      \/ \E b \in Bins, t \in Texts :
           h = Say(b, predicateGeoWithinGeoJSONRegion(b, t), "bin", "geo_within", StringVal(t))
      \/ \E b \in Bins :
           h = Say(b, predicateGeoContainsPoint(b), "bin", "geo_contains", StringVal("json_of_Point"))
  BY DEF Asked
<1> QED BY <1>1, <1>2, <1>3, <1>4, <1>5, <1>6, <1>7, <1>8

(* An outcome that is OK has a whole clause, or is one of the equalities    *)
(* that fail quietly; one that is not sets the error.                       *)
NotDropped(p, r) ==
  /\ r.status = "OK" => \/ /\ r.where # NoWhere /\ r.err = "OK"
                           /\ r.where.op = "range" => p["val"][1] = "list"
                        \/ r.err # "OK" /\ p["op"][2] \in {"=", "CONTAINS"}
  /\ r.status # "OK" => r.err # "OK"

(* A failure drops nothing silently.                                        *)
LEMMA FailsIsKept ==
  ASSUME NEW p
  PROVE  NotDropped(p, Fails("PARAM")) /\ NotDropped(p, Fails("CLIENT"))
  BY DEF NotDropped, Fails

(* Neither does the clause of a reader, whether as_query_where takes it or  *)
(* not.                                                                     *)
LEMMA ClauseIsKept ==
  ASSUME NEW p, NEW takes \in BOOLEAN, NEW code \in {"PARAM", "CLIENT"}, NEW bin, NEW on, NEW op, NEW v,
         op = "range" => p["val"][1] = "list"
  PROVE  /\ NotDropped(p, as_query_where(Clause(bin, on, op, v), takes, code))
         /\ p["op"][2] \in {"=", "CONTAINS"} =>
              NotDropped(p, Quietly(as_query_where(Clause(bin, on, op, v), takes, code)))
<1> DEFINE c == Clause(bin, on, op, v)
           r == as_query_where(c, takes, code)
<1>1. c # NoWhere /\ c.op = op
  <2>1. DOMAIN c = {"bin", "on", "op", "val"} /\ DOMAIN NoWhere = {"on"} /\ c.op = op
    BY DEF Clause, NoWhere
  <2> QED BY <2>1
<1> HIDE DEF c
<1>2. /\ takes => r = [status |-> "OK", err |-> "OK", where |-> c]
      /\ ~takes => r = [status |-> code, err |-> code, where |-> NoWhere]
  BY DEF as_query_where, Fails
<1> HIDE DEF r
<1>3. CASE takes
  <2>1. Quietly(r) = [status |-> "OK", err |-> "OK", where |-> c]
    BY <1>2, <1>3 DEF Quietly
  <2>2. NotDropped(p, r) /\ NotDropped(p, Quietly(r))
    BY <1>1, <1>2, <1>3, <2>1 DEF NotDropped
  <2> QED BY <2>2 DEF r, c
<1>4. CASE ~takes
  <2>1. Quietly(r) = [status |-> "OK", err |-> code, where |-> NoWhere]
    BY <1>2, <1>4 DEF Quietly
  <2>2. NotDropped(p, r) /\ (p["op"][2] \in {"=", "CONTAINS"} => NotDropped(p, Quietly(r)))
    BY <1>2, <1>4, <2>1 DEF NotDropped
  <2> QED BY <2>2 DEF r, c
<1> QED BY <1>3, <1>4

(* Each reader of client/query.c adds a whole clause or fails, for any      *)
(* value under "val".                                                       *)
LEMMA ReadersKeep ==
  ASSUME NEW p, NEW bin, NEW i, NEW takes \in BOOLEAN
  PROVE  LET op == p["op"][2]
             v == p["val"]
         IN /\ op = "=" => NotDropped(p, add_equal_predicate_to_query(bin, v, takes))
            /\ NotDropped(p, add_between_predicate_to_query(bin, v, takes))
            /\ op = "CONTAINS" => NotDropped(p, add_contains_predicate_to_query(bin, i, v, takes))
            /\ NotDropped(p, add_range_predicate_to_query(bin, i, v, takes))
            /\ NotDropped(p, add_geo_contains_predicate_to_query(bin, v, takes))
            /\ NotDropped(p, add_geo_within_predicate_to_query(bin, v, takes))
<1> DEFINE op == p["op"][2]
           v == p["val"]
<1>0. get_min_max_from_zval(v) => v[1] = "list"
  BY DEF get_min_max_from_zval, IsType
<1>1. op \in {"=", "CONTAINS"} => NotDropped(p, Quietly(Fails("PARAM")))
  BY DEF NotDropped, Quietly, Fails
<1>2. op = "=" => NotDropped(p, add_equal_predicate_to_query(bin, v, takes))
  BY <1>1, ClauseIsKept DEF add_equal_predicate_to_query
<1>3. NotDropped(p, add_between_predicate_to_query(bin, v, takes))
  BY <1>0, FailsIsKept, ClauseIsKept DEF add_between_predicate_to_query
<1>4. op = "CONTAINS" => NotDropped(p, add_contains_predicate_to_query(bin, i, v, takes))
  BY <1>1, FailsIsKept, ClauseIsKept DEF add_contains_predicate_to_query
<1>5. NotDropped(p, add_range_predicate_to_query(bin, i, v, takes))
  BY <1>0, FailsIsKept, ClauseIsKept DEF add_range_predicate_to_query
<1>6. NotDropped(p, add_geo_contains_predicate_to_query(bin, v, takes))
  BY FailsIsKept, ClauseIsKept DEF add_geo_contains_predicate_to_query
<1>7. NotDropped(p, add_geo_within_predicate_to_query(bin, v, takes))
  BY FailsIsKept, ClauseIsKept DEF add_geo_within_predicate_to_query
<1> QED BY <1>2, <1>3, <1>4, <1>5, <1>6, <1>7

(* So does add_predicate_to_query, for any array that is not empty.         *)
LEMMA NothingIsDropped ==
  ASSUME NEW p, NEW takes \in BOOLEAN, DOMAIN p # {}
  PROVE  NotDropped(p, Outcome(p, takes))
<1>1. NotDropped(p, add_predicate_to_query(p, takes))
  BY ReadersKeep, FailsIsKept DEF add_predicate_to_query
<1> QED BY <1>1, FailsIsKept DEF Outcome

(* The invariant holds before the first query.                              *)
LEMMA PredicateStart == PredicatesInit => PredicateInv
  BY DEF PredicatesInit, PredicateInv

(* Every step of the script keeps the invariant.                            *)
LEMMA PredicateStep ==
  ASSUME PredicateInv, [PredicatesNext]_predicateVars
  PROVE  PredicateInv'
<1>1. predicate = NoPredicate => query = NoQuery /\ meant = {}
  <2>1. DOMAIN NoPredicate = {"made"} /\ "made" \notin Key
    BY DEF NoPredicate, Key
  <2>2. NoPredicate \notin Written
    BY <2>1, WrittenAssumption
  <2>3. \A h \in Asked : h.array # NoPredicate
    BY HelperIsAsAsked
  <2> QED BY <2>2, <2>3 DEF PredicateInv
<1>2. CASE Ask
  BY <1>1, <1>2 DEF Ask, PredicateInv
<1>3. CASE WriteByHand
  BY <1>1, <1>3 DEF WriteByHand, PredicateInv
<1>4. ASSUME NEW takes \in BOOLEAN, Query(takes) PROVE PredicateInv'
  <2>1. UNCHANGED <<predicate, meant>> /\ predicate # NoPredicate
    BY <1>4 DEF Query
  <2>2. query' = Answer(Outcome(predicate', takes), takes)
    BY <1>4 DEF Query
  <2> QED BY <2>1, <2>2 DEF PredicateInv
<1>5. CASE QueryDone
  BY <1>5 DEF QueryDone, PredicateInv
<1>6. CASE UNCHANGED predicateVars
  BY <1>6 DEF predicateVars, PredicateInv
<1> QED BY <1>2, <1>3, <1>4, <1>5, <1>6 DEF PredicatesNext

(* The invariant holds along every sequence of queries.                     *)
LEMMA PredicateInvariance == PredicatesSpec => []PredicateInv
  BY PredicateStart, PredicateStep, PTL DEF PredicatesSpec

(* No query was made: it is neither sent nor refused.                       *)
LEMMA NoQueryFields == ~NoQuery.sent /\ ~NoQuery.refused
<1>1. NoQuery.sent = FALSE /\ NoQuery.refused = FALSE
  BY DEF NoQuery
<1> QED BY <1>1

(* A query sent with the array of a predicate* helper selects what the      *)
(* helper was asked for, and none is refused without a cause, for any bins, *)
(* values, ends, index types and texts.                                     *)
THEOREM HelpersAreHonoured == PredicatesSpec => []PredicatesAsAsked
<1>1. PredicateInv => PredicatesAsAsked
  <2> SUFFICES ASSUME PredicateInv, NEW h \in meant
               PROVE  /\ query.sent => (h.right /\ query.where = h.meant) \/ Unsaid
                      /\ query.refused /\ query.took => ~h.right \/ h.meant.on = "no_index"
    BY DEF PredicatesAsAsked
  <2>1. h \in Asked /\ predicate = h.array
    BY DEF PredicateInv
  <2>2. CASE query = NoQuery
    BY <2>2, NoQueryFields
  <2>3. ASSUME NEW takes \in BOOLEAN, query = Answer(Outcome(predicate, takes), takes)
        PROVE  /\ query.sent => (h.right /\ query.where = h.meant) \/ Unsaid
               /\ query.refused /\ query.took => ~h.right \/ h.meant.on = "no_index"
    <3> DEFINE r == Outcome(predicate, takes)
    <3>1. /\ query.sent <=> r.status = "OK"
          /\ query.refused <=> r.status # "OK"
          /\ query.took <=> takes
          /\ query.err = r.err /\ query.where = r.where
      BY <2>3, AnswerFields
    <3>2. AsAsked(h, takes)
      BY <2>1, HelperIsAsAsked
    <3>3. /\ r.status = "OK" => \/ h.right /\ r.where = h.meant
                                \/ r.err # "OK" /\ predicate["op"][2] \in {"=", "CONTAINS"}
          /\ r.status # "OK" /\ takes => ~h.right \/ h.meant.on = "no_index"
      BY <2>1, <3>2 DEF AsAsked
    <3> HIDE DEF r
    <3> QED BY <3>1, <3>3 DEF Unsaid
  <2> QED BY <2>2, <2>3 DEF PredicateInv
<1> QED BY <1>1, PredicateInvariance, PTL

(* Whatever array a script writes, its query is sent with a whole clause or *)
(* is not sent and sets the error, the equalities named in Unsaid apart: it *)
(* never silently selects every record.                                     *)
THEOREM ClausesAreKept == PredicatesSpec => []PredicateNotDropped
<1>1. PredicateInv => PredicateNotDropped
  <2> SUFFICES ASSUME PredicateInv PROVE PredicateNotDropped
    OBVIOUS
  <2>1. CASE query = NoQuery
    BY <2>1, NoQueryFields DEF PredicateNotDropped
  <2>2. ASSUME NEW takes \in BOOLEAN, query = Answer(Outcome(predicate, takes), takes)
        PROVE  PredicateNotDropped
    <3> DEFINE r == Outcome(predicate, takes)
    <3>1. /\ query.sent <=> r.status = "OK"
          /\ query.refused <=> r.status # "OK"
          /\ query.err = r.err /\ query.where = r.where
      BY <2>2, AnswerFields
    <3>2. DOMAIN predicate # {} => NotDropped(predicate, r)
      BY NothingIsDropped
    <3>3. DOMAIN predicate = {} => r.status = "OK" \/ r.err # "OK"
      BY DEF Outcome, Everything, Fails
    <3> HIDE DEF r
    <3> QED BY <3>1, <3>2, <3>3 DEF PredicateNotDropped, Unsaid, NotDropped
  <2> QED BY <2>1, <2>2 DEF PredicateInv
<1> QED BY <1>1, PredicateInvariance, PTL
=============================================================================
