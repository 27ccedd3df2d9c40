---------------------------- MODULE MCOperations ----------------------------
(* Two methods that turn a script's untyped arrays into a request: operate  *)
(* with every operation, two arrays a call, or queries with every           *)
(* predicate.  A run is about one of them.                                  *)
EXTENDS Operations, Predicates

(* The arrays of the model: right in every entry, or wrong in one. *)
RightArray(op) ==
  [op |-> op,
   e |-> [x \in Entry |->
            IF x \notin Uses(op) THEN "absent"
            ELSE CASE x = "val" /\ "object" \notin RightVal(op) -> CHOOSE k \in RightVal(op) : TRUE
                   [] x = "key" /\ op = "MAP_REMOVE_BY_KEY_LIST" -> "list"
                   [] x = "map_policy" -> "map"
                   [] x \in {"index", "rank", "return_type", "count", "ttl"} -> "long"
                   [] OTHER -> "string"]]

Tried(x) ==
  CASE x = "bin" -> {"toolong", "long", "absent"}
    [] x \in {"index", "rank", "return_type"} -> {"string", "absent"}
    [] x = "ttl" -> {"negative", "string", "absent"}
    [] x = "count" -> {"negative", "string", "absent"}
    [] x = "map_policy" -> {"null", "badmap", "long", "absent"}
    [] OTHER -> Kind \ {"toolong", "negative", "null"}

Arrays(op) ==
  {RightArray(op)} \cup
  UNION {{[RightArray(op) EXCEPT !.e[x] = k] : k \in Tried(x)} : x \in Uses(op)}

MCInputs == UNION {Arrays(op) : op \in Op}

MCIndexes == DefaultIndex..(Len(Collection) + 1)
MCValues == {IntVal(1), StringVal("s"), <<"float", 0>>, ListVal(<<IntVal(1), IntVal(2)>>)}

(* Arrays written by hand: each key missing, or of some type. *)
AnyValue == MCValues \cup {ListVal(<<IntVal(1)>>), ListVal(<<StringVal("s"), IntVal(1)>>),
                           KeyedVal(<<IntVal(1), IntVal(2)>>)}
MCWritten ==
  UNION {[ks -> AnyValue \cup {StringVal(o) : o \in {"=", "BETWEEN", "CONTAINS", "RANGE",
                                                     "GEOCONTAINS", "GEOWITHIN", "other"}}] :
         ks \in {{}, {"bin", "op"}, {"bin", "op", "val"}, {"op", "val", "index_type"}}}
  \cup {[bin |-> StringVal("b"), op |-> StringVal(o), val |-> v, index_type |-> i] :
          o \in {"=", "BETWEEN", "CONTAINS", "RANGE", "GEOCONTAINS"}, v \in AnyValue,
          i \in {IntVal(n) : n \in Indexes} \cup {StringVal("1")}}

MCInit == Init /\ PredicatesInit

MCNext ==
  \/ predicate = NoPredicate /\ Next /\ UNCHANGED predicateVars
  \/ asked = <<>> /\ phase = "adding" /\ PredicatesNext /\ UNCHANGED vars

MCSpec == MCInit /\ [][MCNext]_<<vars, predicateVars>>
=============================================================================
