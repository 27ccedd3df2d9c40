----------------------------- MODULE Predicates -----------------------------
(***************************************************************************)
(* The predicate of a query: the static helpers Aerospike::predicate* build *)
(* a PHP array, or the script writes one by hand, and query(), aggregate() *)
(* and queryApply() turn it into the where clause of the library's query.  *)
(*                                                                         *)
(* The array is untyped and the two ends are in different files: what one  *)
(* writes the other has to read with the same meaning.  A value is a pair  *)
(* of its PHP type and its content; an array is a function on its keys.    *)
(*                                                                         *)
(* A definition named Mut_<fault>_<name> is <name> with that fault in it.  *)
(*                                                                         *)
(* Source: client/predicate.c, client/query.c.                             *)
(***************************************************************************)
EXTENDS Naturals, Sequences, FiniteSets

CONSTANTS
    Names,          \* names of bins
    Values,         \* what a script gives as the value of a predicate
    Numbers,        \* and as the ends of a range
    Indexes,        \* and as an index type
    Texts,          \* and as GeoJSON
    Written         \* the arrays it writes by hand

VARIABLES
    predicate,      \* the array the script has for its next query, or NoPredicate
    meant,          \* history: what the helper that made it was asked, if one did
    query           \* the query made with it

predicateVars == <<predicate, meant, query>>

IntVal(n) == <<"int", n>>
StringVal(s) == <<"string", s>>
ListVal(s) == <<"list", s>>             \* keys 0, 1, ...
KeyedVal(s) == <<"keyed", s>>           \* as many entries, under other keys
IsType(v, t) == v[1] = t
NullResult == [null |-> TRUE]            \* NULL, where an array is expected

(* AS_INDEX_TYPE_*, of which DEFAULT is not one of a collection. *)
DefaultIndex == 0
Collection == <<"LIST", "MAPKEYS", "MAPVALUES">>

-----------------------------------------------------------------------------
(* The helpers.  A bin is a record of its name and whether it fits.         *)

Predicate(bin, op, v) == [bin |-> StringVal(bin.name), op |-> StringVal(op), val |-> v]
OnIndex(p, i) == [k \in DOMAIN p \cup {"index_type"} |-> IF k = "index_type" THEN IntVal(i) ELSE p[k]]
Scalar(v) == v[1] \in {"int", "string"}
MinMax(min, max) == ListVal(<<IntVal(min), IntVal(max)>>)

predicateEquals(bin, v) ==
  IF bin.fits /\ Scalar(v) THEN Predicate(bin, "=", v) ELSE NullResult
predicateBetween(bin, min, max) ==
  IF bin.fits THEN Predicate(bin, "BETWEEN", MinMax(min, max)) ELSE NullResult

predicateRange(bin, i, min, max) ==
  IF bin.fits THEN OnIndex(Predicate(bin, "RANGE", MinMax(min, max)), i) ELSE NullResult
predicateContains(bin, i, v) ==
  IF bin.fits /\ Scalar(v) THEN OnIndex(Predicate(bin, "CONTAINS", v), i) ELSE NullResult
predicateGeoContainsGeoJSONPoint(bin, json) ==
  IF bin.fits THEN Predicate(bin, "GEOCONTAINS", StringVal(json)) ELSE NullResult
predicateGeoWithinGeoJSONRegion(bin, json) ==
  IF bin.fits THEN Predicate(bin, "GEOWITHIN", StringVal(json)) ELSE NullResult

(* json_encode of finite coordinates: a name for the text it makes. *)
geo_val_to_json(shape) ==
  IF shape = "Point" THEN "json_of_Point" ELSE "json_of_AeroCircle"
predicateGeoContainsPoint(bin) ==
  IF bin.fits THEN Predicate(bin, "GEOCONTAINS", StringVal(geo_val_to_json("Point"))) ELSE NullResult
predicateGeoWithinRadius(bin) ==
  IF bin.fits THEN Predicate(bin, "GEOCONTAINS", StringVal(geo_val_to_json("AeroCircle"))) ELSE NullResult

-----------------------------------------------------------------------------
(* The readers.  Each answers with a status, the code it leaves in the      *)
(* as_error and the clause of the query, NoWhere when there is none.        *)

NoWhere == [on |-> "nothing"]
Clause(bin, on, op, v) == [bin |-> bin, on |-> on, op |-> op, val |-> v]
Fails(code) == [status |-> code, err |-> code, where |-> NoWhere]

(* External: as_query_where takes the clause or answers false. *)
as_query_where(clause, takes, code) ==
  IF takes THEN [status |-> "OK", err |-> "OK", where |-> clause] ELSE Fails(code)

(* A failure that sets the error and returns OK all the same.               *)
Quietly(r) == [r EXCEPT !.status = "OK"]

Mut_AcceptsKeyed_get_min_max_from_zval(v) ==
  v[1] \in {"list", "keyed"} /\ Len(v[2]) = 2 /\ \A i \in 1..2 : IsType(v[2][i], "int")

get_min_max_from_zval(v) ==
  IsType(v, "list") /\ Len(v[2]) = 2 /\ \A i \in 1..2 : IsType(v[2][i], "int")

add_equal_predicate_to_query(bin, v, takes) ==
  Quietly(IF Scalar(v) THEN as_query_where(Clause(bin, "bin", "equal", v), takes, "CLIENT")
          ELSE Fails("PARAM"))

add_between_predicate_to_query(bin, v, takes) ==
  IF get_min_max_from_zval(v) THEN as_query_where(Clause(bin, "bin", "range", v), takes, "PARAM")
  ELSE Fails("PARAM")

(* add_{list,mapkeys,mapvalues}_contains_predicate_to_query *)
add_contains_predicate_to_query(bin, i, v, takes) ==
  IF i \notin DOMAIN Collection THEN Fails("PARAM")
  ELSE Quietly(IF Scalar(v) THEN as_query_where(Clause(bin, Collection[i], "equal", v), takes, "CLIENT")
               ELSE Fails("PARAM"))

(* add_{list,mapkeys,mapvalues}_range_predicate_to_query *)
add_range_predicate_to_query(bin, i, v, takes) ==
  IF get_min_max_from_zval(v) /\ i \in DOMAIN Collection
  THEN as_query_where(Clause(bin, Collection[i], "range", v), takes, "CLIENT")
  ELSE Fails("PARAM")

add_geo_contains_predicate_to_query(bin, v, takes) ==
  IF IsType(v, "string") THEN as_query_where(Clause(bin, "bin", "geo_contains", v), takes, "CLIENT")
  ELSE Fails("CLIENT")
add_geo_within_predicate_to_query(bin, v, takes) ==
  IF IsType(v, "string") THEN as_query_where(Clause(bin, "bin", "geo_within", v), takes, "CLIENT")
  ELSE Fails("CLIENT")

HasIndex(p) == "index_type" \in DOMAIN p /\ IsType(p["index_type"], "int")

add_predicate_to_query(p, takes) ==
  LET op == p["op"][2]
      bin == p["bin"][2]
      v == p["val"]
  IN IF \/ Cardinality(DOMAIN p) < 3
        \/ {"bin", "op", "val"} \ DOMAIN p # {}
        \/ ~IsType(p["bin"], "string") \/ ~IsType(p["op"], "string")
        \/ op \in {"CONTAINS", "RANGE"} /\ ~HasIndex(p)
     THEN Fails("PARAM")
     ELSE CASE op = "=" -> add_equal_predicate_to_query(bin, v, takes)
            [] op = "BETWEEN" -> add_between_predicate_to_query(bin, v, takes)
            [] op = "CONTAINS" -> add_contains_predicate_to_query(bin, p["index_type"][2], v, takes)
            [] op = "RANGE" -> add_range_predicate_to_query(bin, p["index_type"][2], v, takes)
            [] op = "GEOCONTAINS" -> add_geo_contains_predicate_to_query(bin, v, takes)
            [] op = "GEOWITHIN" -> add_geo_within_predicate_to_query(bin, v, takes)
            [] OTHER -> Fails("PARAM")

-----------------------------------------------------------------------------
(* What the helpers are asked, with what it means: the reference.           *)

Bins == [name : Names, fits : BOOLEAN]
OnOf(i) == IF i \in DOMAIN Collection THEN Collection[i] ELSE "no_index"
Say(bin, p, on, op, v) ==
  [right |-> bin.fits /\ (op = "equal" => Scalar(v)), array |-> p, meant |-> Clause(bin.name, on, op, v)]

Asked ==
  {Say(b, predicateEquals(b, v), "bin", "equal", v) : b \in Bins, v \in Values}
  \cup {Say(b, predicateContains(b, i, v), OnOf(i), "equal", v) :
          b \in Bins, v \in Values, i \in Indexes}
  \cup {Say(b, predicateBetween(b, m, n), "bin", "range", MinMax(m, n)) :
          b \in Bins, m \in Numbers, n \in Numbers}
  \cup {Say(b, predicateRange(b, i, m, n), OnOf(i), "range", MinMax(m, n)) :
          b \in Bins, i \in Indexes, m \in Numbers, n \in Numbers}
  \cup {Say(b, predicateGeoContainsGeoJSONPoint(b, t), "bin", "geo_contains", StringVal(t)) :
          b \in Bins, t \in Texts}
  \cup {Say(b, predicateGeoWithinGeoJSONRegion(b, t), "bin", "geo_within", StringVal(t)) :
          b \in Bins, t \in Texts}
  \cup {Say(b, predicateGeoContainsPoint(b), "bin", "geo_contains", StringVal("json_of_Point")) :
          b \in Bins}

(* The keys an array may have. *)
Key == {"bin", "op", "val", "index_type", "other"}

ASSUME WrittenAssumption == \A p \in Written : DOMAIN p \subseteq Key

-----------------------------------------------------------------------------
(* A script makes an array and a query with it. *)

NoPredicate == [made |-> FALSE]
NoQuery == [sent |-> FALSE, refused |-> FALSE, took |-> TRUE, err |-> "OK", where |-> NoWhere]

PredicatesInit == predicate = NoPredicate /\ meant = {} /\ query = NoQuery

Ask ==
  /\ predicate = NoPredicate
  /\ \E h \in Asked : predicate' = h.array /\ meant' = {h}
  /\ UNCHANGED query

WriteByHand ==
  /\ predicate = NoPredicate
  /\ \E p \in Written : predicate' = p /\ meant' = {}
  /\ UNCHANGED query

(* query, queryApply and aggregate: NULL is not a predicate, an empty array *)
(* selects every record.  takes: whether as_query_where takes the clause.   *)
Everything == [status |-> "OK", err |-> "OK", where |-> NoWhere]
Answer(outcome, takes) ==
  [sent |-> outcome.status = "OK", refused |-> outcome.status # "OK",
   took |-> takes, err |-> outcome.err, where |-> outcome.where]

Mut_TakesNull_Outcome(p, takes) ==
  IF p = NullResult \/ DOMAIN p = {} THEN Everything ELSE add_predicate_to_query(p, takes)

(* zend_parse_parameters: an array. *)
Parsed(p) == p # NullResult

Outcome(p, takes) ==
  IF ~Parsed(p) THEN Fails("PARAM")
  ELSE IF DOMAIN p = {} THEN Everything
  ELSE add_predicate_to_query(p, takes)

Query(takes) ==
  /\ predicate # NoPredicate /\ query = NoQuery
  /\ query' = Answer(Outcome(predicate, takes), takes)
  /\ UNCHANGED <<predicate, meant>>

(* The next query of the script. *)
QueryDone ==
  /\ query # NoQuery
  /\ predicate' = NoPredicate /\ meant' = {} /\ query' = NoQuery

PredicatesNext == Ask \/ WriteByHand \/ (\E takes \in BOOLEAN : Query(takes)) \/ QueryDone

PredicatesSpec == PredicatesInit /\ [][PredicatesNext]_predicateVars

-----------------------------------------------------------------------------
(* The exception: an equality the code or the library refuses sets the      *)
(* error and is sent without its clause all the same.                       *)
Unsaid == query.err # "OK" /\ predicate["op"][2] \in {"=", "CONTAINS"}

(* A query sent with the array of a predicate* helper selects what the      *)
(* helper was asked for; one that was asked for something it does not take, *)
(* or on an index that is not of a collection, makes a query that is not    *)
(* sent, and nothing else is refused but by the library.                    *)
(* predicateGeoWithinRadius is left out: see the README.                    *)
PredicatesAsAsked ==
  \A h \in meant :
    /\ query.sent => (h.right /\ query.where = h.meant) \/ Unsaid
    /\ query.refused /\ query.took => ~h.right \/ h.meant.on = "no_index"

(* Whatever array a script writes, its query is sent with a whole clause,   *)
(* or not sent and the error set: never on every record of the set, unless  *)
(* the array is empty.                                                      *)
PredicateNotDropped ==
  /\ query.sent /\ DOMAIN predicate # {} =>
       \/ /\ query.where # NoWhere /\ query.err = "OK"
          /\ query.where.op = "range" => predicate["val"][1] = "list"
       \/ Unsaid
  /\ query.refused => query.err # "OK"
=============================================================================
