----------------------------- MODULE Conversions -----------------------------
(***************************************************************************)
(* Values on their way from a script into a record and back.               *)
(*                                                                         *)
(* put() converts a PHP array of bins, at any depth, into the library's    *)
(* values; what has no counterpart goes through the chosen serializer.     *)
(* Another script, with its own deserializer or none, or a client in       *)
(* another language, reads or wrote the record.  The key travels too: in   *)
(* the array that initKey makes, and in the one get() hands out.           *)
(*                                                                         *)
(* A value is a pair of its type and its content.  A text is a pair too:   *)
(* what is before its first NUL byte, and what is after it or "".  An      *)
(* array is a sequence of keys and values, a list one of values, a map a   *)
(* set of pairs.                                                           *)
(*                                                                         *)
(* A definition named Mut_<fault>_<name> is <name> with that fault in it.  *)
(*                                                                         *)
(* Source: conversions.c, serializers.c, client/put.c, client/get.c,       *)
(* client/aerospike_class.c.                                               *)
(***************************************************************************)
EXTENDS Naturals, Sequences, FiniteSets

CONSTANTS
    Zvals,          \* PHP values, with all their parts
    AsVals,         \* values of the library, with all their parts
    Depth,          \* how deep each of them is nested
    MaxDepth,       \* a bound on that
    Unserialisable, \* closures, and PHP values that hold one
    Decimal,        \* the texts that are decimal numbers, and these numbers
    LongNames,      \* texts longer than AS_BIN_NAME_MAX_LEN
    Digests,        \* texts of AS_DIGEST_VALUE_SIZE bytes
    Records,        \* the arrays of bins scripts put
    ForeignValues,  \* values other clients store
    PrimaryKeys     \* what scripts give initKey

VARIABLES
    writer,         \* the serializer of the script that puts, and whether one is registered
    key,            \* the key array in use
    given,          \* the record put, or NoRecord
    stored,         \* the record of the server: NoRecord, or its bins
    storedKey,      \* and the digest it is under
    deserializer,   \* the reader has a deserializer registered
    got,            \* the array get() returned, unless the script got an exception
    phase           \* "new", "stored", "refused", "read", "unread", "threw"

vars == <<writer, key, given, stored, storedKey, deserializer, got, phase>>

Failed == <<"failed", "">>      \* err is set and there is no value
Undef == <<"undef", "">>        \* IS_UNDEF, which a script sees as a missing item
NoRecord == {}
NoKey == <<"absent", "">>

Writers == [serializer : {"NONE", "PHP", "USER"}, registered : BOOLEAN]

ZvalTypes ==
  {"long", "double", "string", "array", "object", "other", "ref", "Bytes", "bytes_like", "GeoJSON", "geo_like"}

AsValTypes ==
  {"integer", "double", "string", "blob", "phpbytes", "otherbytes", "list", "map", "geojson", "nil"}

Tag(v) == v[1]
Content(v) == v[2]

IsSequence(s) == Len(s) \in Nat /\ DOMAIN s = 1..Len(s)

(* The values directly in a value. *)
Parts(v) ==
  CASE Tag(v) = "array" -> {Content(v)[i][2] : i \in 1..Len(Content(v))}
    [] Tag(v) = "list" -> {Content(v)[i] : i \in 1..Len(Content(v))}
    [] Tag(v) = "map" -> {e[1] : e \in Content(v)} \cup {e[2] : e \in Content(v)}
    [] OTHER -> {}

(* Values are trees of finite depth: what is in an array by reference is a  *)
(* value of its own, which the conversions do not enter.                    *)
ASSUME TreeAssumption ==
  /\ MaxDepth \in Nat
  /\ Depth \in [Zvals \cup AsVals -> 0..MaxDepth]
  /\ \A v \in Zvals : Parts(v) \subseteq Zvals
  /\ \A av \in AsVals : Parts(av) \subseteq AsVals
  /\ \A v \in Zvals \cup AsVals : \A w \in Parts(v) : Depth[w] < Depth[v]

ASSUME ZvalAssumption ==
  \A v \in Zvals :
    /\ v = <<Tag(v), Content(v)>> /\ Tag(v) \in ZvalTypes
    /\ Tag(v) = "array" =>
         /\ IsSequence(Content(v))
         /\ \A i \in 1..Len(Content(v)) :
              LET k == Content(v)[i][1] IN k = <<Tag(k), Content(k)>> /\ Tag(k) \in {"int", "str"}
    /\ Tag(v) = "ref" => Content(v) \in Zvals

(* What strdup, or a C string in the library's hands, keeps of a text. *)
Cut(text) == <<text[1], "">>

(* add_assoc_zval and the other symtable calls: a decimal text is an        *)
(* integer key.                                                             *)
Symtable(text) ==
  IF text[1] \in DOMAIN Decimal /\ text[2] = "" THEN <<"int", Decimal[text[1]]>> ELSE <<"str", text>>

(* Of several entries under one name the last is kept. *)
Kept(names) == {i \in DOMAIN names : \A k \in DOMAIN names : k > i => names[k] # names[i]}

-----------------------------------------------------------------------------
(* From PHP.  item is what has become of the values in the value.           *)

Serialisable(v) == v \notin Unserialisable

(* A reference is serialised as what it refers to. *)
Deref(v) == IF Tag(v) = "ref" THEN Content(v) ELSE v

serialize_with_user_function(v, w) ==
  IF w.registered /\ Serialisable(v) THEN <<"blob", Deref(v)>> ELSE Failed

serialize_php_object(v, w) ==
  CASE w.serializer = "USER" -> serialize_with_user_function(v, w)
    [] w.serializer = "PHP" -> IF Serialisable(v) THEN <<"phpbytes", Deref(v)>> ELSE Failed
    [] OTHER -> Failed

hashtable_is_list(items) == \A i \in 1..Len(items) : items[i][1] = <<"int", i - 1>>

(* One item that fails fails the array. *)
Mut_SkipsItem_z_hashtable_to_as_list(items, item) ==
  LET vals == [i \in 1..Len(items) |-> item[items[i][2]]]
  IN <<"list", SelectSeq(vals, LAMBDA v : v # Failed)>>

z_hashtable_to_as_list(items, item) ==
  IF \E i \in 1..Len(items) : item[items[i][2]] = Failed THEN Failed
  ELSE <<"list", [i \in 1..Len(items) |-> item[items[i][2]]]>>

AsKey(k) == IF Tag(k) = "int" THEN <<"integer", Content(k)>> ELSE <<"string", Cut(Content(k))>>

Mut_KeepsFirst_z_hashtable_to_as_map(items, item) ==
  LET keys == [i \in 1..Len(items) |-> AsKey(items[i][1])]
      first == {i \in 1..Len(items) : \A k \in 1..(i - 1) : keys[k] # keys[i]}
  IN IF \E i \in 1..Len(items) : item[items[i][2]] = Failed THEN Failed
     ELSE <<"map", {<<keys[i], item[items[i][2]]>> : i \in first}>>

z_hashtable_to_as_map(items, item) ==
  LET keys == [i \in 1..Len(items) |-> AsKey(items[i][1])]
  IN IF \E i \in 1..Len(items) : item[items[i][2]] = Failed THEN Failed
     ELSE <<"map", {<<keys[i], item[items[i][2]]>> : i \in Kept(keys)}>>

(* The class of an object is compared with "Aerospike\Bytes", and then with *)
(* "Aerospike\GeoJSON", over the length of its own name only: "A" looks     *)
(* like Bytes and "Aerospike\G" like GeoJSON.                               *)
convert_zval(v, w, item) ==
  CASE Tag(v) = "long" -> <<"integer", Content(v)>>
    [] Tag(v) = "double" -> v
    [] Tag(v) = "string" -> <<"string", Cut(Content(v))>>
    [] Tag(v) = "array" -> IF hashtable_is_list(Content(v))
                           THEN z_hashtable_to_as_list(Content(v), item)
                           ELSE z_hashtable_to_as_map(Content(v), item)
    [] Tag(v) \in {"Bytes", "bytes_like"} -> IF Tag(Content(v)) = "text" THEN <<"blob", Content(v)>> ELSE Failed
    [] Tag(v) \in {"GeoJSON", "geo_like"} -> IF Tag(Content(v)) = "text" THEN <<"geojson", Content(v)>> ELSE Failed
    [] OTHER -> serialize_php_object(v, w)

zval_to_as_val(v, w) ==
  LET conv[z \in Zvals] == convert_zval(z, w, [p \in Parts(z) |-> conv[p]]) IN conv[v]

(* The library has room for what put() makes. *)
ASSUME AsValAssumption ==
  /\ \A w \in Writers, v \in Zvals : zval_to_as_val(v, w) \in AsVals \cup {Failed}
  /\ \A av \in AsVals :
       /\ Tag(av) \in AsValTypes
       /\ Tag(av) \in {"blob", "phpbytes"} => Content(av) \notin {Failed, Undef}
       /\ Tag(av) = "list" => IsSequence(Content(av))

(* The values a bin takes. *)
add_zval_to_record(v, w) ==
  LET av == zval_to_as_val(v, w)
  IN IF Tag(av) \in {"integer", "double", "string", "blob", "phpbytes", "list", "map", "geojson"}
     THEN av ELSE Failed

(* The first bin that fails ends it. *)
z_hashtable_to_as_record(bins, w) ==
  LET names == [i \in 1..Len(bins) |-> Cut(Content(bins[i][1]))]
  IN IF \E i \in 1..Len(bins) :
          \/ Tag(bins[i][1]) = "int" \/ Content(bins[i][1]) \in LongNames
          \/ add_zval_to_record(bins[i][2], w) = Failed
     THEN Failed
     ELSE <<"record", {<<names[i], add_zval_to_record(bins[i][2], w)>> : i \in Kept(names)}>>

-----------------------------------------------------------------------------
(* To PHP.  A list is read as an array in order, a map as a set of items.   *)

as_bytes_to_zval_bytes(content) == <<"Bytes", content>>

(* The user's function throws at what no serializer wrote. *)
unserialize_with_user_function(content) == IF Tag(content) = "text" THEN Undef ELSE content

unserialize_as_bytes(b, d) ==
  CASE Tag(b) = "blob" -> IF d THEN unserialize_with_user_function(Content(b))
                          ELSE as_bytes_to_zval_bytes(Content(b))
    [] Tag(b) = "phpbytes" -> IF Tag(Content(b)) = "text" THEN Failed ELSE Content(b)
    [] OTHER -> Failed

as_list_to_zval(vals, item) ==
  IF \E i \in 1..Len(vals) : item[vals[i]] = Failed THEN Failed
  ELSE <<"list", [i \in 1..Len(vals) |-> item[vals[i]]]>>

ArrayKey(z) == IF Tag(z) = "long" THEN <<"int", Content(z)>> ELSE Symtable(Cut(Content(z)))

(* Keys must be strings or integers.  Of the entries whose keys become one  *)
(* the library's order decides which is kept.                               *)
Mut_SkipsKey_as_map_to_zval(entries, item) ==
  LET good == {e \in entries : Tag(item[e[1]]) \in {"string", "long"}}
      keys == {ArrayKey(item[e[1]]) : e \in good}
      Entry(k) == CHOOSE e \in good : ArrayKey(item[e[1]]) = k
  IN IF \E e \in good : item[e[2]] = Failed THEN Failed
     ELSE <<"hash", {<<k, item[Entry(k)[2]]>> : k \in keys}>>

as_map_to_zval(entries, item) ==
  LET keys == {ArrayKey(item[e[1]]) : e \in entries}
      Entry(k) == CHOOSE e \in entries : ArrayKey(item[e[1]]) = k
  IN IF \E e \in entries : Tag(item[e[1]]) \notin {"string", "long"} \/ item[e[2]] = Failed THEN Failed
     ELSE <<"hash", {<<k, item[Entry(k)[2]]>> : k \in keys}>>

convert_as_val(av, d, item) ==
  CASE Tag(av) = "integer" -> <<"long", Content(av)>>
    [] Tag(av) = "double" -> av
    [] Tag(av) = "string" -> <<"string", Cut(Content(av))>>
    [] Tag(av) = "list" -> as_list_to_zval(Content(av), item)
    [] Tag(av) = "map" -> as_map_to_zval(Content(av), item)
    [] Tag(av) = "geojson" -> <<"GeoJSON", Content(av)>>
    [] Tag(av) \in {"blob", "phpbytes", "otherbytes"} -> unserialize_as_bytes(av, d)
    [] OTHER -> Undef

as_val_to_zval(av, d) ==
  LET conv[a \in AsVals] == convert_as_val(a, d, [p \in Parts(a) |-> conv[p]]) IN conv[av]

as_bins_to_zval(bins, d) ==
  IF \E b \in bins : as_val_to_zval(b[2], d) = Failed THEN Failed
  ELSE <<"bins", {<<Symtable(b[1]), as_val_to_zval(b[2], d)>> : b \in bins}>>

(* A value and all that is in it. *)
Within(v) ==
  LET all[z \in Zvals \cup AsVals] == {z} \cup UNION {all[p] : p \in Parts(z)} IN all[v]

(* A deserializer of the script throws somewhere in the value. *)
ThrowsOne(av, d) == d /\ Tag(av) = "blob" /\ Tag(Content(av)) = "text"

Throws(av, d) == \E p \in Within(av) : ThrowsOne(p, d)

-----------------------------------------------------------------------------
(* Keys.  A key array has a "key" or a "digest" entry, or both. *)

NullKey == [pk |-> NoKey, digest |-> NoKey]     \* initKey returned NULL

initKey(pk, is_digest) ==
  CASE Tag(pk) = "string" /\ is_digest ->
         IF Content(pk) \in Digests THEN [NullKey EXCEPT !.digest = pk] ELSE NullKey
    [] Tag(pk) \in {"string", "long"} /\ ~is_digest -> [NullKey EXCEPT !.pk = pk]
    [] OTHER -> NullKey

(* The as_key: a digest, or a primary key the library will hash.  The value *)
(* of a primary key is cut like any C string.                               *)
z_hashtable_to_as_key(k) ==
  CASE k.pk = NoKey -> IF Tag(k.digest) = "string" /\ Content(k.digest) \in Digests
                       THEN <<"digest", Content(k.digest)>> ELSE Failed
    [] Tag(k.pk) = "string" -> <<"string", Cut(Content(k.pk))>>
    [] Tag(k.pk) = "long" -> k.pk
    [] OTHER -> Failed

(* The library hashes the primary key; the digest of a record given by its  *)
(* digest is that digest.                                                   *)
Digest(askey) == IF Tag(askey) = "digest" THEN Content(askey) ELSE <<"hash", askey>>

(* The entry "key" is there in any case, and NULL when not to be shown.     *)
Mut_AsText_as_key_to_zval(askey, show_pk) ==
  [pk |-> CASE ~show_pk \/ Tag(askey) = "digest" -> <<"null", "">>
            [] show_pk /\ Tag(askey) = "long" -> <<"string", <<Content(askey), "">>>>
            [] show_pk /\ Tag(askey) = "string" -> askey,
   digest |-> <<"string", Digest(askey)>>]

as_key_to_zval(askey, show_pk) ==
  [pk |-> IF show_pk /\ Tag(askey) # "digest" THEN askey ELSE <<"null", "">>,
   digest |-> <<"string", Digest(askey)>>]

-----------------------------------------------------------------------------
Init ==
  /\ writer \in Writers
  /\ \E pk \in PrimaryKeys, is_digest \in BOOLEAN : key = initKey(pk, is_digest)
  /\ key # NullKey
  /\ given = NoRecord /\ stored = NoRecord /\ storedKey = Failed
  /\ deserializer = FALSE
  /\ got = NoRecord
  /\ phase = "new"

(* put(): the key, then the record; nothing is sent when either fails, or   *)
(* when there is no bin.                                                    *)
Put(bins) ==
  LET askey == z_hashtable_to_as_key(key)
      rec == z_hashtable_to_as_record(bins, writer)
  IN /\ phase = "new"
     /\ given' = {bins}
     /\ IF bins = <<>> \/ askey = Failed \/ rec = Failed
        THEN phase' = "refused" /\ UNCHANGED <<stored, storedKey>>
        ELSE phase' = "stored" /\ stored' = {Content(rec)} /\ storedKey' = Digest(askey)
     /\ UNCHANGED <<writer, key, deserializer, got>>

(* A client in another language stores a value. *)
ForeignPut(av) ==
  /\ phase = "new"
  /\ stored' = {{<< <<"bin1", "">>, av>>}} /\ storedKey' = Digest(z_hashtable_to_as_key(key))
  /\ phase' = "stored"
  /\ UNCHANGED <<writer, key, given, deserializer, got>>

(* setDeserializer in the script that will read. *)
Register ==
  /\ phase = "stored" /\ ~deserializer
  /\ deserializer' = TRUE
  /\ UNCHANGED <<writer, key, given, stored, storedKey, got, phase>>

(* get(): the record, or an error and an empty array.  The key array it     *)
(* hands out takes the place of the one it was given.  When a deserializer  *)
(* throws the script gets the exception: PHP 7 calls it no more, and the    *)
(* next blob fails the record, PHP 8 takes what follows for converted.      *)
Get(show_pk) ==
  LET askey == z_hashtable_to_as_key(key)
      bins == CHOOSE b \in stored : TRUE
      out == as_bins_to_zval(bins, deserializer)
      throws == \E b \in bins : Throws(b[2], deserializer)
  IN /\ phase = "stored" /\ Digest(askey) = storedKey
     /\ \/ /\ out # Failed /\ ~throws
           /\ got' = {Content(out)} /\ key' = as_key_to_zval(askey, show_pk)
           /\ phase' = "read"
        \/ /\ out = Failed
           /\ got' = {} /\ UNCHANGED key
           /\ phase' = "unread"
        \/ /\ throws
           /\ got' = {}
           /\ \/ UNCHANGED key
              \/ out # Failed /\ key' = as_key_to_zval(askey, show_pk)
           /\ phase' = "threw"
     /\ UNCHANGED <<writer, given, stored, storedKey, deserializer>>

Done == phase \in {"refused", "read", "unread", "threw"} /\ UNCHANGED vars

Next ==
  \/ \E bins \in Records : Put(bins)
  \/ \E av \in ForeignValues : ForeignPut(av)
  \/ Register
  \/ \E show_pk \in BOOLEAN : Get(show_pk)
  \/ Done

Spec == Init /\ [][Next]_vars

(* The inputs are of the kinds above. *)
ASSUME InputAssumption ==
  /\ ForeignValues \subseteq AsVals
  /\ \A bins \in Records :
       /\ IsSequence(bins)
       /\ \A i \in DOMAIN bins : bins[i][2] \in Zvals

-----------------------------------------------------------------------------
(* The reference: what a script may expect of a value. *)

(* It can be stored, with the serializer that was chosen, and so can all    *)
(* that is in it.                                                           *)
StorableOne(v, w) ==
  \/ Tag(v) \in {"long", "double", "string", "array"}
  \/ Tag(v) \in {"Bytes", "bytes_like", "GeoJSON", "geo_like"} /\ Tag(Content(v)) = "text"
  \/ /\ Tag(v) \in {"object", "other", "ref"} /\ Serialisable(v)
     /\ w.serializer = "PHP" \/ (w.serializer = "USER" /\ w.registered)

Storable(v, w) == \A p \in Within(v) : StorableOne(p, w)

(* It comes back as it was: texts and keys end at a NUL, and a reference is *)
(* what it refers to.                                                       *)
SeenKey(k) == IF Tag(k) = "int" THEN k ELSE Symtable(Cut(Content(k)))

SeenOne(v, item) ==
  LET items == Content(v)
      keys == [i \in 1..Len(items) |-> SeenKey(items[i][1])]
  IN CASE Tag(v) = "string" -> <<"string", Cut(Content(v))>>
       [] Tag(v) = "array" ->
            IF \A i \in 1..Len(items) : items[i][1] = <<"int", i - 1>>
            THEN <<"list", [i \in 1..Len(items) |-> item[items[i][2]]]>>
            ELSE <<"hash", {<<keys[i], item[items[i][2]]>> : i \in Kept(keys)}>>
       [] OTHER -> Deref(v)

Seen(v) == LET seen[z \in Zvals] == SeenOne(z, [p \in Parts(z) |-> seen[p]]) IN seen[v]

(* Unless an object in it is taken for one of another class, or an integer  *)
(* key of an array meets a text that is cut to that number.                 *)
PlainOne(v) ==
  LET items == Content(v)
  IN /\ Tag(v) \notin {"bytes_like", "geo_like"}
     /\ Tag(v) = "array" =>
          \A i, k \in 1..Len(items) :
            SeenKey(items[i][1]) = SeenKey(items[k][1]) => AsKey(items[i][1]) = AsKey(items[k][1])

Plain(v) == \A p \in Within(v) : PlainOne(p)

(* A value of another client that get() has to refuse: bytes of a type it   *)
(* does not know, or a map with a key that is neither a text nor an         *)
(* integer.  A nil has no counterpart in PHP either, but is not refused.    *)
KeyOfArray(av, d) ==
  \/ Tag(av) \in {"integer", "string"}
  \/ (Tag(av) = "phpbytes" \/ (d /\ Tag(av) = "blob")) /\ Tag(Content(av)) \in {"string", "long"}

UnreadableOne(av, d) ==
  \/ Tag(av) = "otherbytes"
  \/ Tag(av) = "phpbytes" /\ Tag(Content(av)) = "text"
  \/ Tag(av) = "map" /\ \E e \in Content(av) : ~KeyOfArray(e[1], d)

Unreadable(av, d) == \E p \in Within(av) : UnreadableOne(p, d)

(* What a script sees of a value: an item of a list in its place, an entry  *)
(* of a map under its key or one that became the same key, and of a nil,    *)
(* and of nothing else, that it is not there.                               *)
SeenWholeOne(av, d) ==
  LET Read(p) == as_val_to_zval(p, d)
  IN /\ Read(av) = Undef <=> Tag(av) = "nil"
     /\ Tag(av) = "list" =>
          /\ Len(Content(Read(av))) = Len(Content(av))
          /\ \A i \in 1..Len(Content(av)) : Content(Read(av))[i] = Read(Content(av)[i])
     /\ Tag(av) = "map" =>
          /\ \A e \in Content(av) : \E item \in Content(Read(av)) : item[1] = ArrayKey(Read(e[1]))
          /\ \A item \in Content(Read(av)) : \E e \in Content(av) : item = <<ArrayKey(Read(e[1])), Read(e[2])>>

SeenWhole(av, d) == \A p \in Within(av) : SeenWholeOne(p, d)

-----------------------------------------------------------------------------
(* put() stores the whole record or refuses it: a part that cannot be       *)
(* converted, at any depth, is never left out, though z_hashtable_to_as_list *)
(* answers AEROSPIKE_OK in that case and the error is passed on aside.      *)
PutIsWhole ==
  \A bins \in given :
    LET good ==
          /\ bins # <<>>
          /\ \A i \in 1..Len(bins) :
               Tag(bins[i][1]) # "int" /\ Content(bins[i][1]) \notin LongNames /\ Storable(bins[i][2], writer)
    IN (phase # "refused") <=> good

(* What put() stored get() can read, and returns unchanged to a script      *)
(* whose deserializer matches the writer's serializer: with values and keys *)
(* cut at a NUL byte, objects of a class named like a prefix of             *)
(* Aerospike\Bytes or Aerospike\GeoJSON and clashing keys apart.            *)
RoundTrip ==
  \A bins \in given :
    LET names == [i \in 1..Len(bins) |-> Cut(Content(bins[i][1]))]
    IN /\ phase # "unread"
       /\ (/\ phase = "read"
           /\ writer.serializer = "USER" => deserializer
           /\ \A i \in 1..Len(bins) : Plain(bins[i][2]))
            => got = {{<<Symtable(names[i]), Seen(bins[i][2])>> : i \in Kept(names)}}

(* get() fails as a whole at bytes of an unknown type or a map with keys of *)
(* another kind, wherever in the record they are, and only there, unless    *)
(* the script's deserializer throws.  What it returns has every bin, and of *)
(* each all that is in it, except that nils, which as_val_to_zval answers   *)
(* with IS_UNDEF and AEROSPIKE_OK, are missing, as items and as whole bins. *)
GetIsWhole ==
  \A bins \in stored :
    /\ phase = "unread" => got = {} /\ \E b \in bins : Unreadable(b[2], deserializer)
    /\ phase = "read" => got # {}
    /\ got # {} =>
         /\ \A b \in bins : ~Unreadable(b[2], deserializer) /\ SeenWhole(b[2], deserializer)
         /\ got = {{<<Symtable(b[1]), as_val_to_zval(b[2], deserializer)>> : b \in bins}}

(* The array initKey makes is a key, and the one get() hands out is a key   *)
(* of the same record, or, where it keeps the primary key to itself, none.  *)
KeyNamesRecord ==
  LET askey == z_hashtable_to_as_key(key)
  IN /\ phase \in {"new", "stored"} \/ key.pk # <<"null", "">> => askey # Failed
     /\ askey # Failed /\ stored # {} => Digest(askey) = storedKey
=============================================================================
