------------------------- MODULE ConversionsProofs -------------------------
(***************************************************************************)
(* Proofs about Conversions: for values nested to any depth, in arrays of  *)
(* any length, and any keys.                                               *)
(*                                                                         *)
(* The conversions are recursive.  First each is shown to satisfy its      *)
(* equation (ConvertEquation to SeenEquation), which is by building better *)
(* and better approximations, one for each depth; then what holds of a     *)
(* value if it holds of its parts is shown to hold of all (Shallowest).    *)
(* With these the conversions are compared with the reference value by     *)
(* value (ConvertsStorable, FailsUnreadable, ComesBack), and the state     *)
(* invariant only says which conversion made what.                         *)
(***************************************************************************)
EXTENDS Conversions, WellFoundedInduction, TLAPS

Values == Zvals \cup AsVals

-----------------------------------------------------------------------------
(* Induction on numbers, for a set instead of a predicate.                  *)
LEMMA SetInduction ==
  ASSUME NEW T, 0 \in T, \A n \in Nat : n \in T => n + 1 \in T
  PROVE  \A n \in Nat : n \in T
<1> DEFINE U == {n \in Nat : n \notin T}
           R == OpToRel(<, Nat)
<1>1. SUFFICES ASSUME U # {} PROVE FALSE
  OBVIOUS
<1>2. IsWellFoundedOn(R, Nat)
  BY NatLessThanWellFounded
<1>3. \A x, y \in Nat : x < y => <<x, y>> \in R
  BY DEF OpToRel
<1>4. U \subseteq Nat
  OBVIOUS
<1>5. \E x \in U : \A y \in U : ~ (<<y, x>> \in R)
  <2> HIDE DEF U, R
  <2> QED BY <1>1, <1>2, <1>4, WFMin
<1>6. PICK x \in U : \A y \in U : ~ (<<y, x>> \in R)
  BY <1>5
<1>7. x \in Nat /\ x # 0
  OBVIOUS
<1>8. x - 1 \in Nat /\ (x - 1) + 1 = x
  BY <1>7
<1>9. x - 1 \in U
  BY <1>8
<1> HIDE DEF R, U
<1>10. x - 1 < x
  BY <1>7
<1>11. <<x - 1, x>> \in R
  BY <1>3, <1>7, <1>8, <1>10
<1> QED BY <1>6, <1>9, <1>11

LEMMA ValueFacts ==
  /\ MaxDepth \in Nat
  /\ \A v \in Values : /\ Depth[v] \in Nat /\ Depth[v] < MaxDepth + 1
                      /\ \A p \in Parts(v) : p \in Values /\ Depth[p] \in Nat /\ Depth[p] < Depth[v]
BY TreeAssumption DEF Values

(* What is true of a value whenever it is of its parts is true of all: of   *)
(* those it is not true of, take a shallowest.                              *)
LEMMA Shallowest ==
  ASSUME NEW T, T \subseteq Values, T # {}
  PROVE  \E v \in T : \A p \in Parts(v) : p \notin T
<1> SUFFICES ASSUME \A v \in T : \E p \in Parts(v) : p \in T
             PROVE  FALSE
  OBVIOUS
<1> DEFINE N == {n \in Nat : \A v \in T : Depth[v] >= n}
<1>1. \A v \in T : Depth[v] \in Nat /\ Depth[v] <= MaxDepth
  BY TreeAssumption DEF Values
<1>2. 0 \in N
  BY <1>1
<1>3. ASSUME NEW n \in Nat, n \in N
      PROVE  n + 1 \in N
  <2>1. ASSUME NEW v \in T
        PROVE  Depth[v] >= n + 1
    <3>1. PICK p \in Parts(v) : p \in T
      OBVIOUS
    <3>2. Depth[p] < Depth[v]
      BY <3>1, TreeAssumption DEF Values
    <3>3. Depth[p] >= n
      BY <1>3, <3>1
    <3> QED BY <1>1, <3>1, <3>2, <3>3
  <2> QED BY <2>1
<1>4. MaxDepth + 1 \in N
  <2> HIDE DEF N
  <2>1. \A n \in Nat : n \in N
    BY <1>2, <1>3, SetInduction
  <2> QED BY <2>1, TreeAssumption
<1> QED BY <1>1, <1>4, TreeAssumption

-----------------------------------------------------------------------------
(* zval_to_as_val converts a value from what has become of its parts. *)
LEMMA ConvertEquation ==
  ASSUME NEW w, NEW v \in Zvals
  PROVE  zval_to_as_val(v, w) = convert_zval(v, w, [p \in Parts(v) |-> zval_to_as_val(p, w)])
<1> DEFINE Step(z, g) == convert_zval(z, w, [p \in Parts(z) |-> g[p]])
           Right(n, g) == g = [z \in Zvals |-> g[z]] /\ \A z \in Zvals : Depth[z] < n => g[z] = Step(z, g)
           N == {n \in Nat : \E g : Right(n, g)}
<1>1. 0 \in N
  <2>1. Right(0, [z \in Zvals |-> Failed])
    BY TreeAssumption
  <2> QED BY <2>1
<1>2. ASSUME NEW n \in Nat, n \in N
      PROVE  n + 1 \in N
  <2>1. PICK g : Right(n, g)
    BY <1>2
  <2> DEFINE h == [z \in Zvals |-> Step(z, g)]
  <2>2. ASSUME NEW z \in Zvals, Depth[z] < n + 1
        PROVE  h[z] = Step(z, h)
    <3>1. \A p \in Parts(z) : p \in Zvals /\ Depth[p] < n /\ h[p] = g[p]
      BY <2>1, <2>2, TreeAssumption
    <3>2. h[z] = Step(z, g)
      OBVIOUS
    <3> HIDE DEF h
    <3>3. [p \in Parts(z) |-> h[p]] = [p \in Parts(z) |-> g[p]]
      BY <3>1
    <3> QED BY <3>2, <3>3
  <2>3. Right(n + 1, h)
    BY <2>2
  <2>4. \E k : Right(n + 1, k)
    BY <2>3
  <2> QED BY <2>4
<1>3. \A n \in Nat : n \in N
  <2> HIDE DEF N
  <2> QED BY <1>1, <1>2, SetInduction
<1>4. PICK g : Right(MaxDepth + 1, g)
  <2>1. MaxDepth + 1 \in N
    BY <1>3, TreeAssumption
  <2> QED BY <2>1
<1>5. g = [z \in Zvals |-> Step(z, g)]
  <2>1. \A z \in Zvals : Depth[z] < MaxDepth + 1
    BY TreeAssumption
  <2> HIDE DEF Step
  <2>2. \A z \in Zvals : g[z] = Step(z, g)
    BY <1>4, <2>1
  <2> QED BY <1>4, <2>2
<1> DEFINE conv[z \in Zvals] == convert_zval(z, w, [p \in Parts(z) |-> conv[p]])
<1>6. conv = [z \in Zvals |-> Step(z, conv)]
  BY <1>5
<1>7. \A z : zval_to_as_val(z, w) = conv[z]
  BY DEF zval_to_as_val
<1>8. conv[v] = Step(v, conv)
  <2> HIDE DEF conv, Step
  <2> QED BY <1>6
<1> HIDE DEF conv
<1>9. [p \in Parts(v) |-> zval_to_as_val(p, w)] = [p \in Parts(v) |-> conv[p]]
  BY <1>7
<1> QED BY <1>7, <1>8, <1>9

(* as_val_to_zval, likewise. *)
LEMMA ReadEquation ==
  ASSUME NEW d, NEW v \in AsVals
  PROVE  as_val_to_zval(v, d) = convert_as_val(v, d, [p \in Parts(v) |-> as_val_to_zval(p, d)])
<1> DEFINE Step(z, g) == convert_as_val(z, d, [p \in Parts(z) |-> g[p]])
           Right(n, g) == g = [z \in AsVals |-> g[z]] /\ \A z \in AsVals : Depth[z] < n => g[z] = Step(z, g)
           N == {n \in Nat : \E g : Right(n, g)}
<1>1. 0 \in N
  <2>1. Right(0, [z \in AsVals |-> Failed])
    BY TreeAssumption
  <2> QED BY <2>1
<1>2. ASSUME NEW n \in Nat, n \in N
      PROVE  n + 1 \in N
  <2>1. PICK g : Right(n, g)
    BY <1>2
  <2> DEFINE h == [z \in AsVals |-> Step(z, g)]
  <2>2. ASSUME NEW z \in AsVals, Depth[z] < n + 1
        PROVE  h[z] = Step(z, h)
    <3>1. \A p \in Parts(z) : p \in AsVals /\ Depth[p] < n /\ h[p] = g[p]
      BY <2>1, <2>2, TreeAssumption
    <3>2. h[z] = Step(z, g)
      OBVIOUS
    <3> HIDE DEF h
    <3>3. [p \in Parts(z) |-> h[p]] = [p \in Parts(z) |-> g[p]]
      BY <3>1
    <3> QED BY <3>2, <3>3
  <2>3. Right(n + 1, h)
    BY <2>2
  <2>4. \E k : Right(n + 1, k)
    BY <2>3
  <2> QED BY <2>4
<1>3. \A n \in Nat : n \in N
  <2> HIDE DEF N
  <2> QED BY <1>1, <1>2, SetInduction
<1>4. PICK g : Right(MaxDepth + 1, g)
  <2>1. MaxDepth + 1 \in N
    BY <1>3, TreeAssumption
  <2> QED BY <2>1
<1>5. g = [z \in AsVals |-> Step(z, g)]
  <2>1. \A z \in AsVals : Depth[z] < MaxDepth + 1
    BY TreeAssumption
  <2> HIDE DEF Step
  <2>2. \A z \in AsVals : g[z] = Step(z, g)
    BY <1>4, <2>1
  <2> QED BY <1>4, <2>2
<1> DEFINE conv[z \in AsVals] == convert_as_val(z, d, [p \in Parts(z) |-> conv[p]])
<1>6. conv = [z \in AsVals |-> Step(z, conv)]
  BY <1>5
<1>7. \A z : as_val_to_zval(z, d) = conv[z]
  BY DEF as_val_to_zval
<1>8. conv[v] = Step(v, conv)
  <2> HIDE DEF conv, Step
  <2> QED BY <1>6
<1> HIDE DEF conv
<1>9. [p \in Parts(v) |-> as_val_to_zval(p, d)] = [p \in Parts(v) |-> conv[p]]
  BY <1>7
<1> QED BY <1>7, <1>8, <1>9

(* What is within a value: itself, and what is within its parts. *)
LEMMA WithinEquation ==
  ASSUME NEW v \in Values
  PROVE  Within(v) = {v} \cup UNION {Within(p) : p \in Parts(v)}
<1> DEFINE Step(z, g) == {z} \cup UNION {g[p] : p \in Parts(z)}
           Right(n, g) == g = [z \in Values |-> g[z]] /\ \A z \in Values : Depth[z] < n => g[z] = Step(z, g)
           N == {n \in Nat : \E g : Right(n, g)}
<1>1. 0 \in N
  <2>1. Right(0, [z \in Values |-> Failed])
    BY ValueFacts
  <2> QED BY <2>1
<1>2. ASSUME NEW n \in Nat, n \in N
      PROVE  n + 1 \in N
  <2>1. PICK g : Right(n, g)
    BY <1>2
  <2> DEFINE h == [z \in Values |-> Step(z, g)]
  <2>2. ASSUME NEW z \in Values, Depth[z] < n + 1
        PROVE  h[z] = Step(z, h)
    <3>1. \A p \in Parts(z) : p \in Values /\ Depth[p] < n /\ h[p] = g[p]
      <4>1. ASSUME NEW p \in Parts(z)
            PROVE  p \in Values /\ Depth[p] < n /\ h[p] = g[p]
        <5>1. p \in Values /\ Depth[p] \in Nat /\ Depth[z] \in Nat /\ Depth[p] < Depth[z]
          BY ValueFacts
        <5>2. Depth[p] < n
          BY <2>2, <5>1
        <5>3. g[p] = Step(p, g)
          BY <2>1, <5>1, <5>2
        <5>4. h[p] = Step(p, g)
          BY <5>1
        <5> HIDE DEF h, Step
        <5> QED BY <5>1, <5>2, <5>3, <5>4
      <4> QED BY <4>1
    <3>2. h[z] = Step(z, g)
      OBVIOUS
    <3> HIDE DEF h
    <3>3. {h[p] : p \in Parts(z)} = {g[p] : p \in Parts(z)}
      BY <3>1
    <3> QED BY <3>2, <3>3
  <2>3. Right(n + 1, h)
    BY <2>2
  <2>4. \E k : Right(n + 1, k)
    BY <2>3
  <2> QED BY <2>4
<1>3. \A n \in Nat : n \in N
  <2> HIDE DEF N
  <2> QED BY <1>1, <1>2, SetInduction
<1>4. PICK g : Right(MaxDepth + 1, g)
  <2>1. MaxDepth + 1 \in N
    <3> HIDE DEF N
    <3> QED BY <1>3, TreeAssumption
  <2> QED BY <2>1
<1>5. g = [z \in Values |-> Step(z, g)]
  <2>1. \A z \in Values : Depth[z] < MaxDepth + 1
    BY ValueFacts
  <2> HIDE DEF Step
  <2>2. \A z \in Values : g[z] = Step(z, g)
    BY <1>4, <2>1
  <2> QED BY <1>4, <2>2
<1> DEFINE all[z \in Zvals \cup AsVals] == {z} \cup UNION {all[p] : p \in Parts(z)}
<1>6. all = [z \in Values |-> Step(z, all)]
  BY <1>5 DEF Values
<1>7. \A z : Within(z) = all[z]
  BY DEF Within
<1>8. all[v] = Step(v, all)
  <2> HIDE DEF all, Step
  <2> QED BY <1>6
<1> HIDE DEF all
<1>9. {Within(p) : p \in Parts(v)} = {all[p] : p \in Parts(v)}
  BY <1>7
<1> QED BY <1>7, <1>8, <1>9

(* And what a script may expect of a value. *)
LEMMA SeenEquation ==
  ASSUME NEW v \in Zvals
  PROVE  Seen(v) = SeenOne(v, [p \in Parts(v) |-> Seen(p)])
<1> DEFINE Step(z, g) == SeenOne(z, [p \in Parts(z) |-> g[p]])
           Right(n, g) == g = [z \in Zvals |-> g[z]] /\ \A z \in Zvals : Depth[z] < n => g[z] = Step(z, g)
           N == {n \in Nat : \E g : Right(n, g)}
<1>1. 0 \in N
  <2>1. Right(0, [z \in Zvals |-> Failed])
    BY TreeAssumption
  <2> QED BY <2>1
<1>2. ASSUME NEW n \in Nat, n \in N
      PROVE  n + 1 \in N
  <2>1. PICK g : Right(n, g)
    BY <1>2
  <2> DEFINE h == [z \in Zvals |-> Step(z, g)]
  <2>2. ASSUME NEW z \in Zvals, Depth[z] < n + 1
        PROVE  h[z] = Step(z, h)
    <3>1. \A p \in Parts(z) : p \in Zvals /\ Depth[p] < n /\ h[p] = g[p]
      BY <2>1, <2>2, TreeAssumption
    <3>2. h[z] = Step(z, g)
      OBVIOUS
    <3> HIDE DEF h
    <3>3. [p \in Parts(z) |-> h[p]] = [p \in Parts(z) |-> g[p]]
      BY <3>1
    <3> QED BY <3>2, <3>3
  <2>3. Right(n + 1, h)
    BY <2>2
  <2>4. \E k : Right(n + 1, k)
    BY <2>3
  <2> QED BY <2>4
<1>3. \A n \in Nat : n \in N
  <2> HIDE DEF N
  <2> QED BY <1>1, <1>2, SetInduction
<1>4. PICK g : Right(MaxDepth + 1, g)
  <2>1. MaxDepth + 1 \in N
    BY <1>3, TreeAssumption
  <2> QED BY <2>1
<1>5. g = [z \in Zvals |-> Step(z, g)]
  <2>1. \A z \in Zvals : Depth[z] < MaxDepth + 1
    BY TreeAssumption
  <2> HIDE DEF Step
  <2>2. \A z \in Zvals : g[z] = Step(z, g)
    BY <1>4, <2>1
  <2> QED BY <1>4, <2>2
<1> DEFINE seen[z \in Zvals] == SeenOne(z, [p \in Parts(z) |-> seen[p]])
<1>6. seen = [z \in Zvals |-> Step(z, seen)]
  BY <1>5
<1>7. \A z : Seen(z) = seen[z]
  BY DEF Seen
<1>8. seen[v] = Step(v, seen)
  <2> HIDE DEF seen, Step
  <2> QED BY <1>6
<1> HIDE DEF seen
<1>9. [p \in Parts(v) |-> Seen(p)] = [p \in Parts(v) |-> seen[p]]
  BY <1>7
<1> QED BY <1>7, <1>8, <1>9

-----------------------------------------------------------------------------
(* What holds of all that is within a value holds of the value and within   *)
(* each of its parts, and conversely.                                       *)
LEMMA WithinFacts ==
  ASSUME NEW v \in Values
  PROVE  /\ v \in Within(v)
         /\ \A p \in Parts(v) : Within(p) \subseteq Within(v)
         /\ \A q \in Within(v) : q = v \/ \E p \in Parts(v) : q \in Within(p)
BY WithinEquation

LEMMA StorableParts ==
  ASSUME NEW v \in Values, NEW w
  PROVE  Storable(v, w) <=> StorableOne(v, w) /\ \A p \in Parts(v) : Storable(p, w)
BY WithinFacts DEF Storable

LEMMA PlainParts ==
  ASSUME NEW v \in Values, Plain(v)
  PROVE  PlainOne(v) /\ \A p \in Parts(v) : Plain(p)
BY WithinFacts DEF Plain

LEMMA UnreadableParts ==
  ASSUME NEW av \in Values, NEW d
  PROVE  Unreadable(av, d) <=> UnreadableOne(av, d) \/ \E p \in Parts(av) : Unreadable(p, d)
BY WithinFacts DEF Unreadable

LEMMA ThrowsParts ==
  ASSUME NEW av \in Values, NEW d, ~Throws(av, d)
  PROVE  ~ThrowsOne(av, d) /\ \A p \in Parts(av) : ~Throws(p, d)
BY WithinFacts DEF Throws

-----------------------------------------------------------------------------
LEMMA FailedTag == Tag(Failed) = "failed"
BY DEF Tag, Failed

(* A value is converted unless it, or something in it, has no counterpart.  *)
LEMMA ConvertsStorable ==
  ASSUME NEW w \in Writers
  PROVE  \A v \in Zvals : zval_to_as_val(v, w) = Failed <=> ~Storable(v, w)
<1> DEFINE T == {v \in Zvals : ~ (zval_to_as_val(v, w) = Failed <=> ~Storable(v, w))}
<1>1. SUFFICES ASSUME T # {} PROVE FALSE
  OBVIOUS
<1>2. PICK v \in T : \A p \in Parts(v) : p \notin T
  <2> HIDE DEF T
  <2>1. T \subseteq Values
    BY DEF T, Values
  <2> QED BY <1>1, <2>1, Shallowest
<1>3. v \in Zvals /\ v \in Values /\ Parts(v) \subseteq Zvals
  BY TreeAssumption DEF Values
<1>4. \A p \in Parts(v) : zval_to_as_val(p, w) = Failed <=> ~Storable(p, w)
  BY <1>2, <1>3
<1> DEFINE item == [p \in Parts(v) |-> zval_to_as_val(p, w)]
<1>5. zval_to_as_val(v, w) = convert_zval(v, w, item)
  BY <1>3, ConvertEquation
<1>6. Storable(v, w) <=> StorableOne(v, w) /\ \A p \in Parts(v) : Storable(p, w)
  BY <1>3, StorableParts
<1>7. Tag(v) \in ZvalTypes /\ w.registered \in BOOLEAN /\ w.serializer \in {"NONE", "PHP", "USER"}
  BY <1>3, ZvalAssumption DEF Writers
<1>8. CASE Tag(v) = "array"
  <2>1. Parts(v) = {Content(v)[i][2] : i \in 1..Len(Content(v))}
    BY <1>8 DEF Parts
  <2>2. \A i \in 1..Len(Content(v)) : item[Content(v)[i][2]] = Failed <=> ~Storable(Content(v)[i][2], w)
    BY <1>4, <2>1
  <2>3. convert_zval(v, w, item) = Failed <=> \E i \in 1..Len(Content(v)) : item[Content(v)[i][2]] = Failed
    <3> HIDE DEF item
    <3> QED BY <1>8 DEF convert_zval, z_hashtable_to_as_list, z_hashtable_to_as_map, Failed
  <2>4. StorableOne(v, w)
    BY <1>8 DEF StorableOne
  <2>5. zval_to_as_val(v, w) = Failed <=> ~Storable(v, w)
    <3> HIDE DEF item
    <3> QED BY <1>5, <1>6, <2>1, <2>2, <2>3, <2>4
  <2> QED BY <1>2, <2>5
<1>9. CASE Tag(v) # "array"
  <2>1. Parts(v) = {}
    BY <1>7, <1>9 DEF Parts, ZvalTypes
  <2>2. Storable(v, w) <=> StorableOne(v, w)
    BY <1>6, <2>1
  <2>3. convert_zval(v, w, item) = Failed <=> ~StorableOne(v, w)
    <3> HIDE DEF item
    <3>1. CASE Tag(v) \in {"object", "other", "ref"}
      <4>1. convert_zval(v, w, item) = serialize_php_object(v, w)
        BY <3>1 DEF convert_zval
      <4>2. serialize_php_object(v, w) = Failed <=> ~StorableOne(v, w)
        BY <1>7, <3>1 DEF serialize_php_object, serialize_with_user_function, StorableOne, Failed
      <4> QED BY <4>1, <4>2
    <3>2. CASE Tag(v) \notin {"object", "other", "ref"}
      <4>1. CASE Tag(v) \in {"long", "double", "string"}
        <5>1. StorableOne(v, w)
          BY <4>1 DEF StorableOne
        <5>2. v # Failed
          BY <4>1, FailedTag
        <5>3. convert_zval(v, w, item) # Failed
          BY <4>1, <5>2 DEF convert_zval, Failed
        <5> QED BY <5>1, <5>3
      <4>2. CASE Tag(v) \in {"Bytes", "bytes_like", "GeoJSON", "geo_like"}
        BY <4>2 DEF convert_zval, StorableOne, Failed
      <4> QED BY <1>7, <1>9, <3>2, <4>1, <4>2 DEF ZvalTypes
    <3> QED BY <3>1, <3>2
  <2>4. zval_to_as_val(v, w) = Failed <=> ~Storable(v, w)
    <3> HIDE DEF item
    <3> QED BY <1>5, <2>2, <2>3
  <2> QED BY <1>2, <2>4
<1> QED BY <1>8, <1>9

(* What it becomes, by its type. *)
LEMMA ConvertedLeaf ==
  ASSUME NEW w \in Writers, NEW v \in Zvals, Tag(v) # "array", NEW av, av = zval_to_as_val(v, w), av # Failed
  PROVE  \/ Tag(v) = "long" /\ av = <<"integer", Content(v)>>
         \/ Tag(v) = "double" /\ av = v
         \/ Tag(v) = "string" /\ av = <<"string", Cut(Content(v))>>
         \/ Tag(v) \in {"Bytes", "bytes_like"} /\ Tag(Content(v)) = "text" /\ av = <<"blob", Content(v)>>
         \/ Tag(v) \in {"GeoJSON", "geo_like"} /\ Tag(Content(v)) = "text" /\ av = <<"geojson", Content(v)>>
         \/ /\ Tag(v) \in {"object", "other", "ref"}
            /\ \/ w.serializer = "USER" /\ av = <<"blob", Deref(v)>>
               \/ w.serializer = "PHP" /\ av = <<"phpbytes", Deref(v)>>
<1> DEFINE item == [p \in Parts(v) |-> zval_to_as_val(p, w)]
<1>1. av = convert_zval(v, w, item)
  BY ConvertEquation
<1>2. Tag(v) \in ZvalTypes
  BY ZvalAssumption
<1> HIDE DEF item
<1>3. CASE Tag(v) \in {"object", "other", "ref"}
  <2>1. av = serialize_php_object(v, w)
    BY <1>1, <1>3 DEF convert_zval
  <2> QED BY <1>3, <2>1 DEF serialize_php_object, serialize_with_user_function
<1>4. CASE Tag(v) \notin {"object", "other", "ref"}
  BY <1>1, <1>2, <1>4 DEF convert_zval, ZvalTypes
<1> QED BY <1>3, <1>4

(* The items of an array once converted, and their keys. *)
SentItems(v, w) == [i \in 1..Len(Content(v)) |-> zval_to_as_val(Content(v)[i][2], w)]
SentKeys(v) == [i \in 1..Len(Content(v)) |-> AsKey(Content(v)[i][1])]

LEMMA ConvertedArray ==
  ASSUME NEW w \in Writers, NEW v \in Zvals, Tag(v) = "array", NEW av, av = zval_to_as_val(v, w), av # Failed
  PROVE  /\ \A i \in 1..Len(Content(v)) :
              Content(v)[i][2] \in Parts(v) /\ Content(v)[i][2] \in Zvals /\ SentItems(v, w)[i] # Failed
         /\ hashtable_is_list(Content(v)) => av = <<"list", SentItems(v, w)>>
         /\ ~hashtable_is_list(Content(v)) =>
              av = <<"map", {<<SentKeys(v)[i], SentItems(v, w)[i]>> : i \in Kept(SentKeys(v))}>>
<1> DEFINE item == [p \in Parts(v) |-> zval_to_as_val(p, w)]
           items == Content(v)
           sent == SentItems(v, w)
           keys == SentKeys(v)
<1>1. av = convert_zval(v, w, item)
  BY ConvertEquation
<1>2. Parts(v) = {items[i][2] : i \in 1..Len(items)} /\ Parts(v) \subseteq Zvals
  BY TreeAssumption DEF Parts
<1>3. \A i \in 1..Len(items) : item[items[i][2]] = sent[i]
  BY <1>2 DEF SentItems
<1>4. Kept(keys) \subseteq 1..Len(items)
  BY DEF Kept, SentKeys
<1>5. av = IF hashtable_is_list(items) THEN z_hashtable_to_as_list(items, item) ELSE z_hashtable_to_as_map(items, item)
  <2> HIDE DEF item
  <2> QED BY <1>1 DEF convert_zval
<1>6. \A i \in 1..Len(items) : sent[i] # Failed
  <2> HIDE DEF item, sent
  <2> QED BY <1>3, <1>5 DEF z_hashtable_to_as_list, z_hashtable_to_as_map
<1>7. ASSUME hashtable_is_list(items)
      PROVE  av = <<"list", sent>>
  <2>1. av = <<"list", [i \in 1..Len(items) |-> item[items[i][2]]]>>
    <3> HIDE DEF item
    <3> QED BY <1>5, <1>7 DEF z_hashtable_to_as_list
  <2>2. [i \in 1..Len(items) |-> item[items[i][2]]] = sent
    <3> HIDE DEF item
    <3> QED BY <1>3 DEF SentItems
  <2> QED BY <2>1, <2>2
<1>8. ASSUME ~hashtable_is_list(items)
      PROVE  av = <<"map", {<<keys[i], sent[i]>> : i \in Kept(keys)}>>
  <2>1. av = <<"map", {<<keys[i], item[items[i][2]]>> : i \in Kept(keys)}>>
    <3> HIDE DEF item
    <3> QED BY <1>5, <1>8 DEF z_hashtable_to_as_map, SentKeys
  <2>2. {<<keys[i], item[items[i][2]]>> : i \in Kept(keys)} = {<<keys[i], sent[i]>> : i \in Kept(keys)}
    <3>1. \A i \in Kept(keys) : item[items[i][2]] = sent[i]
      BY <1>3, <1>4
    <3> HIDE DEF item, sent, keys
    <3> QED BY <3>1
  <2> HIDE DEF item, sent, keys
  <2> QED BY <2>1, <2>2
<1> HIDE DEF item
<1> QED BY <1>2, <1>6, <1>7, <1>8

(* A bin takes whatever a value is converted to. *)
LEMMA BinTakesAll ==
  ASSUME NEW w \in Writers, NEW v \in Zvals
  PROVE  add_zval_to_record(v, w) = zval_to_as_val(v, w)
<1> DEFINE av == zval_to_as_val(v, w)
<1>1. CASE av = Failed
  BY <1>1 DEF add_zval_to_record
<1>2. CASE av # Failed /\ Tag(v) = "array"
  <2>1. \E t \in {"list", "map"} : \E x : av = <<t, x>>
    <3> HIDE DEF av
    <3>1. av # Failed /\ Tag(v) = "array" /\ av = zval_to_as_val(v, w)
      BY <1>2 DEF av
    <3> QED BY <3>1, ConvertedArray
  <2>2. Tag(av) \in {"list", "map"}
    <3>1. \A t, x : Tag(<<t, x>>) = t
      BY DEF Tag
    <3> HIDE DEF av
    <3> QED BY <2>1, <3>1
  <2> QED BY <2>2 DEF add_zval_to_record
<1>3. CASE av # Failed /\ Tag(v) # "array"
  <2>1. \/ Tag(v) = "double" /\ av = v
        \/ \E t \in {"integer", "string", "blob", "geojson", "phpbytes"} : \E x : av = <<t, x>>
    <3>1. \A u : u = av => u # Failed /\ u = zval_to_as_val(v, w)
      BY <1>3
    <3> HIDE DEF av
    <3>2. av # Failed /\ av = zval_to_as_val(v, w) /\ Tag(v) # "array"
      BY <1>3, <3>1
    <3> QED BY <3>2, ConvertedLeaf
  <2>2. Tag(av) \in {"integer", "double", "string", "blob", "geojson", "phpbytes"}
    <3>1. \A t, x : Tag(<<t, x>>) = t
      BY DEF Tag
    <3> HIDE DEF av
    <3> QED BY <2>1, <3>1
  <2> QED BY <2>2 DEF add_zval_to_record
<1> QED BY <1>1, <1>2, <1>3

-----------------------------------------------------------------------------
LEMMA PairTag == \A t, x : Tag(<<t, x>>) = t /\ Content(<<t, x>>) = x
BY DEF Tag, Content

LEMMA UndefTag == Tag(Undef) = "undef"
BY DEF Tag, Undef

(* What a map may have as a key is what is read as a text or an integer.    *)
LEMMA ReadKey ==
  ASSUME NEW d \in BOOLEAN, NEW av \in AsVals
  PROVE  Tag(as_val_to_zval(av, d)) \in {"string", "long"} <=> KeyOfArray(av, d)
<1> DEFINE item == [p \in Parts(av) |-> as_val_to_zval(p, d)]
<1>1. as_val_to_zval(av, d) = convert_as_val(av, d, item)
  BY ReadEquation
<1>2. Tag(av) \in AsValTypes
  BY AsValAssumption
<1> HIDE DEF item
<1>3. CASE Tag(av) \in {"integer", "string"}
  BY <1>1, <1>3, PairTag DEF convert_as_val, KeyOfArray
<1>4. CASE Tag(av) \in {"double", "nil", "geojson", "otherbytes"}
  <2>1. Tag(convert_as_val(av, d, item)) \notin {"string", "long"}
    <3>1. CASE Tag(av) = "double"
      <4>1. convert_as_val(av, d, item) = av
        BY <3>1 DEF convert_as_val
      <4> QED BY <3>1, <4>1
    <3>2. CASE Tag(av) = "nil"
      BY <3>2, UndefTag DEF convert_as_val
    <3>4. CASE Tag(av) = "geojson"
      BY <3>4, PairTag DEF convert_as_val
    <3>3. CASE Tag(av) = "otherbytes"
      BY <3>3, FailedTag DEF convert_as_val, unserialize_as_bytes
    <3> QED BY <1>4, <3>1, <3>2, <3>3, <3>4
  <2> QED BY <1>1, <1>4, <2>1 DEF KeyOfArray
<1>5. CASE Tag(av) \in {"list", "map"}
  <2>1. convert_as_val(av, d, item) = Failed \/ \E t \in {"list", "hash"} : \E x : convert_as_val(av, d, item) = <<t, x>>
    <3>1. CASE Tag(av) = "list"
      <4>1. convert_as_val(av, d, item) = as_list_to_zval(Content(av), item)
        BY <3>1 DEF convert_as_val
      <4> QED BY <4>1 DEF as_list_to_zval
    <3>2. CASE Tag(av) = "map"
      <4>1. convert_as_val(av, d, item) = as_map_to_zval(Content(av), item)
        BY <3>2 DEF convert_as_val
      <4> QED BY <4>1 DEF as_map_to_zval
    <3> QED BY <1>5, <3>1, <3>2
  <2>2. Tag(convert_as_val(av, d, item)) \notin {"string", "long"}
    BY <2>1, PairTag, FailedTag
  <2> QED BY <1>1, <1>5, <2>2 DEF KeyOfArray
<1>6. CASE Tag(av) = "phpbytes"
  <2>1. convert_as_val(av, d, item) = IF Tag(Content(av)) = "text" THEN Failed ELSE Content(av)
    BY <1>6 DEF convert_as_val, unserialize_as_bytes
  <2>2. KeyOfArray(av, d) <=> Tag(Content(av)) \in {"string", "long"}
    BY <1>6 DEF KeyOfArray
  <2> QED BY <1>1, <2>1, <2>2, FailedTag
<1>7. CASE Tag(av) = "blob" /\ d = TRUE
  <2>1. convert_as_val(av, d, item) = IF Tag(Content(av)) = "text" THEN Undef ELSE Content(av)
    BY <1>7 DEF convert_as_val, unserialize_as_bytes, unserialize_with_user_function
  <2>2. KeyOfArray(av, d) <=> Tag(Content(av)) \in {"string", "long"}
    BY <1>7 DEF KeyOfArray
  <2>3. Tag(Undef) = "undef"
    BY PairTag DEF Undef
  <2> QED BY <1>1, <2>1, <2>2, <2>3
<1>8. CASE Tag(av) = "blob" /\ d = FALSE
  <2>1. convert_as_val(av, d, item) = <<"Bytes", Content(av)>>
    BY <1>8 DEF convert_as_val, unserialize_as_bytes, as_bytes_to_zval_bytes
  <2>2. ~KeyOfArray(av, d)
    BY <1>8 DEF KeyOfArray
  <2> QED BY <1>1, <2>1, <2>2, PairTag
<1> QED BY <1>2, <1>3, <1>4, <1>5, <1>6, <1>7, <1>8 DEF AsValTypes

(* A value is read unless it, or something in it, has no counterpart.       *)
LEMMA FailsUnreadable ==
  ASSUME NEW d \in BOOLEAN
  PROVE  \A av \in AsVals : as_val_to_zval(av, d) = Failed <=> Unreadable(av, d)
<1> DEFINE T == {av \in AsVals : ~ (as_val_to_zval(av, d) = Failed <=> Unreadable(av, d))}
<1>1. SUFFICES ASSUME T # {} PROVE FALSE
  OBVIOUS
<1>2. PICK av \in T : \A p \in Parts(av) : p \notin T
  <2> HIDE DEF T
  <2>1. T \subseteq Values
    BY DEF T, Values
  <2> QED BY <1>1, <2>1, Shallowest
<1>3. av \in AsVals /\ av \in Values /\ Parts(av) \subseteq AsVals
  BY TreeAssumption DEF Values
<1>4. \A p \in Parts(av) : as_val_to_zval(p, d) = Failed <=> Unreadable(p, d)
  BY <1>2, <1>3
<1>5. SUFFICES as_val_to_zval(av, d) = Failed <=> Unreadable(av, d)
  BY <1>2
<1> HIDE DEF T
<1> DEFINE item == [p \in Parts(av) |-> as_val_to_zval(p, d)]
<1>6. as_val_to_zval(av, d) = convert_as_val(av, d, item)
  BY <1>3, ReadEquation
<1>7. /\ UnreadableOne(av, d) => Unreadable(av, d)
      /\ \A p \in Parts(av) : Unreadable(p, d) => Unreadable(av, d)
      /\ Unreadable(av, d) => UnreadableOne(av, d) \/ \E p \in Parts(av) : Unreadable(p, d)
  BY <1>3, UnreadableParts
<1>8. \A p \in Parts(av) : item[p] = as_val_to_zval(p, d) /\ (item[p] = Failed <=> Unreadable(p, d))
  BY <1>4
<1>9. Tag(av) \in AsValTypes
  BY <1>3, AsValAssumption
<1> HIDE DEF item
<1>10. CASE Tag(av) = "list"
  <2>1. Parts(av) = {Content(av)[i] : i \in 1..Len(Content(av))}
    BY <1>10 DEF Parts
  <2>2. convert_as_val(av, d, item) = Failed <=> \E i \in 1..Len(Content(av)) : item[Content(av)[i]] = Failed
    BY <1>10 DEF convert_as_val, as_list_to_zval, Failed
  <2>3. ~UnreadableOne(av, d)
    BY <1>10 DEF UnreadableOne
  <2> QED BY <1>6, <1>7, <1>8, <2>1, <2>2, <2>3
<1>11. CASE Tag(av) = "map"
  <2>1. Parts(av) = {e[1] : e \in Content(av)} \cup {e[2] : e \in Content(av)}
    BY <1>11 DEF Parts
  <2>2. convert_as_val(av, d, item) = Failed <=>
          \E e \in Content(av) : Tag(item[e[1]]) \notin {"string", "long"} \/ item[e[2]] = Failed
    BY <1>11 DEF convert_as_val, as_map_to_zval, Failed
  <2>3. UnreadableOne(av, d) <=> \E e \in Content(av) : ~KeyOfArray(e[1], d)
    BY <1>11 DEF UnreadableOne
  <2>4. \A e \in Content(av) : Tag(item[e[1]]) \in {"string", "long"} <=> KeyOfArray(e[1], d)
    BY <1>3, <1>8, <2>1, ReadKey
  <2>5. \A e \in Content(av) : item[e[1]] = Failed => ~KeyOfArray(e[1], d)
    BY <2>4, FailedTag
  <2>6. \A e \in Content(av) :
          /\ item[e[1]] = Failed <=> Unreadable(e[1], d)
          /\ item[e[2]] = Failed <=> Unreadable(e[2], d)
    BY <1>8, <2>1
  <2>8. ASSUME as_val_to_zval(av, d) = Failed
        PROVE  Unreadable(av, d)
    <3>1. PICK e \in Content(av) : Tag(item[e[1]]) \notin {"string", "long"} \/ item[e[2]] = Failed
      BY <1>6, <2>2, <2>8
    <3>2. CASE Tag(item[e[1]]) \notin {"string", "long"}
      BY <1>7, <2>3, <2>4, <3>2
    <3>3. CASE item[e[2]] = Failed
      BY <1>7, <2>1, <2>6, <3>3
    <3> QED BY <3>1, <3>2, <3>3
  <2>9. ASSUME Unreadable(av, d)
        PROVE  as_val_to_zval(av, d) = Failed
    <3>1. PICK e \in Content(av) : ~KeyOfArray(e[1], d) \/ item[e[1]] = Failed \/ item[e[2]] = Failed
      <4>1. CASE UnreadableOne(av, d)
        BY <2>3, <4>1
      <4>2. CASE \E p \in Parts(av) : Unreadable(p, d)
        <5>1. PICK p \in Parts(av) : Unreadable(p, d)
          BY <4>2
        <5>2. PICK e \in Content(av) : p = e[1] \/ p = e[2]
          BY <2>1
        <5> QED BY <2>6, <5>1, <5>2
      <4> QED BY <1>7, <2>9, <4>1, <4>2
    <3>2. Tag(item[e[1]]) \notin {"string", "long"} \/ item[e[2]] = Failed
      BY <2>4, <2>5, <3>1
    <3> QED BY <1>6, <2>2, <3>2
  <2> QED BY <2>8, <2>9
<1>12. CASE Tag(av) \notin {"list", "map"}
  <2>1. Parts(av) = {}
    BY <1>9, <1>12 DEF Parts, AsValTypes
  <2>2. convert_as_val(av, d, item) = Failed <=> UnreadableOne(av, d)
    <3>1. CASE Tag(av) \in {"integer", "string", "geojson", "nil"}
      BY <3>1 DEF convert_as_val, UnreadableOne, Failed, Undef
    <3>2. CASE Tag(av) = "double"
      <4>1. convert_as_val(av, d, item) # Failed
        BY <3>2, FailedTag DEF convert_as_val
      <4> QED BY <3>2, <4>1 DEF UnreadableOne
    <3>3. CASE Tag(av) \in {"blob", "phpbytes", "otherbytes"}
      <4>1. Tag(av) \in {"blob", "phpbytes"} => Content(av) # Failed
        BY <1>3, AsValAssumption
      <4>2. convert_as_val(av, d, item) = unserialize_as_bytes(av, d)
        BY <3>3 DEF convert_as_val
      <4>3. unserialize_as_bytes(av, d) = Failed <=> UnreadableOne(av, d)
        BY <3>3, <4>1 DEF unserialize_as_bytes, unserialize_with_user_function, as_bytes_to_zval_bytes,
                          UnreadableOne, Failed, Undef
      <4> QED BY <4>2, <4>3
    <3> QED BY <1>9, <1>12, <3>1, <3>2, <3>3 DEF AsValTypes
  <2> QED BY <1>6, <1>7, <2>1, <2>2
<1> QED BY <1>10, <1>11, <1>12

-----------------------------------------------------------------------------
(* What is in the list, and in the map, that an array becomes.              *)
LEMMA ConvertedList ==
  ASSUME NEW w \in Writers, NEW v \in Zvals, Tag(v) = "array", hashtable_is_list(Content(v)),
         NEW av, av = zval_to_as_val(v, w), av # Failed
  PROVE  /\ av \in AsVals /\ Tag(av) = "list" /\ Content(av) = SentItems(v, w)
         /\ Len(Content(av)) = Len(Content(v)) /\ Len(Content(v)) \in Nat
         /\ Parts(av) = {SentItems(v, w)[i] : i \in 1..Len(Content(v))}
<1>1. av = <<"list", SentItems(v, w)>>
  BY ConvertedArray
<1>2. Tag(av) = "list" /\ Content(av) = SentItems(v, w)
  BY <1>1, PairTag
<1>3. av \in AsVals
  BY AsValAssumption
<1>4. Len(Content(v)) \in Nat
  BY ZvalAssumption DEF IsSequence
<1>5. Len(SentItems(v, w)) = Len(Content(v))
  BY <1>4 DEF SentItems
<1> QED BY <1>2, <1>3, <1>4, <1>5 DEF Parts

LEMMA ConvertedMap ==
  ASSUME NEW w \in Writers, NEW v \in Zvals, Tag(v) = "array", ~hashtable_is_list(Content(v)),
         NEW av, av = zval_to_as_val(v, w), av # Failed
  PROVE  /\ av \in AsVals /\ Tag(av) = "map"
         /\ Content(av) = {<<SentKeys(v)[i], SentItems(v, w)[i]>> : i \in Kept(SentKeys(v))}
         /\ Kept(SentKeys(v)) \subseteq 1..Len(Content(v))
         /\ \A i \in Kept(SentKeys(v)) : SentKeys(v)[i] \in AsVals
         /\ Parts(av) = {SentKeys(v)[i] : i \in Kept(SentKeys(v))} \cup {SentItems(v, w)[i] : i \in Kept(SentKeys(v))}
<1> DEFINE K == Kept(SentKeys(v))
           keys == SentKeys(v)
           sent == SentItems(v, w)
<1>1. av = <<"map", {<<keys[i], sent[i]>> : i \in K}>>
  BY ConvertedArray
<1>2. Tag(av) = "map" /\ Content(av) = {<<keys[i], sent[i]>> : i \in K}
  BY <1>1, PairTag
<1>3. av \in AsVals
  BY AsValAssumption
<1>4. K \subseteq 1..Len(Content(v))
  BY DEF Kept, SentKeys
<1>5. Parts(av) = {e[1] : e \in Content(av)} \cup {e[2] : e \in Content(av)}
  BY <1>2 DEF Parts
<1> HIDE DEF K, keys, sent
<1>6. Parts(av) = {keys[i] : i \in K} \cup {sent[i] : i \in K}
  <2>1. \A e \in Content(av) : \E i \in K : e[1] = keys[i] /\ e[2] = sent[i]
    BY <1>2
  <2>2. \A i \in K : \E e \in Content(av) : e[1] = keys[i] /\ e[2] = sent[i]
    <3>1. ASSUME NEW i \in K
          PROVE  \E e \in Content(av) : e[1] = keys[i] /\ e[2] = sent[i]
      <4>1. <<keys[i], sent[i]>> \in Content(av)
        BY <1>2
      <4>2. <<keys[i], sent[i]>>[1] = keys[i] /\ <<keys[i], sent[i]>>[2] = sent[i]
        OBVIOUS
      <4> QED BY <4>1, <4>2
    <3> QED BY <3>1
  <2> QED BY <1>5, <2>1, <2>2
<1>7. \A i \in K : keys[i] \in AsVals
  BY <1>3, <1>6, TreeAssumption
<1> QED BY <1>2, <1>3, <1>4, <1>6, <1>7 DEF K, keys, sent

(* Its keys are integers and texts, which any reader can read. *)
LEMMA SentKeyFacts ==
  ASSUME NEW v \in Zvals, Tag(v) = "array", NEW i \in 1..Len(Content(v)), NEW k, k = Content(v)[i][1]
  PROVE  /\ SentKeys(v)[i] = AsKey(k)
         /\ k = <<Tag(k), Content(k)>> /\ Tag(k) \in {"int", "str"}
         /\ Tag(AsKey(k)) \in {"integer", "string"}
<1>1. k = <<Tag(k), Content(k)>> /\ Tag(k) \in {"int", "str"}
  BY ZvalAssumption
<1>2. Tag(AsKey(k)) \in {"integer", "string"}
  BY PairTag DEF AsKey
<1> QED BY <1>1, <1>2 DEF SentKeys

LEMMA ReadableLeaf ==
  ASSUME NEW d, NEW av \in AsVals, Tag(av) \notin {"list", "map"}
  PROVE  /\ Parts(av) = {}
         /\ Unreadable(av, d) <=> UnreadableOne(av, d)
<1>1. Parts(av) = {}
  BY AsValAssumption DEF Parts, AsValTypes
<1> QED BY <1>1, UnreadableParts DEF Values

(* What put() made any reader can read, with a deserializer or without.     *)
LEMMA OwnReadable ==
  ASSUME NEW w \in Writers, NEW d \in BOOLEAN
  PROVE  \A v \in Zvals : zval_to_as_val(v, w) # Failed => ~Unreadable(zval_to_as_val(v, w), d)
<1> DEFINE T == {v \in Zvals : zval_to_as_val(v, w) # Failed /\ Unreadable(zval_to_as_val(v, w), d)}
<1>1. SUFFICES ASSUME T # {} PROVE FALSE
  OBVIOUS
<1>2. PICK v \in T : \A p \in Parts(v) : p \notin T
  <2> HIDE DEF T
  <2>1. T \subseteq Values
    BY DEF T, Values
  <2> QED BY <1>1, <2>1, Shallowest
<1>3. PICK av : av = zval_to_as_val(v, w)
  OBVIOUS
<1>4. v \in Zvals /\ av # Failed /\ Parts(v) \subseteq Zvals
  BY <1>2, <1>3, TreeAssumption
<1>5. \A p \in Parts(v) : zval_to_as_val(p, w) # Failed => ~Unreadable(zval_to_as_val(p, w), d)
  BY <1>2, <1>4
<1>6. SUFFICES ~Unreadable(av, d)
  BY <1>2, <1>3
<1> HIDE DEF T
<1>7. av \in AsVals /\ av \in Values
  BY <1>3, <1>4, AsValAssumption DEF Values
<1>8. CASE Tag(v) # "array"
  <2>1. Tag(av) \notin {"list", "map"} /\ ~UnreadableOne(av, d)
    <3>1. CASE Tag(v) = "double" /\ av = v
      BY <3>1 DEF UnreadableOne
    <3>2. CASE \E t \in {"integer", "string", "blob", "geojson"} : \E x : av = <<t, x>>
      <4>1. Tag(av) \in {"integer", "string", "blob", "geojson"}
        BY <3>2, PairTag
      <4> QED BY <4>1 DEF UnreadableOne
    <3>3. CASE av = <<"phpbytes", Deref(v)>>
      <4>1. Tag(av) = "phpbytes" /\ Content(av) = Deref(v)
        BY <3>3, PairTag
      <4>2. Deref(v) \in Zvals
        BY <1>4, ZvalAssumption DEF Deref
      <4>3. Tag(Deref(v)) # "text"
        BY <4>2, ZvalAssumption DEF ZvalTypes
      <4> QED BY <4>1, <4>3 DEF UnreadableOne
    <3> QED BY <1>3, <1>4, <1>8, <3>1, <3>2, <3>3, ConvertedLeaf
  <2> QED BY <1>7, <2>1, ReadableLeaf
<1>9. CASE Tag(v) = "array"
  <2>1. \A i \in 1..Len(Content(v)) : ~Unreadable(SentItems(v, w)[i], d)
    <3>1. ASSUME NEW i \in 1..Len(Content(v))
          PROVE  ~Unreadable(SentItems(v, w)[i], d)
      <4>1. Content(v)[i][2] \in Parts(v) /\ SentItems(v, w)[i] # Failed
        BY <1>3, <1>4, <1>9, ConvertedArray
      <4>2. SentItems(v, w)[i] = zval_to_as_val(Content(v)[i][2], w)
        BY DEF SentItems
      <4> QED BY <1>5, <4>1, <4>2
    <3> QED BY <3>1
  <2>2. CASE hashtable_is_list(Content(v))
    <3>1. Tag(av) = "list" /\ Parts(av) = {SentItems(v, w)[i] : i \in 1..Len(Content(v))}
      BY <1>3, <1>4, <1>9, <2>2, ConvertedList
    <3>2. ~UnreadableOne(av, d)
      BY <3>1 DEF UnreadableOne
    <3>3. \A p \in Parts(av) : ~Unreadable(p, d)
      BY <2>1, <3>1
    <3> QED BY <1>7, <3>2, <3>3, UnreadableParts
  <2>3. CASE ~hashtable_is_list(Content(v))
    <3> DEFINE K == Kept(SentKeys(v))
               keys == SentKeys(v)
               sent == SentItems(v, w)
    <3>1. /\ Tag(av) = "map" /\ Content(av) = {<<keys[i], sent[i]>> : i \in K}
          /\ K \subseteq 1..Len(Content(v)) /\ \A i \in K : keys[i] \in AsVals
          /\ Parts(av) = {keys[i] : i \in K} \cup {sent[i] : i \in K}
      BY <1>3, <1>4, <1>9, <2>3, ConvertedMap
    <3>2. \A i \in K : Tag(keys[i]) \in {"integer", "string"}
      BY <1>4, <1>9, <3>1, SentKeyFacts
    <3>3. \A i \in K : ~Unreadable(keys[i], d)
      <4>1. ASSUME NEW i \in K
            PROVE  ~Unreadable(keys[i], d)
        <5>1. keys[i] \in AsVals /\ Tag(keys[i]) \in {"integer", "string"}
          BY <3>1, <3>2
        <5> HIDE DEF K, keys, sent
        <5>2. ~UnreadableOne(keys[i], d)
          BY <5>1 DEF UnreadableOne
        <5> QED BY <5>1, <5>2, ReadableLeaf
      <4> QED BY <4>1
    <3>4. \A i \in K : ~Unreadable(sent[i], d)
      BY <2>1, <3>1
    <3> HIDE DEF K, keys, sent
    <3>5. \A p \in Parts(av) : ~Unreadable(p, d)
      BY <3>1, <3>3, <3>4
    <3>6. ~UnreadableOne(av, d)
      <4>1. \A i \in K : KeyOfArray(keys[i], d)
        BY <3>2 DEF KeyOfArray
      <4> QED BY <3>1, <4>1 DEF UnreadableOne
    <3> QED BY <1>7, <3>5, <3>6, UnreadableParts
  <2> QED BY <2>2, <2>3
<1> QED BY <1>8, <1>9

-----------------------------------------------------------------------------
(* A key is read as what a script may expect of it.                         *)
LEMMA SeenKeyRead ==
  ASSUME NEW d, NEW k, k = <<Tag(k), Content(k)>>, Tag(k) \in {"int", "str"},
         AsKey(k) \in AsVals, NEW z, z = as_val_to_zval(AsKey(k), d)
  PROVE  ArrayKey(z) = SeenKey(k) /\ Tag(z) \in {"string", "long"}
<1> DEFINE item == [p \in Parts(AsKey(k)) |-> as_val_to_zval(p, d)]
<1>1. z = convert_as_val(AsKey(k), d, item)
  BY ReadEquation
<1> HIDE DEF item
<1>2. CASE Tag(k) = "int"
  <2>1. AsKey(k) = <<"integer", Content(k)>>
    BY <1>2 DEF AsKey
  <2>2. Tag(AsKey(k)) = "integer" /\ Content(AsKey(k)) = Content(k)
    BY <2>1, PairTag
  <2>3. z = <<"long", Content(k)>>
    BY <1>1, <2>2 DEF convert_as_val
  <2>4. Tag(z) = "long" /\ Content(z) = Content(k)
    BY <2>3, PairTag
  <2>5. ArrayKey(z) = <<"int", Content(k)>>
    BY <2>4 DEF ArrayKey
  <2>6. SeenKey(k) = k
    BY <1>2 DEF SeenKey
  <2> QED BY <1>2, <2>4, <2>5, <2>6
<1>3. CASE Tag(k) = "str"
  <2>1. AsKey(k) = <<"string", Cut(Content(k))>>
    BY <1>3 DEF AsKey
  <2>2. Tag(AsKey(k)) = "string" /\ Content(AsKey(k)) = Cut(Content(k))
    BY <2>1, PairTag
  <2>3. \A t : Cut(Cut(t)) = Cut(t)
    BY DEF Cut
  <2>4. z = <<"string", Cut(Content(k))>>
    BY <1>1, <2>2, <2>3 DEF convert_as_val
  <2>5. Tag(z) = "string" /\ Content(z) = Cut(Content(k))
    BY <2>4, PairTag
  <2>6. ArrayKey(z) = Symtable(Cut(Content(k)))
    BY <2>3, <2>5 DEF ArrayKey
  <2>7. SeenKey(k) = Symtable(Cut(Content(k)))
    BY <1>3 DEF SeenKey
  <2> QED BY <2>5, <2>6, <2>7
<1> QED BY <1>2, <1>3

(* Which entries are kept depends on which names are equal only, and those  *)
(* that are kept have different names.                                      *)
LEMMA KeptFacts ==
  ASSUME NEW n \in Nat, NEW names, DOMAIN names = 1..n
  PROVE  /\ Kept(names) \subseteq 1..n
         /\ \A i, k \in Kept(names) : names[i] = names[k] => i = k
         /\ \A others : (/\ DOMAIN others = 1..n
                         /\ \A i, k \in 1..n : names[i] = names[k] <=> others[i] = others[k])
                        => Kept(others) = Kept(names)
BY DEF Kept

Pairs(K, a, b) == {<<a[i], b[i]>> : i \in K}

(* A map whose keys are read as different keys of an array becomes an array *)
(* of all its entries.                                                      *)
LEMMA ReadMap ==
  ASSUME NEW K, NEW keys, NEW sent, NEW sk, NEW seen, NEW item,
         \A i \in K : /\ Tag(item[keys[i]]) \in {"string", "long"} /\ ArrayKey(item[keys[i]]) = sk[i]
                      /\ item[sent[i]] # Failed /\ item[sent[i]] = seen[i],
         \A i, k \in K : sk[i] = sk[k] => i = k
  PROVE  as_map_to_zval(Pairs(K, keys, sent), item) = <<"hash", Pairs(K, sk, seen)>>
<1> DEFINE E == Pairs(K, keys, sent)
           arrayKeys == {ArrayKey(item[e[1]]) : e \in E}
           Entry(k) == CHOOSE e \in E : ArrayKey(item[e[1]]) = k
<1>1. \A e \in E : \E i \in K : e[1] = keys[i] /\ e[2] = sent[i]
  BY DEF Pairs
<1>2. \A i \in K : \E e \in E : e[1] = keys[i] /\ e[2] = sent[i]
  <2>1. ASSUME NEW i \in K
        PROVE  \E e \in E : e[1] = keys[i] /\ e[2] = sent[i]
    <3>1. <<keys[i], sent[i]>> \in E
      BY DEF Pairs
    <3>2. <<keys[i], sent[i]>>[1] = keys[i] /\ <<keys[i], sent[i]>>[2] = sent[i]
      OBVIOUS
    <3> HIDE DEF E
    <3> QED BY <3>1, <3>2
  <2> QED BY <2>1
<1> HIDE DEF E
<1>3. ~ \E e \in E : Tag(item[e[1]]) \notin {"string", "long"} \/ item[e[2]] = Failed
  BY <1>1
<1>4. as_map_to_zval(E, item) = <<"hash", {<<k, item[Entry(k)[2]]>> : k \in arrayKeys}>>
  BY <1>3, Zenon DEF as_map_to_zval
<1>5. arrayKeys = {sk[i] : i \in K}
  BY <1>1, <1>2
<1>6. \A i \in K : item[Entry(sk[i])[2]] = seen[i]
  <2>1. ASSUME NEW i \in K
        PROVE  item[Entry(sk[i])[2]] = seen[i]
    <3>1. \E e \in E : ArrayKey(item[e[1]]) = sk[i]
      BY <1>2
    <3>2. Entry(sk[i]) \in E /\ ArrayKey(item[Entry(sk[i])[1]]) = sk[i]
      BY <3>1
    <3> HIDE DEF Entry
    <3>3. PICK k \in K : Entry(sk[i])[1] = keys[k] /\ Entry(sk[i])[2] = sent[k]
      BY <1>1, <3>2
    <3>4. sk[k] = sk[i]
      BY <3>2, <3>3
    <3>5. k = i
      BY <3>4
    <3> QED BY <3>3, <3>5
  <2> QED BY <2>1
<1> HIDE DEF arrayKeys, Entry
<1>7. {<<k, item[Entry(k)[2]]>> : k \in arrayKeys} = Pairs(K, sk, seen)
  <2>1. \A x : (\E k \in arrayKeys : x = <<k, item[Entry(k)[2]]>>) <=> (\E i \in K : x = <<sk[i], seen[i]>>)
    BY <1>5, <1>6
  <2> QED BY <2>1 DEF Pairs
<1> QED BY <1>4, <1>7 DEF E

(* What put() stored comes back as a script may expect of it, when no       *)
(* deserializer throws and the reader has one if the writer had a           *)
(* serializer.                                                              *)
LEMMA ComesBack ==
  ASSUME NEW w \in Writers, NEW d \in BOOLEAN, w.serializer = "USER" => d = TRUE
  PROVE  \A v \in Zvals :
           (/\ zval_to_as_val(v, w) # Failed /\ Plain(v)
            /\ ~Throws(zval_to_as_val(v, w), d))
             => as_val_to_zval(zval_to_as_val(v, w), d) = Seen(v)
<1> DEFINE Good(v) == zval_to_as_val(v, w) # Failed /\ Plain(v) /\ ~Throws(zval_to_as_val(v, w), d)
           T == {v \in Zvals : Good(v) /\ as_val_to_zval(zval_to_as_val(v, w), d) # Seen(v)}
<1>1. SUFFICES ASSUME T # {} PROVE FALSE
  OBVIOUS
<1>2. PICK v \in T : \A p \in Parts(v) : p \notin T
  <2> HIDE DEF T
  <2>1. T \subseteq Values
    BY DEF T, Values
  <2> QED BY <1>1, <2>1, Shallowest
<1>3. PICK av : av = zval_to_as_val(v, w)
  OBVIOUS
<1>4. v \in Zvals /\ v \in Values /\ Parts(v) \subseteq Zvals /\ av # Failed /\ Plain(v) /\ ~Throws(av, d)
  BY <1>2, <1>3, TreeAssumption DEF Values
<1>5. \A p \in Parts(v) : Good(p) => as_val_to_zval(zval_to_as_val(p, w), d) = Seen(p)
  BY <1>2, <1>4
<1>6. SUFFICES as_val_to_zval(av, d) = Seen(v)
  BY <1>2, <1>3
<1> HIDE DEF T
<1>7. av \in AsVals /\ av \in Values
  BY <1>3, <1>4, AsValAssumption DEF Values
<1>8. PlainOne(v) /\ \A p \in Parts(v) : Plain(p)
  BY <1>4, PlainParts
<1>9. ~ThrowsOne(av, d) /\ \A p \in Parts(av) : ~Throws(p, d)
  BY <1>4, <1>7, ThrowsParts
<1> DEFINE ritem == [p \in Parts(av) |-> as_val_to_zval(p, d)]
           sitem == [p \in Parts(v) |-> Seen(p)]
<1>10. as_val_to_zval(av, d) = convert_as_val(av, d, ritem)
  BY <1>7, ReadEquation
<1>11. Seen(v) = SeenOne(v, sitem)
  BY <1>4, SeenEquation
<1>12. v = <<Tag(v), Content(v)>> /\ Tag(v) \in ZvalTypes
  BY <1>4, ZvalAssumption
<1>13. CASE Tag(v) # "array"
  <2> HIDE DEF ritem, sitem
  <2>1. Tag(v) # "string" => Seen(v) = Deref(v)
    BY <1>11, <1>13 DEF SeenOne
  <2>2. CASE Tag(v) = "long" /\ av = <<"integer", Content(v)>>
    <3>1. Tag(av) = "integer" /\ Content(av) = Content(v)
      BY <2>2, PairTag
    <3>2. as_val_to_zval(av, d) = <<"long", Content(v)>>
      BY <1>10, <3>1 DEF convert_as_val
    <3>3. Seen(v) = v
      BY <2>1, <2>2 DEF Deref
    <3> QED BY <1>12, <2>2, <3>2, <3>3
  <2>3. CASE Tag(v) = "double" /\ av = v
    <3>1. as_val_to_zval(av, d) = av
      BY <1>10, <2>3 DEF convert_as_val
    <3>2. Seen(v) = v
      BY <2>1, <2>3 DEF Deref
    <3> QED BY <2>3, <3>1, <3>2
  <2>4. CASE Tag(v) = "string" /\ av = <<"string", Cut(Content(v))>>
    <3>1. Tag(av) = "string" /\ Content(av) = Cut(Content(v))
      BY <2>4, PairTag
    <3>2. as_val_to_zval(av, d) = <<"string", Cut(Cut(Content(v)))>>
      BY <1>10, <3>1 DEF convert_as_val
    <3>3. Seen(v) = <<"string", Cut(Content(v))>>
      BY <1>11, <2>4 DEF SeenOne
    <3>4. Cut(Cut(Content(v))) = Cut(Content(v))
      BY DEF Cut
    <3> QED BY <3>2, <3>3, <3>4
  <2>5. CASE Tag(v) \in {"Bytes", "bytes_like"} /\ Tag(Content(v)) = "text" /\ av = <<"blob", Content(v)>>
    <3>1. Tag(v) = "Bytes"
      BY <1>8, <2>5 DEF PlainOne
    <3>2. Tag(av) = "blob" /\ Content(av) = Content(v)
      BY <2>5, PairTag
    <3>3. d = FALSE
      BY <1>9, <2>5, <3>2 DEF ThrowsOne
    <3>4. as_val_to_zval(av, d) = <<"Bytes", Content(v)>>
      BY <1>10, <3>2, <3>3 DEF convert_as_val, unserialize_as_bytes, as_bytes_to_zval_bytes
    <3>5. Seen(v) = v
      BY <2>1, <3>1 DEF Deref
    <3> QED BY <1>12, <3>1, <3>4, <3>5
  <2>6. CASE Tag(v) \in {"GeoJSON", "geo_like"} /\ Tag(Content(v)) = "text" /\ av = <<"geojson", Content(v)>>
    <3>1. Tag(v) = "GeoJSON"
      BY <1>8, <2>6 DEF PlainOne
    <3>2. Tag(av) = "geojson" /\ Content(av) = Content(v)
      BY <2>6, PairTag
    <3>3. as_val_to_zval(av, d) = <<"GeoJSON", Content(v)>>
      BY <1>10, <3>2 DEF convert_as_val
    <3>4. Seen(v) = v
      BY <2>1, <3>1 DEF Deref
    <3> QED BY <1>12, <3>1, <3>3, <3>4
  <2>7. CASE /\ Tag(v) \in {"object", "other", "ref"}
             /\ \/ w.serializer = "USER" /\ av = <<"blob", Deref(v)>>
                \/ w.serializer = "PHP" /\ av = <<"phpbytes", Deref(v)>>
    <3>1. Deref(v) \in Zvals
      BY <1>4, ZvalAssumption DEF Deref
    <3>2. Tag(Deref(v)) # "text"
      BY <3>1, ZvalAssumption DEF ZvalTypes
    <3>3. Seen(v) = Deref(v)
      BY <2>1, <2>7
    <3>4. CASE w.serializer = "USER" /\ av = <<"blob", Deref(v)>>
      <4>1. Tag(av) = "blob" /\ Content(av) = Deref(v) /\ d = TRUE
        BY <3>4, PairTag
      <4> QED BY <1>10, <3>2, <3>3, <4>1 DEF convert_as_val, unserialize_as_bytes, unserialize_with_user_function
    <3>5. CASE w.serializer = "PHP" /\ av = <<"phpbytes", Deref(v)>>
      <4>1. Tag(av) = "phpbytes" /\ Content(av) = Deref(v)
        BY <3>5, PairTag
      <4> QED BY <1>10, <3>2, <3>3, <4>1 DEF convert_as_val, unserialize_as_bytes
    <3> QED BY <2>7, <3>4, <3>5
  <2> QED BY <1>3, <1>4, <1>13, <2>2, <2>3, <2>4, <2>5, <2>6, <2>7, ConvertedLeaf
<1>14. CASE Tag(v) = "array"
  <2> DEFINE items == Content(v)
             n == Len(items)
             sent == SentItems(v, w)
  <2>1. n \in Nat
    BY <1>4, <1>14, ZvalAssumption DEF IsSequence
  <2>2. \A i \in 1..n : /\ items[i][2] \in Parts(v) /\ items[i][2] \in Zvals
                        /\ sent[i] # Failed /\ sent[i] = zval_to_as_val(items[i][2], w) /\ sent[i] \in AsVals
    <3>1. ASSUME NEW i \in 1..n
          PROVE  /\ items[i][2] \in Parts(v) /\ items[i][2] \in Zvals
                 /\ sent[i] # Failed /\ sent[i] = zval_to_as_val(items[i][2], w) /\ sent[i] \in AsVals
      <4>1. items[i][2] \in Parts(v) /\ items[i][2] \in Zvals /\ sent[i] # Failed
        BY <1>3, <1>4, <1>14, ConvertedArray
      <4>2. sent[i] = zval_to_as_val(items[i][2], w)
        BY DEF SentItems
      <4>3. sent[i] \in AsVals
        BY <4>1, <4>2, AsValAssumption
      <4> QED BY <4>1, <4>2, <4>3
    <3> QED BY <3>1
  <2>3. ASSUME NEW i \in 1..n, sent[i] \in Parts(av)
        PROVE  /\ ritem[sent[i]] # Failed /\ ritem[sent[i]] = Seen(items[i][2])
               /\ sitem[items[i][2]] = Seen(items[i][2])
    <3>1. Good(items[i][2])
      BY <1>8, <1>9, <2>2, <2>3
    <3>2. ritem[sent[i]] = as_val_to_zval(sent[i], d)
      BY <2>3
    <3> HIDE DEF ritem
    <3>3. ritem[sent[i]] = Seen(items[i][2])
      BY <1>5, <2>2, <3>1, <3>2
    <3>4. ~Unreadable(sent[i], d)
      BY <2>2, OwnReadable
    <3>5. as_val_to_zval(sent[i], d) # Failed
      BY <2>2, <3>4, FailsUnreadable
    <3> QED BY <2>2, <3>2, <3>3, <3>5
  <2>4. CASE hashtable_is_list(items)
    <3>1. /\ Tag(av) = "list" /\ Content(av) = sent /\ Len(sent) = n
          /\ Parts(av) = {sent[i] : i \in 1..n}
      BY <1>3, <1>4, <1>14, <2>4, ConvertedList
    <3>2. \A i \in 1..n : /\ ritem[sent[i]] # Failed /\ ritem[sent[i]] = Seen(items[i][2])
                          /\ sitem[items[i][2]] = Seen(items[i][2])
      BY <2>3, <3>1
    <3> HIDE DEF ritem, sitem, sent
    <3>3. as_val_to_zval(av, d) = as_list_to_zval(sent, ritem)
      BY <1>10, <3>1 DEF convert_as_val
    <3>4. as_list_to_zval(sent, ritem) = <<"list", [i \in 1..n |-> ritem[sent[i]]]>>
      BY <3>1, <3>2 DEF as_list_to_zval
    <3>5. Seen(v) = <<"list", [i \in 1..n |-> sitem[items[i][2]]]>>
      BY <1>11, <1>14, <2>4 DEF SeenOne, hashtable_is_list
    <3>6. [i \in 1..n |-> ritem[sent[i]]] = [i \in 1..n |-> sitem[items[i][2]]]
      BY <3>2
    <3> QED BY <3>3, <3>4, <3>5, <3>6
  <2>5. CASE ~hashtable_is_list(items)
    <3> DEFINE keys == SentKeys(v)
               K == Kept(keys)
               sk == [i \in 1..n |-> SeenKey(items[i][1])]
               seen == [i \in 1..n |-> Seen(items[i][2])]
    <3>1. /\ Tag(av) = "map" /\ Content(av) = {<<keys[i], sent[i]>> : i \in K}
          /\ K \subseteq 1..n /\ \A i \in K : keys[i] \in AsVals
          /\ Parts(av) = {keys[i] : i \in K} \cup {sent[i] : i \in K}
      BY <1>3, <1>4, <1>14, <2>5, ConvertedMap
    <3>2. \A i \in K : /\ ritem[sent[i]] # Failed /\ ritem[sent[i]] = seen[i]
                       /\ sitem[items[i][2]] = seen[i]
      BY <2>3, <3>1
    <3>3. \A i \in K : ArrayKey(ritem[keys[i]]) = sk[i] /\ Tag(ritem[keys[i]]) \in {"string", "long"}
      <4>1. ASSUME NEW i \in K
            PROVE  ArrayKey(ritem[keys[i]]) = sk[i] /\ Tag(ritem[keys[i]]) \in {"string", "long"}
        <5>1. i \in 1..n /\ keys[i] \in AsVals /\ keys[i] \in Parts(av)
          BY <3>1
        <5>2. ritem[keys[i]] = as_val_to_zval(keys[i], d)
          BY <5>1
        <5>3. sk[i] = SeenKey(items[i][1])
          BY <5>1
        <5> HIDE DEF ritem, K, sk, keys
        <5>4. /\ keys[i] = AsKey(items[i][1])
              /\ items[i][1] = <<Tag(items[i][1]), Content(items[i][1])>> /\ Tag(items[i][1]) \in {"int", "str"}
          BY <1>4, <1>14, <5>1, SentKeyFacts DEF keys
        <5> QED BY <5>1, <5>2, <5>3, <5>4, SeenKeyRead
      <4> QED BY <4>1
    <3>4. \A i, k \in 1..n : keys[i] = keys[k] <=> sk[i] = sk[k]
      <4>1. ASSUME NEW i \in 1..n, NEW k \in 1..n
            PROVE  keys[i] = keys[k] <=> sk[i] = sk[k]
        <5> DEFINE a == items[i][1]
                   b == items[k][1]
        <5>1. keys[i] = AsKey(a) /\ keys[k] = AsKey(b) /\ sk[i] = SeenKey(a) /\ sk[k] = SeenKey(b)
          BY DEF SentKeys
        <5>2. SeenKey(a) = SeenKey(b) => AsKey(a) = AsKey(b)
          BY <1>8, <1>14 DEF PlainOne
        <5>3. a = <<Tag(a), Content(a)>> /\ b = <<Tag(b), Content(b)>> /\ Tag(a) \in {"int", "str"} /\ Tag(b) \in {"int", "str"}
          BY <1>4, <1>14, SentKeyFacts
        <5> HIDE DEF keys, sk, a, b
        <5>4. AsKey(a) = AsKey(b) => SeenKey(a) = SeenKey(b)
          BY <5>3 DEF AsKey, SeenKey
        <5> QED BY <5>1, <5>2, <5>4
      <4> QED BY <4>1
    <3>5. DOMAIN keys = 1..n /\ DOMAIN sk = 1..n
      BY DEF SentKeys
    <3>6. seen = [i \in 1..n |-> Seen(items[i][2])]
      OBVIOUS
    <3>7. \A i \in 1..n : sk[i] = SeenKey(items[i][1])
      OBVIOUS
    <3>8. Kept(sk) = K
      <4> HIDE DEF sk, keys
      <4> QED BY <2>1, <3>4, <3>5, KeptFacts
    <3>9. \A i, k \in K : sk[i] = sk[k] => i = k
      <4> HIDE DEF sk, keys, K
      <4> QED BY <2>1, <3>5, <3>8, KeptFacts
    <3>10. Seen(v) = <<"hash", {<<sk[i], sitem[items[i][2]]>> : i \in Kept(sk)}>>
      <4> HIDE DEF sitem
      <4> QED BY <1>11, <1>14, <2>5 DEF SeenOne, hashtable_is_list
    <3> HIDE DEF ritem, sitem, sent, keys, K, sk, seen
    <3>11. as_val_to_zval(av, d) = as_map_to_zval(Pairs(K, keys, sent), ritem)
      BY <1>10, <3>1 DEF convert_as_val, Pairs
    <3>12. as_map_to_zval(Pairs(K, keys, sent), ritem) = <<"hash", Pairs(K, sk, seen)>>
      BY <3>2, <3>3, <3>9, ReadMap
    <3>13. {<<sk[i], sitem[items[i][2]]>> : i \in K} = Pairs(K, sk, seen)
      BY <3>2 DEF Pairs
    <3> QED BY <3>8, <3>10, <3>11, <3>12, <3>13
  <2> QED BY <2>4, <2>5
<1> QED BY <1>13, <1>14

-----------------------------------------------------------------------------
(* Records. *)
BinNames(bins) == [i \in 1..Len(bins) |-> Cut(Content(bins[i][1]))]

SentBins(bins, w) == {<<BinNames(bins)[i], zval_to_as_val(bins[i][2], w)>> : i \in Kept(BinNames(bins))}

GoodBin(bin, w) == Tag(bin[1]) # "int" /\ Content(bin[1]) \notin LongNames /\ Storable(bin[2], w)

LEMMA BinNamesKept ==
  ASSUME NEW bins \in Records
  PROVE  /\ \A i \in 1..Len(bins) : bins[i][2] \in Zvals
         /\ Kept(BinNames(bins)) \subseteq 1..Len(bins)
<1>1. \A i \in 1..Len(bins) : bins[i][2] \in Zvals
  BY InputAssumption DEF IsSequence
<1> QED BY <1>1 DEF Kept, BinNames

(* The record is refused for its worst bin, and else has what each became.  *)
LEMMA ConvertsRecord ==
  ASSUME NEW w \in Writers, NEW bins \in Records, NEW rec, rec = z_hashtable_to_as_record(bins, w)
  PROVE  /\ rec # Failed <=> \A i \in 1..Len(bins) : GoodBin(bins[i], w)
         /\ rec # Failed => /\ Content(rec) = SentBins(bins, w)
                            /\ \A i \in 1..Len(bins) : zval_to_as_val(bins[i][2], w) # Failed
<1>1. \A i \in 1..Len(bins) : /\ add_zval_to_record(bins[i][2], w) = zval_to_as_val(bins[i][2], w)
                              /\ zval_to_as_val(bins[i][2], w) = Failed <=> ~Storable(bins[i][2], w)
  BY BinNamesKept, BinTakesAll, ConvertsStorable
<1> DEFINE bad == \E i \in 1..Len(bins) :
                    \/ Tag(bins[i][1]) = "int" \/ Content(bins[i][1]) \in LongNames
                    \/ add_zval_to_record(bins[i][2], w) = Failed
           made == {<<BinNames(bins)[i], add_zval_to_record(bins[i][2], w)>> : i \in Kept(BinNames(bins))}
<1>2. rec = IF bad THEN Failed ELSE <<"record", made>>
  BY DEF z_hashtable_to_as_record, BinNames
<1>3. bad <=> ~ \A i \in 1..Len(bins) : GoodBin(bins[i], w)
  BY <1>1 DEF GoodBin
<1>4. <<"record", made>> # Failed
  BY DEF Failed
<1>5. made = SentBins(bins, w)
  <2>1. \A i \in Kept(BinNames(bins)) : add_zval_to_record(bins[i][2], w) = zval_to_as_val(bins[i][2], w)
    BY <1>1, BinNamesKept
  <2> QED BY <2>1 DEF SentBins
<1>6. ~bad => \A i \in 1..Len(bins) : zval_to_as_val(bins[i][2], w) # Failed
  BY <1>1
<1> HIDE DEF bad, made
<1>7. Content(<<"record", made>>) = made
  BY PairTag
<1> QED BY <1>2, <1>3, <1>4, <1>5, <1>6, <1>7

(* What put() stores, every reader can read.                                *)
LEMMA OwnRecord ==
  ASSUME NEW w \in Writers, NEW d \in BOOLEAN, NEW bins \in Records, z_hashtable_to_as_record(bins, w) # Failed
  PROVE  \A b \in SentBins(bins, w) : b[2] \in AsVals /\ as_val_to_zval(b[2], d) # Failed
<1>1. ASSUME NEW i \in Kept(BinNames(bins)), NEW av, av = zval_to_as_val(bins[i][2], w)
      PROVE  av \in AsVals /\ as_val_to_zval(av, d) # Failed
  <2>1. bins[i][2] \in Zvals /\ av # Failed
    BY <1>1, BinNamesKept, ConvertsRecord
  <2>2. av \in AsVals
    BY <1>1, <2>1, AsValAssumption
  <2>3. ~Unreadable(av, d)
    BY <1>1, <2>1, OwnReadable
  <2> QED BY <2>2, <2>3, FailsUnreadable
<1>2. \A b \in SentBins(bins, w) : \E i \in Kept(BinNames(bins)) : b[2] = zval_to_as_val(bins[i][2], w)
  BY DEF SentBins
<1> QED BY <1>1, <1>2

-----------------------------------------------------------------------------
(* Which conversion made what.  The phases say which step there was last,   *)
(* and nothing is used of a value but what it was converted from.           *)
PutInv ==
  /\ phase = "new" => given = {} /\ stored = {}
  /\ phase = "refused" =>
       /\ stored = {}
       /\ \E bins \in Records :
            given = {bins} /\ (bins = <<>> \/ z_hashtable_to_as_record(bins, writer) = Failed)
  /\ phase \in {"stored", "read", "unread", "threw"} =>
       \E b : /\ stored = {b} /\ \A x \in b : x[2] \in AsVals
              /\ \/ given = {}
                 \/ \E bins \in Records :
                      /\ given = {bins} /\ bins # <<>>
                      /\ z_hashtable_to_as_record(bins, writer) # Failed
                      /\ b = SentBins(bins, writer)

GetInv ==
  /\ got # {} <=> phase = "read"
  /\ phase = "unread" => \A b \in stored : as_bins_to_zval(b, deserializer) = Failed
  /\ phase = "read" =>
       \A b \in stored : /\ as_bins_to_zval(b, deserializer) # Failed
                         /\ got = {Content(as_bins_to_zval(b, deserializer))}
                         /\ \A x \in b : ~Throws(x[2], deserializer)

ConversionInv ==
  /\ writer \in Writers /\ deserializer \in BOOLEAN
  /\ phase \in {"new", "stored", "refused", "read", "unread", "threw"}
  /\ PutInv
  /\ GetInv
  /\ KeyNamesRecord

-----------------------------------------------------------------------------
LEMMA NoKeyTag == Tag(NoKey) = "absent"
BY DEF Tag, NoKey

(* The array initKey makes can be used. *)
LEMMA InitKeyFacts ==
  ASSUME NEW pk, NEW is_digest \in BOOLEAN, initKey(pk, is_digest) # NullKey
  PROVE  z_hashtable_to_as_key(initKey(pk, is_digest)) # Failed
<1> DEFINE k == initKey(pk, is_digest)
<1>1. CASE Tag(pk) = "string" /\ is_digest = TRUE
  <2>1. Content(pk) \in Digests /\ k = [NullKey EXCEPT !.digest = pk]
    <3>1. k = IF Content(pk) \in Digests THEN [NullKey EXCEPT !.digest = pk] ELSE NullKey
      BY <1>1 DEF initKey
    <3> QED BY <3>1
  <2>2. k.pk = NoKey /\ k.digest = pk
    BY <2>1 DEF NullKey
  <2> HIDE DEF k
  <2>3. z_hashtable_to_as_key(k) = <<"digest", Content(pk)>>
    BY <1>1, <2>1, <2>2, NoKeyTag DEF z_hashtable_to_as_key
  <2>4. <<"digest", Content(pk)>> # Failed
    BY DEF Failed
  <2> QED BY <2>3, <2>4 DEF k
<1>2. CASE Tag(pk) \in {"string", "long"} /\ is_digest = FALSE
  <2>1. k = [NullKey EXCEPT !.pk = pk]
    BY <1>2 DEF initKey
  <2>2. k.pk = pk
    BY <2>1 DEF NullKey
  <2>4. pk # NoKey
    BY <1>2, NoKeyTag
  <2> HIDE DEF k
  <2>5. z_hashtable_to_as_key(k) # Failed
    <3>1. CASE Tag(pk) = "string"
      BY <2>2, <2>4, <3>1 DEF z_hashtable_to_as_key, Failed
    <3>2. CASE Tag(pk) = "long"
      <4>1. z_hashtable_to_as_key(k) = pk
        BY <2>2, <2>4, <3>2 DEF z_hashtable_to_as_key
      <4> QED BY <3>2, <4>1, FailedTag
    <3> QED BY <1>2, <3>1, <3>2
  <2> QED BY <2>5 DEF k
<1>3. CASE ~ (Tag(pk) = "string" /\ is_digest = TRUE) /\ ~ (Tag(pk) \in {"string", "long"} /\ is_digest = FALSE)
  BY <1>3 DEF initKey
<1> QED BY <1>1, <1>2, <1>3

(* The array get() hands out, used as a key, is the same key or none.       *)
LEMMA KeyAgain ==
  ASSUME NEW k, NEW show_pk \in BOOLEAN, NEW askey, askey = z_hashtable_to_as_key(k), askey # Failed,
         NEW out, out = as_key_to_zval(askey, show_pk)
  PROVE  \/ z_hashtable_to_as_key(out) = askey
         \/ z_hashtable_to_as_key(out) = Failed /\ out.pk = <<"null", "">>
<1>1. out.pk = IF show_pk /\ Tag(askey) # "digest" THEN askey ELSE <<"null", "">>
  BY DEF as_key_to_zval
<1>2. Tag(<<"null", "">>) = "null" /\ Tag(NoKey) = "absent"
  BY PairTag, NoKeyTag
<1>3. CASE show_pk = FALSE \/ Tag(askey) = "digest"
  <2>1. out.pk = <<"null", "">>
    BY <1>1, <1>3
  <2>2. z_hashtable_to_as_key(out) = Failed
    BY <1>2, <2>1 DEF z_hashtable_to_as_key
  <2> QED BY <2>1, <2>2
<1>4. CASE show_pk = TRUE /\ Tag(askey) # "digest"
  <2>1. out.pk = askey
    BY <1>1, <1>4
  <2>2. CASE Tag(k.pk) = "string" /\ k.pk # NoKey
    <3>1. askey = <<"string", Cut(Content(k.pk))>>
      BY <2>2 DEF z_hashtable_to_as_key
    <3>2. Tag(askey) = "string" /\ Content(askey) = Cut(Content(k.pk))
      BY <3>1, PairTag
    <3>3. askey # NoKey
      BY <1>2, <3>2
    <3>4. z_hashtable_to_as_key(out) = <<"string", Cut(Cut(Content(k.pk)))>>
      BY <2>1, <3>2, <3>3 DEF z_hashtable_to_as_key
    <3>5. Cut(Cut(Content(k.pk))) = Cut(Content(k.pk))
      BY DEF Cut
    <3> QED BY <3>1, <3>4, <3>5
  <2>3. CASE Tag(k.pk) = "long" /\ k.pk # NoKey
    <3>1. askey = k.pk
      BY <2>3 DEF z_hashtable_to_as_key
    <3>2. Tag(askey) = "long" /\ askey # NoKey
      BY <2>3, <3>1
    <3> QED BY <2>1, <3>2 DEF z_hashtable_to_as_key
  <2>4. CASE k.pk = NoKey
    <3>1. askey = <<"digest", Content(k.digest)>>
      BY <1>2, <2>4 DEF z_hashtable_to_as_key
    <3>2. Tag(askey) = "digest"
      BY <3>1, PairTag
    <3> QED BY <1>4, <3>2
  <2>5. CASE k.pk # NoKey /\ Tag(k.pk) \notin {"string", "long"}
    BY <2>5 DEF z_hashtable_to_as_key
  <2> QED BY <2>2, <2>3, <2>4, <2>5
<1> QED BY <1>3, <1>4

-----------------------------------------------------------------------------
LEMMA InitConversionInv ==
  Init => ConversionInv
<1> SUFFICES ASSUME Init PROVE ConversionInv
  OBVIOUS
<1>1. PICK pk \in PrimaryKeys, is_digest \in BOOLEAN : key = initKey(pk, is_digest)
  BY DEF Init
<1>2. z_hashtable_to_as_key(key) # Failed
  BY <1>1, InitKeyFacts DEF Init
<1>3. KeyNamesRecord
  BY <1>2 DEF Init, KeyNamesRecord, NoRecord
<1>4. PutInv
  BY DEF Init, PutInv, NoRecord
<1>5. GetInv
  BY DEF Init, GetInv, NoRecord
<1> QED BY <1>3, <1>4, <1>5 DEF Init, ConversionInv

LEMMA PutKeepsInv ==
  ASSUME ConversionInv, NEW bins \in Records, Put(bins)
  PROVE  ConversionInv'
<1> DEFINE askey == z_hashtable_to_as_key(key)
           rec == z_hashtable_to_as_record(bins, writer)
<1>1. /\ writer \in Writers /\ deserializer \in BOOLEAN
      /\ given = {} /\ stored = {} /\ phase = "new" /\ got = {}
  BY DEF ConversionInv, PutInv, GetInv, Put
<1>2. /\ given' = {bins} /\ writer' = writer /\ key' = key /\ deserializer' = deserializer /\ got' = got
      /\ IF bins = <<>> \/ askey = Failed \/ rec = Failed
         THEN phase' = "refused" /\ UNCHANGED <<stored, storedKey>>
         ELSE phase' = "stored" /\ stored' = {Content(rec)} /\ storedKey' = Digest(askey)
  BY DEF Put
<1>3. askey # Failed
  BY <1>1 DEF ConversionInv, KeyNamesRecord
<1>4. z_hashtable_to_as_key(key)' = askey
  BY <1>2 DEF z_hashtable_to_as_key
<1>5. z_hashtable_to_as_record(bins, writer)' = rec
  BY <1>2
<1>6. rec # Failed => Content(rec) = SentBins(bins, writer) /\ \A x \in SentBins(bins, writer) : x[2] \in AsVals
  BY <1>1, ConvertsRecord, OwnRecord
<1> HIDE DEF askey, rec
<1>7. CASE bins = <<>> \/ rec = Failed
  <2>1. phase' = "refused" /\ stored' = {}
    BY <1>1, <1>2, <1>7
  <2>2. PutInv'
    BY <1>2, <1>5, <1>7, <2>1 DEF PutInv, rec
  <2>3. GetInv'
    BY <1>1, <1>2, <2>1 DEF GetInv
  <2>4. KeyNamesRecord'
    BY <1>2, <1>3, <1>4, <2>1 DEF KeyNamesRecord
  <2> QED BY <1>1, <1>2, <2>1, <2>2, <2>3, <2>4 DEF ConversionInv
<1>8. CASE bins # <<>> /\ rec # Failed
  <2>1. phase' = "stored" /\ stored' = {SentBins(bins, writer)} /\ storedKey' = Digest(askey)
    BY <1>2, <1>3, <1>6, <1>8
  <2>2. PutInv'
    <3>1. /\ stored' = {SentBins(bins, writer)} /\ \A x \in SentBins(bins, writer) : x[2] \in AsVals
          /\ given' = {bins} /\ bins # <<>> /\ z_hashtable_to_as_record(bins, writer') # Failed
          /\ SentBins(bins, writer) = SentBins(bins, writer')
      BY <1>2, <1>6, <1>8, <2>1 DEF rec
    <3> QED BY <2>1, <3>1 DEF PutInv
  <2>3. GetInv'
    BY <1>1, <1>2, <2>1 DEF GetInv
  <2>4. KeyNamesRecord'
    BY <1>2, <1>3, <1>4, <2>1 DEF KeyNamesRecord
  <2> QED BY <1>1, <1>2, <2>1, <2>2, <2>3, <2>4 DEF ConversionInv
<1> QED BY <1>7, <1>8

LEMMA ForeignPutKeepsInv ==
  ASSUME ConversionInv, NEW av \in ForeignValues, ForeignPut(av)
  PROVE  ConversionInv'
<1>1. writer \in Writers /\ deserializer \in BOOLEAN /\ given = {} /\ phase = "new" /\ got = {}
  BY DEF ConversionInv, PutInv, GetInv, ForeignPut
<1> DEFINE b == {<< <<"bin1", "">>, av>>}
<1>2. /\ phase' = "stored" /\ stored' = {b} /\ storedKey' = Digest(z_hashtable_to_as_key(key))
      /\ writer' = writer /\ key' = key /\ given' = given /\ deserializer' = deserializer /\ got' = got
  BY DEF ForeignPut
<1>3. \A x \in b : x[2] \in AsVals
  <2>1. av \in AsVals
    BY InputAssumption
  <2>2. \A n : <<n, av>>[2] = av
    OBVIOUS
  <2> QED BY <2>1, <2>2
<1> HIDE DEF b
<1>4. PutInv'
  BY <1>1, <1>2, <1>3 DEF PutInv
<1>5. GetInv'
  BY <1>1, <1>2 DEF GetInv
<1>6. KeyNamesRecord'
  BY <1>1, <1>2 DEF KeyNamesRecord, ConversionInv
<1> QED BY <1>1, <1>2, <1>4, <1>5, <1>6 DEF ConversionInv

LEMMA RegisterKeepsInv ==
  ASSUME ConversionInv, Register
  PROVE  ConversionInv'
<1>1. /\ phase = "stored" /\ phase' = phase /\ deserializer' = TRUE /\ got' = got
      /\ writer' = writer /\ key' = key /\ given' = given /\ stored' = stored /\ storedKey' = storedKey
  BY DEF Register
<1>2. PutInv'
  BY <1>1 DEF ConversionInv, PutInv
<1>3. GetInv'
  BY <1>1 DEF ConversionInv, GetInv
<1>4. KeyNamesRecord'
  BY <1>1 DEF ConversionInv, KeyNamesRecord
<1> QED BY <1>1, <1>2, <1>3, <1>4 DEF ConversionInv

LEMMA GetKeepsInv ==
  ASSUME ConversionInv, NEW show_pk \in BOOLEAN, Get(show_pk)
  PROVE  ConversionInv'
<1> DEFINE askey == z_hashtable_to_as_key(key)
           bins == CHOOSE b \in stored : TRUE
           out == as_bins_to_zval(bins, deserializer)
           throws == \E x \in bins : Throws(x[2], deserializer)
<1>1. PICK b : stored = {b}
  BY DEF ConversionInv, PutInv, Get
<1>2. bins = b
  BY <1>1
<1>3. /\ phase = "stored" /\ Digest(askey) = storedKey
      /\ writer' = writer /\ given' = given /\ stored' = stored /\ storedKey' = storedKey /\ deserializer' = deserializer
      /\ \/ /\ out # Failed /\ ~throws
            /\ got' = {Content(out)} /\ key' = as_key_to_zval(askey, show_pk) /\ phase' = "read"
         \/ out = Failed /\ got' = {} /\ key' = key /\ phase' = "unread"
         \/ /\ throws /\ got' = {} /\ phase' = "threw"
            /\ key' = key \/ key' = as_key_to_zval(askey, show_pk)
  BY DEF Get
<1>4. askey # Failed
  BY <1>3 DEF ConversionInv, KeyNamesRecord
<1> HIDE DEF bins
<1>5. PutInv'
  BY <1>3 DEF ConversionInv, PutInv
<1>6. as_bins_to_zval(b, deserializer') = out /\ (throws <=> \E x \in b : Throws(x[2], deserializer'))
  BY <1>2, <1>3
<1> HIDE DEF out, throws
<1>7. phase' \in {"read", "unread", "threw"} /\ (key' = key \/ key' = as_key_to_zval(askey, show_pk))
  BY <1>3
<1>8. GetInv'
  <2>1. CASE out # Failed /\ ~throws /\ got' = {Content(out)} /\ phase' = "read"
    <3>1. \A x \in b : ~Throws(x[2], deserializer')
      BY <1>6, <2>1
    <3> QED BY <1>1, <1>3, <1>6, <2>1, <3>1 DEF GetInv
  <2>2. CASE out = Failed /\ got' = {} /\ phase' = "unread"
    BY <1>1, <1>3, <1>6, <2>2 DEF GetInv
  <2>3. CASE got' = {} /\ phase' = "threw"
    BY <2>3 DEF GetInv
  <2> QED BY <1>3, <2>1, <2>2, <2>3
<1>9. KeyNamesRecord'
  <2>1. \/ z_hashtable_to_as_key(key') = askey
        \/ z_hashtable_to_as_key(key') = Failed /\ key'.pk = <<"null", "">>
    BY <1>4, <1>7, KeyAgain
  <2>2. CASE z_hashtable_to_as_key(key') = askey
    BY <1>3, <1>4, <2>2 DEF KeyNamesRecord
  <2>3. CASE z_hashtable_to_as_key(key') = Failed /\ key'.pk = <<"null", "">>
    BY <1>7, <2>3 DEF KeyNamesRecord
  <2> QED BY <2>1, <2>2, <2>3
<1> QED BY <1>3, <1>5, <1>7, <1>8, <1>9 DEF ConversionInv

(* Whatever is put, and whoever put it, what is stored and what was read is *)
(* what the conversions make of it.                                         *)
THEOREM ConversionInvariant == Spec => []ConversionInv
<1>1. Init => ConversionInv
  BY InitConversionInv
<1>2. ConversionInv /\ [Next]_vars => ConversionInv'
  <2> SUFFICES ASSUME ConversionInv, [Next]_vars
               PROVE  ConversionInv'
    OBVIOUS
  <2>1. ASSUME NEW bins \in Records, Put(bins)
        PROVE  ConversionInv'
    BY <2>1, PutKeepsInv
  <2>2. ASSUME NEW av \in ForeignValues, ForeignPut(av)
        PROVE  ConversionInv'
    BY <2>2, ForeignPutKeepsInv
  <2>3. CASE Register
    BY <2>3, RegisterKeepsInv
  <2>4. ASSUME NEW show_pk \in BOOLEAN, Get(show_pk)
        PROVE  ConversionInv'
    BY <2>4, GetKeepsInv
  <2>5. CASE UNCHANGED vars
    BY <2>5 DEF vars, ConversionInv, PutInv, GetInv, KeyNamesRecord
  <2> QED BY <2>1, <2>2, <2>3, <2>4, <2>5 DEF Next, Done
<1> QED BY <1>1, <1>2, PTL DEF Spec

-----------------------------------------------------------------------------
LEMMA InvImpliesPutIsWhole == ConversionInv => PutIsWhole
<1> SUFFICES ASSUME ConversionInv PROVE PutIsWhole
  OBVIOUS
<1>1. ASSUME NEW bins \in given
      PROVE  (phase # "refused") <=>
               /\ bins # <<>>
               /\ \A i \in 1..Len(bins) :
                    Tag(bins[i][1]) # "int" /\ Content(bins[i][1]) \notin LongNames /\ Storable(bins[i][2], writer)
  <2>1. writer \in Writers /\ phase # "new"
    BY DEF ConversionInv, PutInv
  <2>2. bins \in Records
    BY <2>1 DEF ConversionInv, PutInv
  <2>3. (phase # "refused") <=> bins # <<>> /\ z_hashtable_to_as_record(bins, writer) # Failed
    BY <2>1 DEF ConversionInv, PutInv
  <2>4. z_hashtable_to_as_record(bins, writer) # Failed <=> \A i \in 1..Len(bins) : GoodBin(bins[i], writer)
    BY <2>1, <2>2, ConvertsRecord
  <2> QED BY <2>3, <2>4 DEF GoodBin
<1> QED BY <1>1, Zenon DEF PutIsWhole

(* put() stores the whole record or refuses it, however deep in it the      *)
(* value is that cannot be converted.                                       *)
THEOREM PutIsWholeHolds == Spec => []PutIsWhole
BY ConversionInvariant, InvImpliesPutIsWhole, PTL

(* What a reader makes of a record: every bin of it, unless one fails.      *)
LEMMA ReadsRecord ==
  ASSUME NEW d \in BOOLEAN, NEW b, \A x \in b : x[2] \in AsVals, NEW out, out = as_bins_to_zval(b, d)
  PROVE  /\ out = Failed <=> \E x \in b : Unreadable(x[2], d)
         /\ out # Failed => Content(out) = {<<Symtable(x[1]), as_val_to_zval(x[2], d)>> : x \in b}
<1> DEFINE made == {<<Symtable(x[1]), as_val_to_zval(x[2], d)>> : x \in b}
<1>1. \A x \in b : as_val_to_zval(x[2], d) = Failed <=> Unreadable(x[2], d)
  BY FailsUnreadable
<1>2. out = IF \E x \in b : as_val_to_zval(x[2], d) = Failed THEN Failed ELSE <<"bins", made>>
  BY DEF as_bins_to_zval
<1> HIDE DEF made
<1>3. <<"bins", made>> # Failed /\ Content(<<"bins", made>>) = made
  BY PairTag DEF Failed
<1> QED BY <1>1, <1>2, <1>3 DEF made

(* What a reader sees of a value that is read, and in which no deserializer *)
(* throws.                                                                  *)
LEMMA ReadsUndef ==
  ASSUME NEW d \in BOOLEAN, NEW av \in AsVals, ~ThrowsOne(av, d)
  PROVE  as_val_to_zval(av, d) = Undef <=> Tag(av) = "nil"
<1> DEFINE item == [p \in Parts(av) |-> as_val_to_zval(p, d)]
<1>1. as_val_to_zval(av, d) = convert_as_val(av, d, item)
  BY ReadEquation
<1>2. Tag(av) \in AsValTypes /\ (Tag(av) \in {"blob", "phpbytes"} => Content(av) # Undef)
  BY AsValAssumption
<1>3. Failed # Undef /\ \A t, x : t \in {"long", "string", "list", "hash", "GeoJSON", "Bytes"} => <<t, x>> # Undef
  BY UndefTag, PairTag, FailedTag
<1> HIDE DEF item
<1>4. CASE Tag(av) \in {"integer", "string", "geojson", "nil"}
  BY <1>1, <1>3, <1>4 DEF convert_as_val
<1>5. CASE Tag(av) = "double"
  <2>1. convert_as_val(av, d, item) = av
    BY <1>5 DEF convert_as_val
  <2> QED BY <1>1, <1>5, <2>1, UndefTag
<1>6. CASE Tag(av) = "list"
  <2>1. convert_as_val(av, d, item) = as_list_to_zval(Content(av), item)
    BY <1>6 DEF convert_as_val
  <2> QED BY <1>1, <1>3, <1>6, <2>1 DEF as_list_to_zval
<1>7. CASE Tag(av) = "map"
  <2>1. convert_as_val(av, d, item) = as_map_to_zval(Content(av), item)
    BY <1>7 DEF convert_as_val
  <2> QED BY <1>1, <1>3, <1>7, <2>1 DEF as_map_to_zval
<1>8. CASE Tag(av) \in {"blob", "phpbytes", "otherbytes"}
  <2>1. convert_as_val(av, d, item) = unserialize_as_bytes(av, d)
    BY <1>8 DEF convert_as_val
  <2>2. unserialize_as_bytes(av, d) # Undef
    BY <1>2, <1>3, <1>8 DEF ThrowsOne, unserialize_as_bytes, unserialize_with_user_function, as_bytes_to_zval_bytes
  <2> QED BY <1>1, <1>8, <2>1, <2>2
<1> QED BY <1>2, <1>4, <1>5, <1>6, <1>7, <1>8 DEF AsValTypes

LEMMA ReadsList ==
  ASSUME NEW d \in BOOLEAN, NEW av \in AsVals, Tag(av) = "list", as_val_to_zval(av, d) # Failed
  PROVE  /\ Len(Content(as_val_to_zval(av, d))) = Len(Content(av))
         /\ \A i \in 1..Len(Content(av)) : Content(as_val_to_zval(av, d))[i] = as_val_to_zval(Content(av)[i], d)
<1> DEFINE item == [p \in Parts(av) |-> as_val_to_zval(p, d)]
           vals == Content(av)
           read == [i \in 1..Len(vals) |-> item[vals[i]]]
<1>1. as_val_to_zval(av, d) = convert_as_val(av, d, item)
  BY ReadEquation
<1>2. Len(vals) \in Nat
  BY AsValAssumption DEF IsSequence
<1>3. \A i \in 1..Len(vals) : item[vals[i]] = as_val_to_zval(vals[i], d)
  BY DEF Parts
<1>4. convert_as_val(av, d, item) = as_list_to_zval(vals, item)
  BY DEF convert_as_val
<1> HIDE DEF item
<1>5. as_val_to_zval(av, d) = <<"list", read>>
  BY <1>1, <1>4 DEF as_list_to_zval
<1>6. Len(read) = Len(vals) /\ \A i \in 1..Len(vals) : read[i] = item[vals[i]]
  BY <1>2
<1> HIDE DEF read
<1>7. Content(as_val_to_zval(av, d)) = read
  BY <1>5, PairTag
<1> QED BY <1>3, <1>6, <1>7

LEMMA ReadsMap ==
  ASSUME NEW d \in BOOLEAN, NEW av \in AsVals, Tag(av) = "map", NEW z, z = as_val_to_zval(av, d), z # Failed
  PROVE  /\ \A e \in Content(av) : \E x \in Content(z) : x[1] = ArrayKey(as_val_to_zval(e[1], d))
         /\ \A x \in Content(z) :
              \E e \in Content(av) : x = <<ArrayKey(as_val_to_zval(e[1], d)), as_val_to_zval(e[2], d)>>
<1> DEFINE item == [p \in Parts(av) |-> as_val_to_zval(p, d)]
           E == Content(av)
           keys == {ArrayKey(item[e[1]]) : e \in E}
           Entry(k) == CHOOSE e \in E : ArrayKey(item[e[1]]) = k
           read == {<<k, item[Entry(k)[2]]>> : k \in keys}
<1>1. z = convert_as_val(av, d, item)
  BY ReadEquation
<1>2. \A e \in E : item[e[1]] = as_val_to_zval(e[1], d) /\ item[e[2]] = as_val_to_zval(e[2], d)
  BY DEF Parts
<1>3. convert_as_val(av, d, item) = as_map_to_zval(E, item)
  BY DEF convert_as_val
<1> HIDE DEF item, E
<1>4. z = <<"hash", read>>
  BY <1>1, <1>3, Zenon DEF as_map_to_zval
<1>5. \A k \in keys : Entry(k) \in E /\ ArrayKey(item[Entry(k)[1]]) = k
  OBVIOUS
<1> HIDE DEF Entry
<1>6. \A x \in read : \E e \in E : x = <<ArrayKey(item[e[1]]), item[e[2]]>>
  BY <1>5
<1>7. ASSUME NEW e \in E
      PROVE  \E x \in read : x[1] = ArrayKey(item[e[1]])
  <2>1. <<ArrayKey(item[e[1]]), item[Entry(ArrayKey(item[e[1]]))[2]]>> \in read
    OBVIOUS
  <2>2. \A k, y : <<k, y>>[1] = k
    OBVIOUS
  <2> HIDE DEF read
  <2> QED BY <2>1, <2>2
<1> HIDE DEF read
<1>8. Content(z) = read
  BY <1>4, PairTag
<1> QED BY <1>2, <1>6, <1>7, <1>8 DEF E

LEMMA ReadsWhole ==
  ASSUME NEW d \in BOOLEAN
  PROVE  \A av \in AsVals : ~Unreadable(av, d) /\ ~Throws(av, d) => SeenWhole(av, d)
<1> DEFINE T == {av \in AsVals : ~Unreadable(av, d) /\ ~Throws(av, d) /\ ~SeenWhole(av, d)}
<1>1. SUFFICES ASSUME T # {} PROVE FALSE
  OBVIOUS
<1>2. PICK av \in T : \A p \in Parts(av) : p \notin T
  <2> HIDE DEF T
  <2>1. T \subseteq Values
    BY DEF T, Values
  <2> QED BY <1>1, <2>1, Shallowest
<1>3. /\ av \in AsVals /\ av \in Values /\ Parts(av) \subseteq AsVals
      /\ ~Unreadable(av, d) /\ ~Throws(av, d)
  BY <1>2, TreeAssumption DEF Values
<1>4. ~ThrowsOne(av, d) /\ \A p \in Parts(av) : ~Throws(p, d)
  BY <1>3, ThrowsParts
<1>5. \A p \in Parts(av) : ~Unreadable(p, d)
  BY <1>3, UnreadableParts
<1>6. \A p \in Parts(av) : SeenWhole(p, d)
  BY <1>2, <1>3, <1>4, <1>5
<1>7. SUFFICES SeenWhole(av, d)
  BY <1>2
<1> HIDE DEF T
<1>8. as_val_to_zval(av, d) # Failed
  BY <1>3, FailsUnreadable
<1>9. SeenWholeOne(av, d)
  <2>1. as_val_to_zval(av, d) = Undef <=> Tag(av) = "nil"
    BY <1>3, <1>4, ReadsUndef
  <2>2. CASE Tag(av) = "list"
    <3>1. Tag(av) # "map"
      BY <2>2
    <3> QED BY <1>3, <1>8, <2>1, <2>2, <3>1, ReadsList, Zenon DEF SeenWholeOne
  <2>3. CASE Tag(av) = "map"
    <3>1. Tag(av) # "list"
      BY <2>3
    <3> DEFINE z == as_val_to_zval(av, d)
    <3>2. /\ \A e \in Content(av) : \E x \in Content(z) : x[1] = ArrayKey(as_val_to_zval(e[1], d))
          /\ \A x \in Content(z) :
               \E e \in Content(av) : x = <<ArrayKey(as_val_to_zval(e[1], d)), as_val_to_zval(e[2], d)>>
      <4>1. z # Failed
        BY <1>8
      <4> HIDE DEF z
      <4>2. z = as_val_to_zval(av, d)
        BY DEF z
      <4> QED BY <1>3, <2>3, <4>1, <4>2, ReadsMap
    <3> QED BY <2>1, <3>1, <3>2, Zenon DEF SeenWholeOne
  <2>4. CASE Tag(av) \notin {"list", "map"}
    BY <2>1, <2>4 DEF SeenWholeOne
  <2> QED BY <2>2, <2>3, <2>4
<1> QED BY <1>3, <1>6, <1>9, WithinFacts DEF SeenWhole

LEMMA InvImpliesGetIsWhole == ConversionInv => GetIsWhole
<1> SUFFICES ASSUME ConversionInv, NEW b \in stored
             PROVE  /\ phase = "unread" => got = {} /\ \E x \in b : Unreadable(x[2], deserializer)
                    /\ phase = "read" => got # {}
                    /\ got # {} =>
                         /\ \A x \in b : ~Unreadable(x[2], deserializer) /\ SeenWhole(x[2], deserializer)
                         /\ got = {{<<Symtable(x[1]), as_val_to_zval(x[2], deserializer)>> : x \in b}}
  BY DEF GetIsWhole
<1> DEFINE read == as_bins_to_zval(b, deserializer)
           seen == {<<Symtable(x[1]), as_val_to_zval(x[2], deserializer)>> : x \in b}
<1>1. deserializer \in BOOLEAN /\ (got # {} <=> phase = "read")
  BY DEF ConversionInv, GetInv
<1>2. \A x \in b : x[2] \in AsVals
  BY DEF ConversionInv, PutInv
<1>3. /\ read = Failed <=> \E x \in b : Unreadable(x[2], deserializer)
      /\ read # Failed => Content(read) = seen
  BY <1>1, <1>2, ReadsRecord
<1>4. phase = "unread" => read = Failed
  BY DEF ConversionInv, GetInv
<1>5. phase = "read" => /\ read # Failed /\ got = {Content(read)}
                        /\ \A x \in b : ~Throws(x[2], deserializer)
  BY DEF ConversionInv, GetInv
<1> HIDE DEF read, seen
<1>6. ASSUME phase = "read"
      PROVE  /\ \A x \in b : ~Unreadable(x[2], deserializer) /\ SeenWhole(x[2], deserializer)
             /\ got = {seen}
  <2>1. \A x \in b : ~Unreadable(x[2], deserializer)
    BY <1>3, <1>5, <1>6
  <2>2. \A x \in b : SeenWhole(x[2], deserializer)
    BY <1>1, <1>2, <1>5, <1>6, <2>1, ReadsWhole
  <2> QED BY <1>3, <1>5, <1>6, <2>1, <2>2
<1> QED BY <1>1, <1>3, <1>4, <1>6 DEF seen

(* get() returns every bin of the record with all that is in it, nils       *)
(* missing; or it fails, at bytes of an unknown type or a map with keys of  *)
(* another kind, wherever they are; or the script's deserializer throws.    *)
THEOREM GetIsWholeHolds == Spec => []GetIsWhole
BY ConversionInvariant, InvImpliesGetIsWhole, PTL

LEMMA InvImpliesRoundTrip == ConversionInv => RoundTrip
<1> SUFFICES ASSUME ConversionInv, NEW bins \in given
             PROVE  LET names == [i \in 1..Len(bins) |-> Cut(Content(bins[i][1]))]
                    IN /\ phase # "unread"
                       /\ (/\ phase = "read"
                           /\ writer.serializer = "USER" => deserializer
                           /\ \A i \in 1..Len(bins) : Plain(bins[i][2]))
                            => got = {{<<Symtable(names[i]), Seen(bins[i][2])>> : i \in Kept(names)}}
  BY DEF RoundTrip
<1> DEFINE names == BinNames(bins)
           d == deserializer
<1>1. writer \in Writers /\ d \in BOOLEAN /\ phase # "new"
  BY DEF ConversionInv, PutInv
<1>2. bins \in Records
  BY <1>1 DEF ConversionInv, PutInv
<1>3. ASSUME phase \in {"read", "unread"}
      PROVE  /\ stored = {SentBins(bins, writer)} /\ z_hashtable_to_as_record(bins, writer) # Failed
             /\ \A x \in SentBins(bins, writer) : x[2] \in AsVals
             /\ as_bins_to_zval(SentBins(bins, writer), d) # Failed
  <2>1. stored = {SentBins(bins, writer)} /\ z_hashtable_to_as_record(bins, writer) # Failed
    BY <1>3 DEF ConversionInv, PutInv
  <2>2. \A x \in SentBins(bins, writer) : x[2] \in AsVals /\ as_val_to_zval(x[2], d) # Failed
    BY <1>1, <1>2, <2>1, OwnRecord
  <2>3. as_bins_to_zval(SentBins(bins, writer), d) # Failed
    BY <2>2 DEF as_bins_to_zval, Failed
  <2> QED BY <2>1, <2>2, <2>3
<1>4. phase # "unread"
  BY <1>3 DEF ConversionInv, GetInv
<1>5. ASSUME phase = "read", writer.serializer = "USER" => deserializer,
             \A i \in 1..Len(bins) : Plain(bins[i][2])
      PROVE  got = {{<<Symtable(names[i]), Seen(bins[i][2])>> : i \in Kept(names)}}
  <2>1. /\ got = {Content(as_bins_to_zval(SentBins(bins, writer), d))}
        /\ \A x \in SentBins(bins, writer) : ~Throws(x[2], d)
    BY <1>3, <1>5 DEF ConversionInv, GetInv
  <2>2. got = {{<<Symtable(x[1]), as_val_to_zval(x[2], d)>> : x \in SentBins(bins, writer)}}
    BY <1>1, <1>3, <1>5, <2>1, ReadsRecord
  <2>3. ASSUME NEW i \in Kept(names)
        PROVE  as_val_to_zval(zval_to_as_val(bins[i][2], writer), d) = Seen(bins[i][2])
    <3>1. i \in 1..Len(bins) /\ bins[i][2] \in Zvals
      BY <1>2, BinNamesKept
    <3>2. zval_to_as_val(bins[i][2], writer) # Failed
      BY <1>1, <1>2, <1>3, <1>5, <3>1, ConvertsRecord
    <3>3. <<names[i], zval_to_as_val(bins[i][2], writer)>> \in SentBins(bins, writer)
      BY DEF SentBins
    <3>4. \A n, av : <<n, av>>[2] = av
      OBVIOUS
    <3>5. ~Throws(zval_to_as_val(bins[i][2], writer), d)
      BY <2>1, <3>3, <3>4
    <3>6. Plain(bins[i][2])
      BY <1>5, <3>1
    <3>7. writer.serializer = "USER" => d = TRUE
      BY <1>1, <1>5
    <3> QED BY <1>1, <3>1, <3>2, <3>5, <3>6, <3>7, ComesBack
  <2>4. {<<Symtable(x[1]), as_val_to_zval(x[2], d)>> : x \in SentBins(bins, writer)}
          = {<<Symtable(names[i]), Seen(bins[i][2])>> : i \in Kept(names)}
    <3> DEFINE sent == SentBins(bins, writer)
    <3>1. \A x \in sent : \E i \in Kept(names) :
            x[1] = names[i] /\ as_val_to_zval(x[2], d) = Seen(bins[i][2])
      <4>1. ASSUME NEW i \in Kept(names), NEW x, x = <<names[i], zval_to_as_val(bins[i][2], writer)>>
            PROVE  x[1] = names[i] /\ as_val_to_zval(x[2], d) = Seen(bins[i][2])
        BY <2>3, <4>1
      <4>2. \A x \in sent : \E i \in Kept(names) : x = <<names[i], zval_to_as_val(bins[i][2], writer)>>
        BY DEF SentBins
      <4> HIDE DEF sent, names
      <4> QED BY <4>1, <4>2
    <3>2. \A i \in Kept(names) : \E x \in sent :
            x[1] = names[i] /\ as_val_to_zval(x[2], d) = Seen(bins[i][2])
      <4>1. ASSUME NEW i \in Kept(names)
            PROVE  \E x \in sent : x[1] = names[i] /\ as_val_to_zval(x[2], d) = Seen(bins[i][2])
        <5>1. <<names[i], zval_to_as_val(bins[i][2], writer)>> \in sent
          BY DEF SentBins
        <5>2. \A n, av : <<n, av>>[1] = n /\ <<n, av>>[2] = av
          OBVIOUS
        <5> HIDE DEF sent, names
        <5> QED BY <2>3, <5>1, <5>2
      <4> QED BY <4>1
    <3> HIDE DEF sent, names
    <3>3. \A y : (\E x \in sent : y = <<Symtable(x[1]), as_val_to_zval(x[2], d)>>) <=>
                 (\E i \in Kept(names) : y = <<Symtable(names[i]), Seen(bins[i][2])>>)
      BY <3>1, <3>2
    <3> QED BY <3>3 DEF sent
  <2> HIDE DEF names
  <2> QED BY <2>2, <2>4
<1> QED BY <1>4, <1>5 DEF BinNames

(* What a script puts another gets, in records of any number of bins and    *)
(* values of any depth.                                                     *)
THEOREM RoundTripHolds == Spec => []RoundTrip
BY ConversionInvariant, InvImpliesRoundTrip, PTL

LEMMA InvImpliesKeyNamesRecord == ConversionInv => KeyNamesRecord
BY DEF ConversionInv

(* The key array in use is a key of the record that was stored, or, where   *)
(* get() kept the primary key to itself, of none.                           *)
THEOREM KeyNamesRecordHolds == Spec => []KeyNamesRecord
BY ConversionInvariant, InvImpliesKeyNamesRecord, PTL
=============================================================================
