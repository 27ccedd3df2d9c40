--------------------------- MODULE MCConversions ---------------------------
(* Every kind of value alone, in lists and maps of two, and one level below *)
(* them; records of one bin, and of two with names right and wrong.         *)
EXTENDS Conversions

Text(t) == <<t, "">>
WithNul == <<"a", "b">>

MCDecimal == [t \in {"5"} |-> 5]
MCLongNames == {Text("toolong")}
MCDigests == {Text("d")}

MCPrimaryKeys ==
  {<<"string", Text("a")>>, <<"string", WithNul>>, <<"long", 7>>, <<"string", Text("d")>>, <<"double", "x">>}

Object == <<"object", "o">>
Closure == <<"object", "f">>
MCUnserialisable == {Closure, <<"ref", Closure>>}

Leaves ==
  {<<"long", 7>>, <<"double", "x">>, <<"string", Text("a")>>, <<"string", WithNul>>, <<"other", "null">>,
   Object, Closure, <<"bytes_like", <<"text", "t">>>>, <<"geo_like", <<"text", "t">>>>,
   <<"ref", <<"long", 7>>>>, <<"ref", Closure>>,
   <<"Bytes", <<"text", "t">>>>, <<"Bytes", <<"notext", "">>>>,
   <<"GeoJSON", <<"text", "t">>>>, <<"GeoJSON", <<"notext", "">>>>}

(* One for each way to be converted, for arrays of two. *)
Pairable ==
  {<<"long", 7>>, <<"string", WithNul>>, Object, Closure, <<"bytes_like", <<"text", "t">>>>, <<"ref", <<"long", 7>>>>,
   <<"Bytes", <<"text", "t">>>>, <<"GeoJSON", <<"notext", "">>>>}

Int(n) == <<"int", n>>
Str(t) == <<"str", t>>

KeyLists ==
  {<<Int(0)>>, <<Int(1)>>, <<Str(Text("a"))>>, <<Str(<<"5", "x">>)>>, <<Int(0), Int(1)>>, <<Int(1), Int(0)>>,
   <<Int(0), Str(Text("a"))>>, <<Str(Text("a")), Str(WithNul)>>, <<Int(5), Str(<<"5", "x">>)>>}

ArraysOver(S) ==
  UNION {{<<"array", [i \in 1..Len(ks) |-> <<ks[i], f[i]>>]>> : f \in [1..Len(ks) -> S]} : ks \in KeyLists}

Single(S) == {<<"array", << <<k, v>> >> >> : k \in {Int(0), Str(Text("a"))}, v \in S}

Inner ==
  {<<"long", 7>>, Object, <<"array", <<>>>>} \cup
  {<<"array", <<<<k, v>>>>>> :
     k \in {Int(0), Str(WithNul)},
     v \in {<<"string", WithNul>>, Object, Closure, <<"Bytes", <<"text", "t">>>>}}

ZvalSet == {v : v \in UNION {Leaves, Inner, Single(Leaves), ArraysOver(Pairable), ArraysOver(Inner)}}

Bin(t) == Str(Text(t))

MCRecords ==
  {<<>>} \cup {<< <<Bin("bin1"), v>> >> : v \in ZvalSet} \cup
  {<< <<n1, v1>>, <<n2, v2>> >> :
     n1 \in {Bin("bin1"), Bin("a"), Bin("toolong"), Int(0)},
     n2 \in {Bin("bin2"), Str(WithNul), Bin("toolong"), Int(0)},
     v1 \in {<<"long", 7>>, Closure}, v2 \in {Object, Closure}}

MCForeignValues ==
  {<<"integer", 7>>, <<"nil", "">>, <<"otherbytes", "j">>, <<"phpbytes", <<"text", "t">>>>,
   <<"blob", <<"text", "t">>>>,
   <<"list", << <<"integer", 7>>, <<"otherbytes", "j">> >> >>,
   <<"list", << <<"nil", "">>, <<"integer", 7>> >> >>,
   <<"list", << <<"list", << <<"nil", "">>, <<"integer", 7>> >> >> >> >>,
   <<"list", << <<"blob", <<"text", "t">>>>, <<"map", {}>> >> >>,
   <<"map", {<< <<"double", "x">>, <<"integer", 7>> >>}>>,
   <<"map", {<< <<"blob", <<"long", 7>>>>, <<"integer", 7>> >>}>>,
   <<"map", {<< <<"phpbytes", <<"string", WithNul>>>>, <<"integer", 7>> >>, << <<"string", Text("a")>>, <<"nil", "">> >>}>>,
   <<"map", {<< <<"string", Text("a")>>, <<"list", << <<"otherbytes", "j">> >> >> >>}>>,
   <<"map", {<< <<"string", Text("5")>>, <<"nil", "">> >>}>>}

(* What these values may become, and what is in the ones above. *)
Serialised(S) == {<<t, v>> : t \in {"blob", "phpbytes"}, v \in S}

AsLeaves ==
  {<<"integer", 7>>, <<"double", "x">>, <<"string", Text("a")>>, <<"blob", <<"text", "t">>>>,
   <<"geojson", <<"text", "t">>>>} \cup Serialised({<<"other", "null">>, Object, <<"long", 7>>})

AsKeys == {<<"integer", n>> : n \in {0, 1, 5}} \cup {<<"string", Text(t)>> : t \in {"a", "5"}}

ListsOver(S) == {<<"list", s>> : s \in UNION {[1..n -> S] : n \in 0..2}}

Key(t) == <<"string", Text(t)>>
MapKeys == {<<Key("a"), Key("a")>>, <<Key("5"), Key("5")>>} \cup {<<<<"integer", n>>, k>> : n \in {0, 1, 5}, k \in AsKeys}

MapsOver(S) == {<<"map", {<<ks[1], v1>>, <<ks[2], v2>>}>> : ks \in MapKeys, v1, v2 \in S}

AsInner ==
  {<<"integer", 7>>, <<"list", <<>>>>} \cup Serialised({Object}) \cup
  UNION {{<<"list", <<v>> >>, <<"map", {<< <<"string", Text("a")>>, v>>}>>} :
           v \in {<<"string", Text("a")>>, <<"blob", <<"text", "t">>>>} \cup Serialised({Object})}

ForeignParts ==
  UNION {Parts(av) : av \in MCForeignValues} \cup UNION {Parts(p) : p \in UNION {Parts(av) : av \in MCForeignValues}}

AsValSet ==
  {av : av \in UNION {AsLeaves, AsKeys, AsInner, ListsOver(AsLeaves), ListsOver(AsInner), MapsOver(AsLeaves),
                      MapsOver(AsInner), MCForeignValues, ForeignParts}}

MCMaxDepth == 2

Level(v) ==
  CASE Parts(v) = {} -> 0
    [] Parts(v) # {} /\ \A p \in Parts(v) : Parts(p) = {} -> 1
    [] OTHER -> 2

DepthTable == [v \in {u : u \in ZvalSet \cup AsValSet} |-> Level(v)]

(* TLC evaluates a substituted definition anew at each use, and what it     *)
(* refers to once.                                                          *)
MCZvals == ZvalSet
MCAsVals == AsValSet
MCDepth == DepthTable
=============================================================================
