--------------------------- MODULE PoliciesProofs ---------------------------
(***************************************************************************)
(* The default policies of a handle are fixed when it is created: for any  *)
(* number of objects, handles and options, no call changes them, except    *)
(* that of operate.                                                        *)
(***************************************************************************)
EXTENDS Policies, TLAPS

USE NoneAssumption

(* No object has a handle before the first constructor. *)
LEMMA HandleInit == Init => HandleInv
  BY DEF Init, HandleInv, Created

(* The defaults of a new handle: one policy for each kind. *)
LEMMA NewDefaults == \A o : DOMAIN DefaultsFor(o) = Kind
  BY DEF DefaultsFor, set_policy_defaults_from_hash, set_subpolicies_from_hash

(* A call hands back the default policy it was given, unless it is operate. *)
LEMMA CallReturnsDefault ==
    ASSUME NEW k \in Kind, k # "operate", NEW z, NEW d
    PROVE  zval_to_as_policy(k, z, d).default = d
  BY DEF zval_to_as_policy, CopyDefault

(* A constructor adds the policies of a handle that was not there, and      *)
(* leaves those of the others.                                              *)
LEMMA ConstructStep ==
    ASSUME HandleInv, NEW c \in Client, NEW h \in Handle, NEW o,
           ConstructNew(c, h, o) \/ ConstructShared(c, h, o)
    PROVE  /\ HandleInv'
           /\ \A g \in Created : defaults'[g] = defaults[g]
  <1>1. CASE ConstructNew(c, h, o)
    <2>1. Created' = Created \cup {h}
      BY <1>1 DEF ConstructNew, Created, With
    <2>2. \A g \in Created : defaults'[g] = defaults[g]
      BY <1>1 DEF ConstructNew, Created, With
    <2>3. DOMAIN defaults'[h] = Kind
      BY <1>1, NewDefaults DEF ConstructNew, With
    <2> QED
      BY <1>1, <2>1, <2>2, <2>3 DEF ConstructNew, HandleInv
  <1>2. CASE ConstructShared(c, h, o)
    BY <1>2 DEF ConstructShared, HandleInv, Created
  <1> QED
    BY <1>1, <1>2

(* A call writes the default of its own kind on its own handle, and what it *)
(* writes is what was there.                                                *)
LEMMA CallStep ==
    ASSUME HandleInv, NEW c \in Client, NEW k \in Kind, NEW z, Call(c, k, z)
    PROVE  /\ HandleInv'
           /\ \A g \in Created, j \in Kind \ {"operate"} :
                defaults'[g][j] = defaults[g][j]
  <1> DEFINE h == handle[c]
             d == zval_to_as_policy(k, z, defaults[h][k]).default
  <1>1. h \in Created
    BY DEF Call, HandleInv
  <1>2. defaults' = [defaults EXCEPT ![h][k] = d]
    BY DEF Call
  <1>3. Created' = Created /\ \A g \in Created : DOMAIN defaults'[g] = Kind
    BY <1>1, <1>2 DEF HandleInv, Created
  <1>4. HandleInv'
    BY <1>3 DEF HandleInv, Call
  <1>5. k # "operate" => d = defaults[h][k]
    BY CallReturnsDefault
  <1>6. \A g \in Created, j \in Kind \ {"operate"} : defaults'[g][j] = defaults[g][j]
    <2> HIDE DEF d
    <2> QED
      BY <1>1, <1>2, <1>5 DEF HandleInv, Created
  <1> QED
    BY <1>4, <1>6

(* Every step keeps the invariant and the defaults. *)
LEMMA PolicyStep ==
    ASSUME HandleInv, [Next]_vars
    PROVE  /\ HandleInv'
           /\ \A g \in Created, j \in Kind \ {"operate"} :
                defaults'[g][j] = defaults[g][j]
  <1>1. CASE \E c \in Client, h \in Handle, o \in ConstructorOptions :
               ConstructNew(c, h, o) \/ ConstructShared(c, h, o)
    BY <1>1, ConstructStep
  <1>2. CASE \E c \in Client, k \in Kind :
               \E z \in {Null, Scalar} \cup {Array(a) : a \in AnyArray} :
                 Call(c, k, z)
    BY <1>2, CallStep
  <1>3. CASE (\E c \in Client : OperateOrderedPlain(c)) \/ Return \/ UNCHANGED vars
    BY <1>3 DEF OperateOrderedPlain, Return, vars, HandleInv, Created
  <1> QED
    BY <1>1, <1>2, <1>3 DEF Next, Script

(* An object points to a handle that was created. *)
THEOREM HandleInvariance == Spec => []HandleInv
  <1>1. HandleInv /\ [Next]_vars => HandleInv'
    BY PolicyStep
  <1> QED
    BY <1>1, HandleInit, PTL DEF Spec

(* No call of any object changes a default policy that others share: every  *)
(* zval_to_as_policy_<kind> but operate's copies from the handle, not to it.*)
THEOREM DefaultsAreFixed == Spec => DefaultsStand
  <1>1. HandleInv /\ [Next]_vars =>
          [\A h \in Created : \A k \in Kind \ {"operate"} :
             defaults'[h][k] = defaults[h][k]]_vars
    BY PolicyStep
  <1> QED
    BY <1>1, HandleInvariance, PTL DEF Spec, DefaultsStand

-----------------------------------------------------------------------------
(* Which layer a field comes from. *)

(* The kinds and the fields they have. *)
LEMMA KindFacts ==
    /\ Kind = {"read", "write", "remove", "batch", "operate", "query", "scan", "apply", "info", "admin"}
    /\ \A k \in Kind : /\ "read_timeout" \notin Field[k] /\ "write_timeout" \notin Field[k]
                       /\ "gen" \notin HashFields[k]
                       /\ "gen" \in Field[k] => k \in GenKind
                       /\ "total_timeout" \in Field[k]
                       /\ HashFields[k] \subseteq Field[k]
  <1>1. Kind = {"read", "write", "remove", "batch", "operate", "query", "scan", "apply", "info", "admin"}
    BY DEF Kind, HashFields
  <1>2. \A k \in Kind : "gen" \notin HashFields[k] /\ "read_timeout" \notin HashFields[k]
                      /\ "write_timeout" \notin HashFields[k]
    BY <1>1 DEF HashFields, Base
  <1>3. \A k \in Kind : Field[k] = HashFields[k] \cup {"total_timeout"}
                                 \cup (IF k \in GenKind THEN {"gen"} ELSE {})
    BY DEF Field
  <1> QED
    BY <1>1, <1>2, <1>3

(* The order in which the constructor looks its options up. *)
LEMMA OrderFacts ==
    /\ DOMAIN OptionOrder = 1..10
    /\ OptionOrder[1] = "read_timeout" /\ OptionOrder[2] = "write_timeout"
    /\ OptionOrder[3] = "total_timeout"
    /\ \A i \in 3..10 : OptionOrder[i] \notin {"read_timeout", "write_timeout"}
    /\ \A i \in 1..10 : OptionOrder[i] \in DOMAIN OptionTargets
    /\ \A n \in DOMAIN OptionTargets : \E i \in 1..10 : OptionOrder[i] = n
  <1>1. DOMAIN OptionOrder = 1..10
    BY DEF OptionOrder
  <1>2. /\ OptionOrder[1] = "read_timeout" /\ OptionOrder[2] = "write_timeout"
        /\ OptionOrder[3] = "total_timeout" /\ OptionOrder[4] = "socket_timeout"
        /\ OptionOrder[5] = "key" /\ OptionOrder[6] = "exists"
        /\ OptionOrder[7] = "max_retries" /\ OptionOrder[8] = "commit_level"
        /\ OptionOrder[9] = "read_mode_ap" /\ OptionOrder[10] = "replica"
    BY DEF OptionOrder
  <1>3. DOMAIN OptionTargets = {"read_timeout", "write_timeout", "total_timeout", "socket_timeout",
          "key", "exists", "max_retries", "commit_level", "read_mode_ap", "replica"}
    BY DEF OptionTargets
  <1>4. \A i \in 1..10 : i = 1 \/ i = 2 \/ i = 3 \/ i = 4 \/ i = 5 \/ i = 6 \/ i = 7 \/ i = 8 \/ i = 9 \/ i = 10
    OBVIOUS
  <1>5. \A i \in 3..10 : OptionOrder[i] \notin {"read_timeout", "write_timeout"}
    BY <1>2, <1>4
  <1>6. \A i \in 1..10 : OptionOrder[i] \in DOMAIN OptionTargets
    BY <1>2, <1>3, <1>4
  <1>7. \A n \in DOMAIN OptionTargets : \E i \in 1..10 : OptionOrder[i] = n
    BY <1>2, <1>3
  <1> QED
    BY <1>1, <1>2, <1>5, <1>6, <1>7

(* The timeout options of a kind: one, or the read timeout before the write *)
(* timeout.                                                                 *)
LEMMA TimeoutFacts ==
    ASSUME NEW k \in Kind
    PROVE  \/ DOMAIN TimeoutOptions[k] = 1..1 /\ TimeoutOptions[k][1] \in {"read_timeout", "write_timeout"}
           \/ /\ DOMAIN TimeoutOptions[k] = 1..2
              /\ TimeoutOptions[k][1] = "read_timeout" /\ TimeoutOptions[k][2] = "write_timeout"
  BY KindFacts DEF TimeoutOptions

(* A set of places in the order has a last one. *)
LEMMA LastOfTen ==
    ASSUME NEW S \in SUBSET (1..10), S # {}
    PROVE  Max(S) \in S /\ \A j \in S : j <= Max(S)
  <1>1. \E m \in S : \A j \in S : m >= j
    <2>1. \A j \in S : j \in {1, 2, 3, 4, 5, 6, 7, 8, 9, 10}
      OBVIOUS
    <2>2. CASE 10 \in S
      BY <2>1, <2>2
    <2>3. CASE 9 \in S /\ S \cap {10} = {}
      BY <2>1, <2>3
    <2>4. CASE 8 \in S /\ S \cap {9, 10} = {}
      BY <2>1, <2>4
    <2>5. CASE 7 \in S /\ S \cap {8, 9, 10} = {}
      BY <2>1, <2>5
    <2>6. CASE 6 \in S /\ S \cap {7, 8, 9, 10} = {}
      BY <2>1, <2>6
    <2>7. CASE 5 \in S /\ S \cap {6, 7, 8, 9, 10} = {}
      BY <2>1, <2>7
    <2>8. CASE 4 \in S /\ S \cap {5, 6, 7, 8, 9, 10} = {}
      BY <2>1, <2>8
    <2>9. CASE 3 \in S /\ S \cap {4, 5, 6, 7, 8, 9, 10} = {}
      BY <2>1, <2>9
    <2>10. CASE 2 \in S /\ S \cap {3, 4, 5, 6, 7, 8, 9, 10} = {}
      BY <2>1, <2>10
    <2>11. CASE 1 \in S /\ S \cap {2, 3, 4, 5, 6, 7, 8, 9, 10} = {}
      BY <2>1, <2>11
    <2> QED
      BY <2>1, <2>2, <2>3, <2>4, <2>5, <2>6, <2>7, <2>8, <2>9, <2>10, <2>11
  <1>2. Max(S) \in S /\ \A j \in S : Max(S) >= j
    BY <1>1 DEF Max
  <1> QED
    BY <1>2

(* A set of the first two places has a first one. *)
LEMMA FirstOfTwo ==
    ASSUME NEW S \in SUBSET (1..2), S # {}
    PROVE  Min(S) \in S /\ \A j \in S : Min(S) <= j
  <1>1. \E m \in S : \A j \in S : m <= j
    <2>1. CASE 1 \in S
      BY <2>1
    <2>2. CASE 1 \notin S
      <3>1. \A j \in S : j = 2
        BY <2>2
      <3>2. PICK j \in S : TRUE
        OBVIOUS
      <3> QED
        BY <3>1, <3>2
    <2> QED
      BY <2>1, <2>2
  <1> QED
    BY <1>1 DEF Min

(* The default policy of a new handle, field by field. *)
LEMMA DefaultField ==
    ASSUME NEW o, NEW k \in Kind, NEW f \in Field[k]
    PROVE  DefaultsFor(o)[k][f] =
             IF f \in HashFields[k] /\ k \in DOMAIN o.sub /\ Good(o.sub[k].array, f)
             THEN <<"default_pol", f>>
             ELSE IF Writers(o, k, f) # {} THEN <<"options", OptionOrder[Max(Writers(o, k, f))]>>
             ELSE IF f \in DOMAIN ConfigTargets /\ k \in ConfigTargets[f] /\ Good(o.config, f)
             THEN <<"config", f>>
             ELSE IF f \in DOMAIN IniTargets /\ k \in IniTargets[f] THEN <<"ini", f>>
             ELSE BuiltIn
  BY DEF DefaultsFor, set_policy_defaults_from_hash, set_subpolicies_from_hash, ApplyOptions,
         set_as_config, set_policy_defaults_from_ini, as_policy_init, set_policy_from_hash

(* The timeout options that a call gives. *)
Given(k, a) == {i \in DOMAIN TimeoutOptions[k] : Good(a, TimeoutOptions[k][i])}

(* What a call with array a makes of field f of the default policy d. *)
CalledField(k, a, d, f) ==
  IF f \in HashFields[k] /\ Good(a, f) THEN <<"call", f>>
  ELSE IF f = "gen" /\ "gen" \in DOMAIN a /\ a["gen"] \in TakesGen[k] THEN <<"call", "gen">>
  ELSE IF f = "total_timeout" /\ Given(k, a) # {} THEN <<"call", TimeoutOptions[k][Min(Given(k, a))]>>
  ELSE d[f]

(* The policy of a request, field by field. *)
LEMMA PolicyField ==
    ASSUME NEW k \in Kind, k # "operate", NEW z, NEW d, DOMAIN d = Field[k], NEW f \in Field[k]
    PROVE  zval_to_as_policy(k, z, d).policy[f] = CalledField(k, z.array, d, f)
  <1> DEFINE a == z.array
             p1 == SetTimeout(k, a, d)
             p2 == SetGen(k, a, p1)
  <1>1. zval_to_as_policy(k, z, d).policy = set_policy_from_hash(k, a, "call", p2)
    BY DEF zval_to_as_policy, CopyDefault
  <1>2. /\ DOMAIN p1 = Field[k]
        /\ p1[f] = IF f = "total_timeout" /\ Given(k, a) # {}
                   THEN <<"call", TimeoutOptions[k][Min(Given(k, a))]>> ELSE d[f]
    BY DEF SetTimeout, Given
  <1>3. p2[f] = IF f = "gen" /\ "gen" \in DOMAIN a /\ a["gen"] \in TakesGen[k]
                THEN <<"call", "gen">> ELSE p1[f]
    <2> HIDE DEF p1
    <2> QED
      BY <1>2, KindFacts DEF SetGen
  <1>4. set_policy_from_hash(k, a, "call", p2)[f] =
          IF f \in HashFields[k] /\ Good(a, f) THEN <<"call", f>> ELSE p2[f]
    BY DEF set_policy_from_hash
  <1> HIDE DEF a, p1, p2
  <1>5. zval_to_as_policy(k, z, d).policy[f] = CalledField(k, a, d, f)
    BY <1>1, <1>2, <1>3, <1>4 DEF CalledField
  <1> QED
    BY <1>5 DEF a

(* The ranks of the layers and of the names. *)
LEMMA RankFacts ==
    /\ DOMAIN LayerRank = {"call", "default_pol", "options", "config", "ini", "builtin"}
    /\ LayerRank["call"] = 6 /\ LayerRank["default_pol"] = 5 /\ LayerRank["options"] = 4
    /\ LayerRank["config"] = 3 /\ LayerRank["ini"] = 2 /\ LayerRank["builtin"] = 1
    /\ NameRank("write_timeout") = 1 /\ NameRank("read_timeout") = 2
    /\ \A n : NameRank(n) \in 1..3
    /\ \A n : n \notin {"read_timeout", "write_timeout"} => NameRank(n) = 3
  <1>1. /\ DOMAIN LayerRank = {"call", "default_pol", "options", "config", "ini", "builtin"}
        /\ LayerRank["call"] = 6 /\ LayerRank["default_pol"] = 5 /\ LayerRank["options"] = 4
        /\ LayerRank["config"] = 3 /\ LayerRank["ini"] = 2 /\ LayerRank["builtin"] = 1
    BY DEF LayerRank
  <1>2. /\ NameRank("write_timeout") = 1 /\ NameRank("read_timeout") = 2
        /\ \A n : n \notin {"read_timeout", "write_timeout"} => NameRank(n) = 3
    BY DEF NameRank
  <1>3. \A n : NameRank(n) \in 1..3
    BY <1>2
  <1> QED
    BY <1>1, <1>2, <1>3

(* Of the options that write one field, the last one looked up has the      *)
(* strongest name: the read and the write timeout meet in no kind.          *)
LEMMA LastIsStrongest ==
    ASSUME NEW o, NEW k \in Kind, NEW f,
           NEW i \in Writers(o, k, f), NEW j \in Writers(o, k, f), j <= i
    PROVE  NameRank(OptionOrder[j]) <= NameRank(OptionOrder[i])
  <1>1. /\ i \in 1..10 /\ j \in 1..10
        /\ k \in OptionTargets[OptionOrder[i]] /\ k \in OptionTargets[OptionOrder[j]]
    BY OrderFacts DEF Writers
  <1>2. CASE i \in 3..10
    BY <1>1, <1>2, OrderFacts, RankFacts
  <1>3. CASE i = 1
    BY <1>1, <1>3, RankFacts
  <1>4. CASE i = 2
    <2>1. j # 1
      BY <1>1, <1>4, OrderFacts DEF OptionTargets, ReadTimeoutKinds, WriteTimeoutKinds
    <2> QED
      BY <1>1, <1>4, <2>1, RankFacts
  <1> QED
    BY <1>1, <1>2, <1>3, <1>4

(* The values of OPT_POLICY_GEN that a kind takes are those that set it,    *)
(* but for the odd arrays of remove.                                        *)
LEMMA GenFacts ==
    ASSUME NEW k \in Kind, k # "operate", NEW a, NEW f \in Field[k], f = "gen",
           ~OddGeneration(k, f, a), "gen" \in DOMAIN a
    PROVE  a["gen"] \in TakesGen[k] <=> a["gen"] \in {"good", "pair", "one"}
  <1>1. k \in {"write", "remove"}
    BY KindFacts DEF GenKind
  <1>2. TakesGen["write"] = {"good", "pair", "one"} /\ TakesGen["remove"] = {"good", "pair", "text"}
    BY DEF TakesGen
  <1> QED
    BY <1>1, <1>2 DEF OddGeneration

(* Every field of every policy comes from the strongest layer that sets it. *)
LEMMA PolicyIsMostSpecific ==
    ASSUME NEW k \in Kind, k # "operate", NEW z, NEW o, NEW f \in Field[k],
           ~OddGeneration(k, f, z.array)
    PROVE  MostSpecific(zval_to_as_policy(k, z, DefaultsFor(o)[k]).policy[f], k, f, z.array, o)
  <1> DEFINE a == z.array
             v == zval_to_as_policy(k, z, DefaultsFor(o)[k]).policy[f]
  <1>1. DOMAIN DefaultsFor(o)[k] = Field[k]
    BY DEF DefaultsFor, set_policy_defaults_from_hash, set_subpolicies_from_hash, ApplyOptions,
           set_policy_from_hash
  <1>2. v = IF f \in HashFields[k] /\ Good(a, f) THEN <<"call", f>>
            ELSE IF f = "gen" /\ "gen" \in DOMAIN a /\ a["gen"] \in TakesGen[k]
            THEN <<"call", "gen">>
            ELSE IF f = "total_timeout" /\ Given(k, a) # {}
            THEN <<"call", TimeoutOptions[k][Min(Given(k, a))]>>
            ELSE DefaultsFor(o)[k][f]
    <2> DEFINE d == DefaultsFor(o)[k]
    <2>1. DOMAIN d = Field[k]
      BY <1>1
    <2> HIDE DEF d
    <2>2. zval_to_as_policy(k, z, d).policy[f] = CalledField(k, z.array, d, f)
      BY <2>1, PolicyField
    <2> QED
      BY <2>2 DEF d, CalledField
  <1>3. f = "gen" /\ "gen" \in DOMAIN a =>
          (a["gen"] \in TakesGen[k] <=> a["gen"] \in {"good", "pair", "one"})
    BY GenFacts
  <1> HIDE DEF v, a
  <1>4. f \notin {"read_timeout", "write_timeout"} /\ NameRank(f) = 3
    BY KindFacts, RankFacts
  <1> SUFFICES MostSpecific(v, k, f, a, o)
    BY DEF v, a
  <1>5. ASSUME f \in HashFields[k] /\ Good(a, f) PROVE MostSpecific(v, k, f, a, o)
    <2>1. v = <<"call", f>>
      BY <1>2, <1>5
    <2>2. Sets("call", f, k, f, a, o)
      BY <1>5 DEF Sets
    <2>3. \A layer \in DOMAIN LayerRank : \A n : ~Stronger(<<layer, n>>, <<"call", f>>)
      BY <1>4, RankFacts DEF Stronger
    <2> QED
      BY <2>1, <2>2, <2>3 DEF MostSpecific
  <1>6. ASSUME ~(f \in HashFields[k] /\ Good(a, f)),
               f = "gen", "gen" \in DOMAIN a, a["gen"] \in TakesGen[k]
        PROVE  MostSpecific(v, k, f, a, o)
    <2>1. v = <<"call", f>>
      BY <1>2, <1>6
    <2>2. Sets("call", f, k, f, a, o)
      BY <1>6, <1>3 DEF Sets
    <2>3. \A layer \in DOMAIN LayerRank : \A n : ~Stronger(<<layer, n>>, <<"call", f>>)
      BY <1>4, RankFacts DEF Stronger
    <2> QED
      BY <2>1, <2>2, <2>3 DEF MostSpecific
  <1>7. ASSUME ~(f \in HashFields[k] /\ Good(a, f)), f = "total_timeout", Given(k, a) # {}
        PROVE  MostSpecific(v, k, f, a, o)
    <2> DEFINE i == Min(Given(k, a))
               m == TimeoutOptions[k][i]
    <2>1. v = <<"call", m>>
      BY <1>2, <1>7
    <2>2. Given(k, a) \in SUBSET (1..2)
      BY TimeoutFacts DEF Given
    <2>3. i \in Given(k, a) /\ \A j \in Given(k, a) : i <= j
      BY <1>7, <2>2, FirstOfTwo
    <2> HIDE DEF i
    <2>4. Sets("call", m, k, f, a, o)
      BY <1>7, <2>3 DEF Sets, Given
    <2>5. ASSUME NEW layer \in DOMAIN LayerRank, NEW n, Sets(layer, n, k, f, a, o)
          PROVE  ~Stronger(<<layer, n>>, <<"call", m>>)
      <3>1. CASE layer # "call"
        BY <3>1, RankFacts DEF Stronger
      <3>2. CASE layer = "call"
        <4>1. PICK j \in Given(k, a) : n = TimeoutOptions[k][j]
          BY <1>7, <2>5, <3>2 DEF Sets, Given
        <4>2. NameRank(n) <= NameRank(m)
          <5>1. i \in 1..2 /\ j \in 1..2 /\ i <= j
            BY <2>2, <2>3, <4>1
          <5>2. i \in DOMAIN TimeoutOptions[k] /\ j \in DOMAIN TimeoutOptions[k]
            BY <2>3, <4>1 DEF Given
          <5> QED
            BY <4>1, <5>1, <5>2, TimeoutFacts, RankFacts
        <4> QED
          BY <3>2, <4>2, RankFacts DEF Stronger
      <3> QED
        BY <3>1, <3>2
    <2> QED
      BY <2>1, <2>4, <2>5 DEF MostSpecific
  <1>8. ASSUME ~(f \in HashFields[k] /\ Good(a, f)),
               ~(f = "gen" /\ "gen" \in DOMAIN a /\ a["gen"] \in TakesGen[k]),
               ~(f = "total_timeout" /\ Given(k, a) # {})
        PROVE  MostSpecific(v, k, f, a, o)
    <2>1. \A n : ~Sets("call", n, k, f, a, o)
      BY <1>8, <1>3 DEF Sets, Given
    <2>2. v = DefaultsFor(o)[k][f]
      BY <1>2, <1>8
    <2>3. CASE f \in HashFields[k] /\ k \in DOMAIN o.sub /\ Good(o.sub[k].array, f)
      <3>1. v = <<"default_pol", f>>
        BY <2>2, <2>3, DefaultField
      <3>2. Sets("default_pol", f, k, f, a, o)
        BY <2>3 DEF Sets
      <3>3. \A layer \in DOMAIN LayerRank \ {"call"} : \A n :
              ~Stronger(<<layer, n>>, <<"default_pol", f>>)
        BY <1>4, RankFacts DEF Stronger
      <3> QED
        BY <2>1, <3>1, <3>2, <3>3 DEF MostSpecific
    <2>4. CASE /\ ~(f \in HashFields[k] /\ k \in DOMAIN o.sub /\ Good(o.sub[k].array, f))
               /\ Writers(o, k, f) # {}
      <3> DEFINE i == Max(Writers(o, k, f))
                 m == OptionOrder[i]
      <3>1. v = <<"options", m>>
        BY <2>2, <2>4, DefaultField
      <3>2. i \in Writers(o, k, f) /\ \A j \in Writers(o, k, f) : j <= i
        <4>1. Writers(o, k, f) \in SUBSET (1..10)
          BY OrderFacts DEF Writers
        <4> QED
          BY <2>4, <4>1, LastOfTen
      <3> HIDE DEF i
      <3>3. Sets("options", m, k, f, a, o)
        BY <3>2, OrderFacts DEF Sets, Writers
      <3>4. \A n : ~Sets("default_pol", n, k, f, a, o)
        BY <2>4 DEF Sets
      <3>5. ASSUME NEW layer \in DOMAIN LayerRank, NEW n, Sets(layer, n, k, f, a, o)
            PROVE  ~Stronger(<<layer, n>>, <<"options", m>>)
        <4>1. layer \in {"options", "config", "ini", "builtin"}
          BY <2>1, <3>4, <3>5, RankFacts
        <4>2. CASE layer # "options"
          BY <4>1, <4>2, RankFacts DEF Stronger
        <4>3. CASE layer = "options"
          <5>1. PICK j \in Writers(o, k, f) : n = OptionOrder[j]
            BY <3>5, <4>3, OrderFacts DEF Sets, Writers
          <5>2. NameRank(n) <= NameRank(m)
            BY <3>2, <5>1, LastIsStrongest
          <5> QED
            BY <4>3, <5>2, RankFacts DEF Stronger
        <4> QED
          BY <4>2, <4>3
      <3> QED
        BY <3>1, <3>3, <3>5 DEF MostSpecific
    <2>5. ASSUME ~(f \in HashFields[k] /\ k \in DOMAIN o.sub /\ Good(o.sub[k].array, f)),
                 Writers(o, k, f) = {}
          PROVE  MostSpecific(v, k, f, a, o)
      <3>1. \A n : ~Sets("default_pol", n, k, f, a, o) /\ ~Sets("options", n, k, f, a, o)
        <4>1. \A n : ~Sets("default_pol", n, k, f, a, o)
          BY <2>5 DEF Sets
        <4>2. \A n : ~Sets("options", n, k, f, a, o)
          BY <2>5, OrderFacts DEF Sets, Writers
        <4> QED
          BY <4>1, <4>2
      <3>2. CASE f \in DOMAIN ConfigTargets /\ k \in ConfigTargets[f] /\ Good(o.config, f)
        <4>1. v = <<"config", f>>
          BY <2>2, <2>5, <3>2, DefaultField
        <4>2. Sets("config", f, k, f, a, o)
          BY <3>2 DEF Sets
        <4>3. \A layer \in {"config", "ini", "builtin"} : \A n :
                ~Stronger(<<layer, n>>, <<"config", f>>)
          BY <1>4, RankFacts DEF Stronger
        <4> QED
          BY <2>1, <3>1, <4>1, <4>2, <4>3, RankFacts DEF MostSpecific
      <3>3. ASSUME ~(f \in DOMAIN ConfigTargets /\ k \in ConfigTargets[f] /\ Good(o.config, f))
            PROVE  \A n : ~Sets("config", n, k, f, a, o)
        BY <3>3 DEF Sets
      <3>4. CASE /\ ~(f \in DOMAIN ConfigTargets /\ k \in ConfigTargets[f] /\ Good(o.config, f))
                 /\ f \in DOMAIN IniTargets /\ k \in IniTargets[f]
        <4>1. v = <<"ini", f>>
          BY <2>2, <2>5, <3>4, DefaultField
        <4>2. Sets("ini", f, k, f, a, o)
          BY <3>4 DEF Sets
        <4>3. \A layer \in {"ini", "builtin"} : \A n : ~Stronger(<<layer, n>>, <<"ini", f>>)
          BY <1>4, RankFacts DEF Stronger
        <4> QED
          BY <2>1, <3>1, <3>4, <3>3, <4>1, <4>2, <4>3, RankFacts DEF MostSpecific
      <3>5. CASE /\ ~(f \in DOMAIN ConfigTargets /\ k \in ConfigTargets[f] /\ Good(o.config, f))
                 /\ ~(f \in DOMAIN IniTargets /\ k \in IniTargets[f])
        <4>1. v = <<"builtin", "builtin">>
          BY <2>2, <2>5, <3>5, DefaultField DEF BuiltIn
        <4>2. Sets("builtin", "builtin", k, f, a, o)
          BY DEF Sets
        <4>3. \A n : ~Sets("ini", n, k, f, a, o)
          BY <3>5 DEF Sets
        <4>4. \A n : ~Stronger(<<"builtin", n>>, <<"builtin", "builtin">>)
          BY RankFacts DEF Stronger
        <4> QED
          BY <2>1, <3>1, <3>5, <3>3, <4>1, <4>2, <4>3, <4>4, RankFacts DEF MostSpecific
      <3> QED
        BY <3>2, <3>4, <3>5
    <2> QED
      BY <2>3, <2>4, <2>5
  <1> QED
    BY <1>5, <1>6, <1>7, <1>8

(* A constructor makes the defaults of a new handle from its options. *)
LEMMA ConstructRequest ==
    ASSUME RequestInv, request = NoCall, NEW c \in Client, NEW h \in Handle, NEW o,
           ConstructNew(c, h, o) \/ ConstructShared(c, h, o)
    PROVE  RequestInv'
  <1>1. HandleInv' /\ request' = NoCall /\ request'.kind = "none"
    BY ConstructStep DEF ConstructNew, ConstructShared, RequestInv, NoCall
  <1>2. CASE ConstructNew(c, h, o)
    <2>1. /\ Created' = Created \cup {h} /\ h \notin Created
          /\ DOMAIN creator = Created
          /\ DOMAIN creator' = Created' /\ creator'[h] = o /\ defaults'[h] = DefaultsFor(o)
          /\ \A g \in Created : creator'[g] = creator[g] /\ defaults'[g] = defaults[g]
      BY <1>2 DEF ConstructNew, With, Created, RequestInv
    <2>2. \A g \in Created', j \in Kind \ {"operate"} :
            defaults'[g][j] = DefaultsFor(creator'[g])[j]
      BY <2>1 DEF RequestInv
    <2> QED
      BY <1>1, <2>1, <2>2 DEF RequestInv
  <1>3. CASE ConstructShared(c, h, o)
    BY <1>1, <1>3 DEF ConstructShared, RequestInv, Created
  <1> QED
    BY <1>2, <1>3

(* A call makes its policy from the default of its kind. *)
LEMMA CallRequest ==
    ASSUME RequestInv, NEW c \in Client, NEW k \in Kind, NEW z, Call(c, k, z)
    PROVE  RequestInv'
  <1> DEFINE h == handle[c]
             d == defaults[h][k]
             r == zval_to_as_policy(k, z, d)
  <1>1. HandleInv /\ HandleInv'
    BY CallStep DEF RequestInv
  <1>2. h \in Created
    BY <1>1 DEF Call, HandleInv
  <1>3. /\ request' = IF r.ok THEN [kind |-> k, on |-> h, given |-> z, policy |-> r.policy] ELSE NoCall
        /\ creator' = creator
    BY DEF Call
  <1>4. Created' = Created /\ DOMAIN creator' = Created'
    BY <1>3 DEF Call, Created, RequestInv
  <1>5. \A g \in Created', j \in Kind \ {"operate"} :
          defaults'[g][j] = DefaultsFor(creator'[g])[j]
    BY <1>1, <1>3, <1>4, CallStep DEF RequestInv
  <1>6. k # "operate" => d = DefaultsFor(creator[h])[k]
    BY <1>2 DEF RequestInv
  <1> HIDE DEF h, d
  <1>7. ASSUME request'.kind \notin {"none", "operate"}
        PROVE  /\ request'.kind = k /\ request'.on = h /\ request'.given = z
               /\ k # "operate" /\ request'.policy = r.policy
    BY <1>3, <1>7 DEF NoCall
  <1> HIDE DEF r
  <1>8. ASSUME request'.kind \notin {"none", "operate"}
        PROVE  request'.policy = zval_to_as_policy(k, z, DefaultsFor(creator'[h])[k]).policy
    BY <1>3, <1>6, <1>7, <1>8 DEF r
  <1>9. request'.kind \notin {"none", "operate"} =>
          /\ request'.kind \in Kind /\ request'.on \in Created'
          /\ request'.policy = zval_to_as_policy(request'.kind, request'.given,
                                 DefaultsFor(creator'[request'.on])[request'.kind]).policy
    BY <1>2, <1>4, <1>7, <1>8
  <1> QED
    BY <1>1, <1>4, <1>5, <1>9 DEF RequestInv

(* A request without a policy is one of operate, and a return leaves none. *)
LEMMA OtherRequest ==
    ASSUME RequestInv,
           \/ \E c \in Client : OperateOrderedPlain(c)
           \/ Return
           \/ UNCHANGED vars
    PROVE  RequestInv'
  <1>1. UNCHANGED <<handle, defaults, creator>>
    BY DEF OperateOrderedPlain, Return, vars
  <1>2. \/ request'.kind \in {"none", "operate"}
        \/ request' = request
    BY DEF OperateOrderedPlain, Return, vars, NoCall
  <1> QED
    BY <1>1, <1>2 DEF RequestInv, HandleInv, Created

(* Requests and defaults are what the options make them. *)
THEOREM RequestInvariance == Spec => []RequestInv
  <1>1. Init => RequestInv
    BY HandleInit DEF Init, RequestInv, Created, NoCall
  <1>2. ASSUME RequestInv, [Next]_vars PROVE RequestInv'
    <2>1. CASE request = NoCall /\ \E c \in Client, h \in Handle, o \in ConstructorOptions :
                 ConstructNew(c, h, o) \/ ConstructShared(c, h, o)
      BY <1>2, <2>1, ConstructRequest
    <2>2. CASE \E c \in Client, k \in Kind :
                 \E z \in {Null, Scalar} \cup {Array(a) : a \in AnyArray} :
                   Call(c, k, z)
      BY <1>2, <2>2, CallRequest
    <2>3. CASE (\E c \in Client : OperateOrderedPlain(c)) \/ Return \/ UNCHANGED vars
      BY <1>2, <2>3, OtherRequest
    <2> QED
      BY <1>2, <2>1, <2>2, <2>3 DEF Next, Script
  <1> QED
    BY <1>1, <1>2, PTL DEF Spec

(* Whatever options the objects of a script were built with, and however    *)
(* they share handles, each field of a request comes from the strongest     *)
(* layer that sets it, the odd generations of remove and operate apart.     *)
THEOREM StrongestLayerWins == Spec => []MostSpecificWins
  <1>1. ASSUME RequestInv, request.kind \notin {"none", "operate"}, NEW f \in Field[request.kind],
               ~OddGeneration(request.kind, f, request.given.array)
        PROVE  MostSpecific(request.policy[f], request.kind, f, request.given.array, creator[request.on])
    <2> DEFINE k == request.kind
               z == request.given
               o == creator[request.on]
    <2>1. k \in Kind /\ k # "operate" /\ f \in Field[k] /\ ~OddGeneration(k, f, z.array)
          /\ request.policy = zval_to_as_policy(k, z, DefaultsFor(o)[k]).policy
      BY <1>1 DEF RequestInv
    <2> HIDE DEF k, z, o
    <2>2. MostSpecific(zval_to_as_policy(k, z, DefaultsFor(o)[k]).policy[f], k, f, z.array, o)
      BY <2>1, PolicyIsMostSpecific
    <2>3. MostSpecific(request.policy[f], k, f, z.array, o)
      BY <2>1, <2>2
    <2> QED
      BY <2>3 DEF k, z, o
  <1>2. RequestInv => MostSpecificWins
    BY <1>1 DEF MostSpecificWins
  <1> QED
    BY <1>2, RequestInvariance, PTL

=============================================================================
