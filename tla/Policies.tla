------------------------------ MODULE Policies ------------------------------
(***************************************************************************)
(* Where the settings of a request come from.  A constructor fills the     *)
(* default policies of a new handle in five layers: the library's built-in *)
(* values, php.ini, the configuration array, the constructor's options, and *)
(* the OPT_*_DEFAULT_POL arrays inside those options.  Objects built later for the same           *)
(* persistent alias share the handle and its defaults.  A call copies the   *)
(* default policy of its kind and overlays the array it was given.          *)
(*                                                                         *)
(* The value of a field is abstracted to its provenance: the layer that     *)
(* wrote it and the name of the option there.  An option is named after the *)
(* policy field it sets; the two that set total_timeout under another name  *)
(* are "read_timeout" and "write_timeout".                                  *)
(*                                                                         *)
(* A definition named Mut_<fault>_<name> is <name> with that fault in it:   *)
(* the properties are tested against them.                                  *)
(*                                                                         *)
(* Source: policy_conversions.c, client/aerospike_class.c,                  *)
(* client/php_client_utils.c, client/operate.c.                             *)
(***************************************************************************)
EXTENDS Naturals, Sequences, FiniteSetsExt

CONSTANTS Client,      \* Aerospike objects of a script
          Handle,      \* library handles (aerospike*) it may create
          Together,    \* the sets of options that scripts give together
          None         \* no handle

ASSUME NoneAssumption == None \notin Handle

VARIABLES handle,      \* handle[c]: as_client of object c, or None
          defaults,    \* defaults[h][k]: h->config.policies, by policy kind,
                       \* for the handles that were created
          creator,     \* creator[h]: the options h was created with (history)
          request      \* the request being sent: its policy lives on the
                       \* stack of the method until it returns

vars == <<handle, defaults, creator, request>>

Base == {"sleep_between_retries", "max_retries", "total_timeout", "socket_timeout"}

(* The fields that set_<kind>_policy_from_hash looks for in an array. *)
HashFields ==
  [read    |-> Base \cup {"read_mode_ap", "deserialize", "read_mode_sc", "key", "replica"},
   write   |-> Base \cup {"compression_threshold", "exists", "commit_level",
                          "durable_delete", "key", "replica"},
   remove  |-> Base \cup {"commit_level", "durable_delete", "key", "replica"},
   batch   |-> Base \cup {"concurrent", "allow_inline", "send_set_name",
                          "read_mode_ap", "deserialize", "read_mode_sc"},
   operate |-> Base \cup {"read_mode_ap", "deserialize", "read_mode_sc", "exists",
                          "commit_level", "durable_delete", "key", "replica"},
   query   |-> Base \cup {"deserialize"},
   scan    |-> Base \cup {"durable_delete", "records_per_second"},
   apply   |-> Base \cup {"commit_level", "durable_delete", "key", "replica"},
   info    |-> {},      \* as_policy_info and as_policy_admin have a timeout
   admin   |-> {}]      \* only, and no setter of their own

Kind == DOMAIN HashFields
SubKind == Kind \ {"info", "admin"}       \* the kinds with an OPT_<KIND>_DEFAULT_POL
GenKind == {"write", "operate", "remove"} \* the kinds whose gen field is set

Field == [k \in Kind |-> HashFields[k] \cup {"total_timeout"}
                         \cup (IF k \in GenKind THEN {"gen"} ELSE {})]

BuiltIn == <<"builtin", "builtin">>
as_policy_init(k) == [f \in Field[k] |-> BuiltIn]

-----------------------------------------------------------------------------
(* An options array: option name -> the type of its value.  An argument is  *)
(* NULL (or absent), a scalar or an array.  OPT_POLICY_GEN is documented as *)
(* [policy, generation]: "good" is two integers, "pair" [int, non-int],     *)
(* "text" [non-int, int], "one" [int], and "bad" empty or not an array.     *)
Null == [type |-> "null", array |-> <<>>]
Scalar == [type |-> "scalar", array |-> <<>>]
Array(a) == [type |-> "array", array |-> a]

Good(a, n) == n \in DOMAIN a /\ a[n] = "good"
Bad(a, n)  == n \in DOMAIN a /\ a[n] # "good"

set_policy_from_hash(k, a, layer, p) ==
  [f \in Field[k] |-> IF f \in HashFields[k] /\ Good(a, f) THEN <<layer, f>> ELSE p[f]]

ReadTimeoutKinds == {"read", "info", "batch"}
WriteTimeoutKinds == {"write", "operate", "remove", "apply"}

(* php.ini: layer 2.  Every entry has a value, so every target is written. *)
IniTargets ==
  [total_timeout |-> ReadTimeoutKinds \cup WriteTimeoutKinds,
   key |-> {"read", "write", "operate", "remove"},
   compression_threshold |-> {"write"},
   gen |-> {"write", "operate", "remove"}]

set_policy_defaults_from_ini(ps) ==
  [k \in Kind |-> [f \in Field[k] |->
     IF f \in DOMAIN IniTargets /\ k \in IniTargets[f] THEN <<"ini", f>> ELSE ps[k][f]]]

(* The configuration array, layer 3: of its entries one goes to a policy. *)
ConfigTargets == [compression_threshold |-> {"write"}]

set_as_config(o, ps) ==
  [k \in Kind |-> [f \in Field[k] |->
     IF f \in DOMAIN ConfigTargets /\ k \in ConfigTargets[f] /\ Good(o.config, f)
     THEN <<"config", f>> ELSE ps[k][f]]]

(* The constructor's own options, layer 4: the kinds each one writes to. *)
OptionTargets ==
  [read_timeout   |-> ReadTimeoutKinds,
   write_timeout  |-> WriteTimeoutKinds,
   total_timeout  |-> ReadTimeoutKinds \cup WriteTimeoutKinds,
   socket_timeout |-> {"read", "batch", "write", "operate", "remove", "apply"},
   key            |-> {"read", "write", "operate", "remove"},
   exists         |-> {"write"},
   max_retries    |-> SubKind,
   commit_level   |-> {"write", "remove", "operate", "apply"},
   read_mode_ap   |-> {"read", "operate", "batch"},
   replica        |-> {"read", "operate"}]

FieldOf(n) == IF n \in {"read_timeout", "write_timeout"} THEN "total_timeout" ELSE n

(* The order in which the options are looked up; a later one overwrites. *)
Mut_TotalFirst_OptionOrder ==
  <<"total_timeout", "read_timeout", "write_timeout", "socket_timeout", "key", "exists",
    "max_retries", "commit_level", "read_mode_ap", "replica">>

OptionOrder ==
  <<"read_timeout", "write_timeout", "total_timeout", "socket_timeout", "key", "exists",
    "max_retries", "commit_level", "read_mode_ap", "replica">>

(* Layer 5.  o.sub[k] is the value under OPT_<K>_DEFAULT_POL. *)
set_subpolicies_from_hash(o, ps) ==
  [k \in Kind |-> IF k \in DOMAIN o.sub
                  THEN set_policy_from_hash(k, o.sub[k].array, "default_pol", ps[k])
                  ELSE ps[k]]

(* Layers 3 to 5; any value of the wrong type fails the constructor. *)
OptionsAccepted(o) ==
  /\ \A n \in DOMAIN ConfigTargets : ~Bad(o.config, n)
  /\ \A n \in DOMAIN OptionTargets : ~Bad(o.own, n)
  /\ \A k \in DOMAIN o.sub : o.sub[k].type = "array"

(* The options that write field f of kind k, by their places in the order:  *)
(* what the last of them writes stands.                                     *)
Writers(o, k, f) ==
  {i \in DOMAIN OptionOrder : LET n == OptionOrder[i]
                              IN Good(o.own, n) /\ k \in OptionTargets[n] /\ FieldOf(n) = f}

ApplyOptions(o, ps) ==
  [k \in Kind |-> [f \in Field[k] |->
     IF Writers(o, k, f) = {} THEN ps[k][f]
     ELSE <<"options", OptionOrder[Max(Writers(o, k, f))]>>]]

set_policy_defaults_from_hash(o, ps) == set_subpolicies_from_hash(o, ApplyOptions(o, ps))

Mut_IniLast_DefaultsFor(o) ==
  set_policy_defaults_from_hash(o,
    set_policy_defaults_from_ini(set_as_config(o, [k \in Kind |-> as_policy_init(k)])))

DefaultsFor(o) ==
  set_policy_defaults_from_hash(o,
    set_as_config(o, set_policy_defaults_from_ini([k \in Kind |-> as_policy_init(k)])))

-----------------------------------------------------------------------------
(* A call: zval_to_as_policy_<kind>, with the policy argument z. *)

(* The copy at the top of each function.  For operate the arguments of      *)
(* as_policy_operate_copy(src, dst) are exchanged: the freshly initialised  *)
(* policy is copied over the handle's default.                              *)
Mut_SwapsApply_CopyDefault(k, default) ==
  IF k \in {"operate", "apply"}
  THEN [policy |-> as_policy_init(k), default |-> as_policy_init(k)]
  ELSE [policy |-> default, default |-> default]

CopyDefault(k, default) ==
  IF k = "operate"
  THEN [policy |-> as_policy_init(k), default |-> as_policy_init(k)]
  ELSE [policy |-> default, default |-> default]

(* The timeout options that a kind takes, the strongest first; the strict   *)
(* kinds refuse a value that is not an integer.  scan looks for the write   *)
(* timeout only when there is no read timeout.                              *)
TimeoutOptions ==
  [read |-> <<"read_timeout">>, write |-> <<"write_timeout">>, remove |-> <<"write_timeout">>,
   operate |-> <<"write_timeout">>, apply |-> <<"write_timeout">>,
   info |-> <<"read_timeout", "write_timeout">>, scan |-> <<"read_timeout", "write_timeout">>,
   query |-> <<"read_timeout">>, batch |-> <<"read_timeout">>, admin |-> <<"write_timeout">>]
Strict == {"scan", "query", "batch", "admin"}

Refused(k, a) ==
  \/ /\ k \in Strict
     /\ \E i \in DOMAIN TimeoutOptions[k] :
          /\ Bad(a, TimeoutOptions[k][i])
          /\ \A j \in 1..(i - 1) : TimeoutOptions[k][j] \notin DOMAIN a
  \/ k = "scan" /\ Bad(a, "records_per_second")
  \/ k = "remove" /\ "gen" \in DOMAIN a /\ a["gen"] = "pair"

SetTimeout(k, a, p) ==
  LET given == {i \in DOMAIN TimeoutOptions[k] : Good(a, TimeoutOptions[k][i])}
  IN IF given = {} THEN p
     ELSE [p EXCEPT !["total_timeout"] = <<"call", TimeoutOptions[k][Min(given)]>>]

(* write takes the first element when it is an integer, operate and remove  *)
(* take it unchecked; remove looks only at arrays of exactly two.           *)
TakesGen ==
  [write   |-> {"good", "pair", "one"},
   operate |-> {"good", "pair", "one", "text"},
   remove  |-> {"good", "pair", "text"}]

SetGen(k, a, p) ==
  IF k \in GenKind /\ "gen" \in DOMAIN a /\ a["gen"] \in TakesGen[k]
  THEN [p EXCEPT !["gen"] = <<"call", "gen">>]
  ELSE p

zval_to_as_policy(k, z, default) ==
  LET copied == CopyDefault(k, default)
  IN [default |-> copied.default,
      ok      |-> z.type # "scalar" /\ ~Refused(k, z.array),
      policy  |-> set_policy_from_hash(k, z.array, "call",
                    SetGen(k, z.array, SetTimeout(k, z.array, copied.policy)))]

-----------------------------------------------------------------------------
GenTypes == {"good", "pair", "text", "one", "bad"}
Types(n) == IF n = "gen" THEN GenTypes ELSE {"good", "bad"}
CallArrays(names) == {a \in [names -> GenTypes] : \A n \in names : a[n] \in Types(n)}
AnyArray == UNION {CallArrays(names) : names \in Together}

(* A constructor looks for no OPT_POLICY_GEN. *)
Arrays(names) == [names -> {"good", "bad"}]

(* Constructor options: options given together, all of them in the array    *)
(* itself or some of them, inner, in one OPT_<K>_DEFAULT_POL array.  In     *)
(* that array names that are no field of the kind are not looked for.       *)
WithDefaultPol(names, inner) ==
  {[own |-> own, sub |-> [x \in {k} |-> Array(a)]] :
      k \in {j \in SubKind : inner \subseteq Field[j]}, own \in Arrays(names \ inner), a \in Arrays(inner)}

OptionArrays(together) ==
  UNION { {[own |-> own, sub |-> <<>>] : own \in UNION {Arrays(names) : names \in together}},
          UNION {UNION {WithDefaultPol(names, inner) : inner \in SUBSET names \ {{}}} :
                 names \in together},
          {[own |-> <<>>, sub |-> [x \in {k} |-> Scalar]] : k \in SubKind} }

WithConfig(os, configs) ==
  {[own |-> o.own, sub |-> o.sub, config |-> config] : o \in os, config \in configs}

(* The configuration matters to the options it competes with. *)
ConstructorOptions ==
  WithConfig(OptionArrays(Together), {<<>>})
    \cup WithConfig(OptionArrays({names \in Together : names \subseteq DOMAIN ConfigTargets}),
                    Arrays(DOMAIN ConfigTargets))

NoCall == [kind |-> "none"]
Created == DOMAIN defaults
With(f, x, v) == [y \in DOMAIN f \cup {x} |-> IF y = x THEN v ELSE f[y]]

Init ==
  /\ handle = [c \in Client |-> None]
  /\ defaults = [h \in {} |-> 0]
  /\ creator = [h \in {} |-> 0]
  /\ request = NoCall

(* A constructor that creates a handle: a private one, or the first one of  *)
(* its persistent alias.                                                    *)
ConstructNew(c, h, o) ==
  /\ handle[c] = None /\ h \notin Created
  /\ OptionsAccepted(o)
  /\ handle' = [handle EXCEPT ![c] = h]
  /\ defaults' = With(defaults, h, DefaultsFor(o))
  /\ creator' = With(creator, h, o)
  /\ UNCHANGED request

(* A constructor whose alias is already in the persistent list: its own     *)
(* handle, with the defaults made from its options, is thrown away.         *)
ConstructShared(c, h, o) ==
  /\ handle[c] = None /\ h \in Created
  /\ OptionsAccepted(o)
  /\ handle' = [handle EXCEPT ![c] = h]
  /\ UNCHANGED <<defaults, creator, request>>

(* A request of kind k, with or without a policy argument. *)
Call(c, k, z) ==
  LET h == handle[c]
      r == zval_to_as_policy(k, z, defaults[h][k])
  IN /\ h # None
     /\ defaults' = [defaults EXCEPT ![h][k] = r.default]
     /\ request' = IF r.ok THEN [kind |-> k, on |-> h, given |-> z, policy |-> r.policy] ELSE NoCall
     /\ UNCHANGED <<handle, creator>>

(* operateOrdered converts the policy only when it was given one; without   *)
(* it, the library is called with NULL and uses the handle's own default.   *)
OperateOrderedPlain(c) ==
  LET h == handle[c]
  IN /\ h # None
     /\ request' = [kind |-> "operate", on |-> h, given |-> Null,
                 policy |-> defaults[h]["operate"]]
     /\ UNCHANGED <<handle, defaults, creator>>

(* The library has answered and the method returns. *)
Return ==
  /\ request # NoCall
  /\ request' = NoCall
  /\ UNCHANGED <<handle, defaults, creator>>

(* The script, one thing at a time: it constructs an object or makes a call. *)
Script ==
  \/ \E c \in Client, h \in Handle, o \in ConstructorOptions :
       ConstructNew(c, h, o) \/ ConstructShared(c, h, o)
  \/ \E c \in Client, k \in Kind :
       \E z \in {Null, Scalar} \cup {Array(a) : a \in AnyArray} : Call(c, k, z)
  \/ \E c \in Client : OperateOrderedPlain(c)

Next == (request = NoCall /\ Script) \/ Return

Spec == Init /\ [][Next]_vars

-----------------------------------------------------------------------------
(* The layers and, within a layer, the names of the total timeout, by their *)
(* strength: the reference for what a request is sent with.                 *)
LayerRank ==
  [call |-> 6, default_pol |-> 5, options |-> 4, config |-> 3, ini |-> 2, builtin |-> 1]
NameRank(n) == CASE n = "write_timeout" -> 1 [] n = "read_timeout" -> 2 [] OTHER -> 3

Stronger(x, y) ==
  \/ LayerRank[x[1]] > LayerRank[y[1]]
  \/ x[1] = y[1] /\ NameRank(x[2]) > NameRank(y[2])

(* Name n of a layer sets field f of a request of kind k, which was given   *)
(* array a, on a handle created with options o.                             *)
Sets(layer, n, k, f, a, o) ==
  \/ /\ layer = "call"
     /\ \/ n = f /\ f \in HashFields[k] /\ Good(a, n)
        \/ /\ f = "total_timeout" /\ Good(a, n)
           /\ \E i \in DOMAIN TimeoutOptions[k] : n = TimeoutOptions[k][i]
        \/ n = "gen" /\ f = "gen" /\ n \in DOMAIN a /\ a[n] \in {"good", "pair", "one"}
  \/ /\ layer = "default_pol"
     /\ n = f /\ f \in HashFields[k] /\ k \in DOMAIN o.sub /\ Good(o.sub[k].array, n)
  \/ /\ layer = "options"
     /\ n \in DOMAIN OptionTargets /\ k \in OptionTargets[n] /\ FieldOf(n) = f /\ Good(o.own, n)
  \/ layer = "config" /\ n = f /\ f \in DOMAIN ConfigTargets /\ k \in ConfigTargets[f] /\ Good(o.config, n)
  \/ layer = "ini" /\ n = f /\ f \in DOMAIN IniTargets /\ k \in IniTargets[f]
  \/ layer = "builtin" /\ n = "builtin"

MostSpecific(v, k, f, a, o) ==
  /\ Sets(v[1], v[2], k, f, a, o)
  /\ \A layer \in DOMAIN LayerRank, n \in {f, "read_timeout", "write_timeout", "builtin"} :
       Sets(layer, n, k, f, a, o) => ~Stronger(<<layer, n>>, v)

(* remove() with an OPT_POLICY_GEN that is not [int, ...] of two elements:  *)
(* an array of one is ignored, though write and operate take it, and the    *)
(* first of two is taken for an integer whatever it is.                     *)
OddGeneration(k, f, a) ==
  k = "remove" /\ f = "gen" /\ "gen" \in DOMAIN a /\ a["gen"] \in {"one", "text"}

(* Every field of the policy a request is sent with comes from the most     *)
(* specific layer that sets it: the call's array, then the handle's         *)
(* OPT_<K>_DEFAULT_POL array, its constructor options, its configuration    *)
(* array, php.ini and the library, whatever other objects that share the    *)
(* handle did before.  The exceptions are requests of kind operate (see     *)
(* OperateDefaultsHonoured) and the generation of a remove whose array is   *)
(* not as documented.                                                       *)
MostSpecificWins ==
  \/ request.kind \in {"none", "operate"}
  \/ \A f \in Field[request.kind] :
       \/ OddGeneration(request.kind, f, request.given.array)
       \/ MostSpecific(request.policy[f], request.kind, f, request.given.array,
                       creator[request.on])

(* No call changes the default policies of a handle, which all objects with *)
(* the same persistent alias share (config.policies is filled once, before  *)
(* aerospike_new).  The default of operate is the exception: the exchanged  *)
(* copy of zval_to_as_policy_operate overwrites it.                         *)
DefaultsStand ==
  [][\A h \in Created :
       \A k \in Kind \ {"operate"} : defaults'[h][k] = defaults[h][k]]_vars

(* The inductive invariant behind it: an object points to a handle that was *)
(* created, whose config holds one policy for each kind.                    *)
HandleInv ==
  /\ handle \in [Client -> Handle \cup {None}]
  /\ Created \subseteq Handle
  /\ \A h \in Created : DOMAIN defaults[h] = Kind
  /\ \A c \in Client : handle[c] # None => handle[c] \in Created

(* A request was made on a handle that was created, from the default policy *)
(* of its kind; and those defaults are what the options of the handle's     *)
(* creator make.                                                            *)
RequestInv ==
  /\ HandleInv
  /\ DOMAIN creator = Created
  /\ \A h \in Created :
       LET made == DefaultsFor(creator[h])
       IN \A k \in Kind \ {"operate"} : defaults[h][k] = made[k]
  /\ request.kind \notin {"none", "operate"} =>
       /\ request.kind \in Kind /\ request.on \in Created
       /\ request.policy = zval_to_as_policy(request.kind, request.given,
                              DefaultsFor(creator[request.on])[request.kind]).policy

(* An operate request is sent with what the OPT_OPERATE_DEFAULT_POL array of *)
(* its handle sets, unless the call sets the same field.                    *)
OperateDefaultsHonoured ==
  (request.kind = "operate" /\ "operate" \in DOMAIN creator[request.on].sub)
    => \A f \in HashFields["operate"] :
         Good(creator[request.on].sub["operate"].array, f) => request.policy[f] # BuiltIn

=============================================================================
