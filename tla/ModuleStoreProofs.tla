-------------------------- MODULE ModuleStoreProofs --------------------------
(***************************************************************************)
(* Theorems about ModuleStore for every set of realms, names, values,      *)
(* parameters and keys.                                                    *)
(***************************************************************************)
EXTENDS ModuleStore, FiniteSetTheorems, WellFoundedInduction, TLAPS

-----------------------------------------------------------------------------
(* Stored data.                                                            *)

Types == {"string", "bool", "int64", "uint64", "strings", "bytes"}

LEMMA DataFacts ==
    ASSUME NEW kind, NEW v
    PROVE  /\ KindOf(Data(kind, v)) = kind
           /\ ValueOf(Data(kind, v)) = v
           /\ DOMAIN Data(kind, v) = {kind}
<1>1. DOMAIN Data(kind, v) = {kind}
  BY DEF Data
<1>2. KindOf(Data(kind, v)) = kind
  BY <1>1 DEF KindOf
<1> QED
  BY <1>1, <1>2 DEF ValueOf, Data

LEMMA DataDiffers ==
    ASSUME NEW kind, NEW v, NEW other, NEW w, Data(kind, v) = Data(other, w)
    PROVE  kind = other /\ v = w
<1>1. KindOf(Data(kind, v)) = kind /\ ValueOf(Data(kind, v)) = v
  BY DataFacts
<1>2. KindOf(Data(other, w)) = other /\ ValueOf(Data(other, w)) = w
  BY DataFacts
<1> QED
  BY <1>1, <1>2

(* What a parameter of a type is stored as.                                *)
Coded(type, v) == IF type = "bytes" THEN Data("bytes", v) ELSE Marshal(type, v)

(* The values a type has.                                                  *)
Fits(type, v) ==
    /\ type = "int64" => v \in Int64s
    /\ type = "uint64" => v \in Uint64s

LEMMA CodedFacts ==
    ASSUME NEW type \in Types, NEW v, Fits(type, v)
    PROVE  /\ type # "bytes" => Unmarshals(type, Coded(type, v)) /\ Coded(type, v) # Nothing
           /\ ValueOf(Coded(type, v)) = v
           /\ KindOf(Coded(type, v)) = "list" => type = "strings"
           /\ KindOf(Coded(type, v)) # "object"
<1>1. type # "bytes" => Kind[type] \in {"text", "bool", "number", "list"}
                        /\ (Kind[type] = "list" => type = "strings")
  BY DEF Types, Kind
<1>2. CASE type = "bytes"
  BY <1>2, DataFacts DEF Coded
<1>3. CASE type # "bytes"
  <2>1. Coded(type, v) = Data(Kind[type], v)
    BY <1>3 DEF Coded, Marshal
  <2>2. Coded(type, v) # Nothing
    BY <1>1, <1>3, <2>1, DataDiffers DEF Nothing
  <2>3. KindOf(Coded(type, v)) = Kind[type] /\ ValueOf(Coded(type, v)) = v
    BY <2>1, DataFacts
  <2>4. Unmarshals(type, Coded(type, v))
    BY <2>3 DEF Unmarshals, Fits
  <2> QED
    BY <1>1, <1>3, <2>2, <2>3, <2>4
<1> QED
  BY <1>2, <1>3

-----------------------------------------------------------------------------
(* Parameters.                                                             *)

(* Besides the struct, the store holds the parameters that realms have     *)
(* set, each as it was set last; only gno.land/r/sys/params has set a      *)
(* field of the module's own.                                              *)
AsSet(key) ==
    \E realm \in Realms, type \in Types : \E v :
      /\ wrote[key] = [by |-> realm, type |-> type, value |-> Data(type, v)]
      /\ Fits(type, v)
      /\ raw[key] = Coded(type, v)
      /\ \A f \in Fields : key = FieldKey(f) => realm = SysRealm

ParamsInv ==
    /\ DOMAIN raw = DOMAIN wrote \union {VmKey}
    /\ raw[VmKey] = Data("object", ToVmParams(module))
    /\ VmKey \notin DOMAIN wrote
    /\ module \in ParamSets
    /\ \A key \in DOMAIN wrote : AsSet(key)

LEMMA ParamsInit == Init => ParamsInv
  BY DEF Init, ParamsInv

(* The keys of parameters are no struct's key, and a realm's own are no    *)
(* fields.                                                                 *)
LEMMA ParamKeys ==
    /\ \A realm, name : PKey(realm, name) # VmKey
    /\ \A f : FieldKey(f) # VmKey /\ FieldOf(FieldKey(f)) = f
    /\ \A realm \in Realms : \A name, f : PKey(realm, name) # FieldKey(f)
    /\ \A f, g : FieldKey(f) = FieldKey(g) => f = g
  BY StoreAssumption DEF PKey, VmKey, FieldKey, FieldOf

(* Nor does sys/params reach the struct: a key of its has three parts or   *)
(* more.                                                                   *)
LEMMA SysKeys ==
    ASSUME NEW mod \in Modules, NEW sub \in Submodules, NEW name
    PROVE  PrmKey(mod, sub, name) # VmKey
<1>1. mod \in Seq(STRING) /\ sub \in Seq(STRING) /\ Len(mod) > 0 /\ Len(sub) > 0
  BY StoreAssumption
<1>2. Len(mod) \in Nat /\ Len(sub) \in Nat /\ Len(mod \o sub) = Len(mod) + Len(sub)
  BY <1>1
<1> DEFINE U == STRING \union {name}
<1>3. mod \o sub \in Seq(U) /\ <<name>> \in Seq(U)
  BY <1>1
<1>4. Len((mod \o sub) \o <<name>>) = Len(mod \o sub) + 1
  BY <1>3
<1>5. Len(VmKey) = 2
  BY DEF VmKey
<1> QED
  BY <1>1, <1>2, <1>4, <1>5 DEF PrmKey

(* Setting a parameter, and noting who set it.                             *)
LEMMA SetKeepsParams ==
    ASSUME ParamsInv, NEW realm \in Realms, NEW key, NEW type \in Types, NEW v,
           key # VmKey, \A f \in Fields : key = FieldKey(f) => realm = SysRealm,
           Fits(type, v), raw' = SetRaw(key, Coded(type, v)), Note(realm, key, type, v),
           module' = module
    PROVE  ParamsInv'
<1>1. /\ DOMAIN raw' = DOMAIN raw \union {key} /\ raw'[key] = Coded(type, v)
      /\ \A k \in DOMAIN raw : k # key => raw'[k] = raw[k]
  BY DEF SetRaw
<1>2. /\ DOMAIN wrote' = DOMAIN wrote \union {key}
      /\ wrote'[key] = [by |-> realm, type |-> type, value |-> Data(type, v)]
      /\ \A k \in DOMAIN wrote : k # key => wrote'[k] = wrote[k]
  BY DEF Note
<1>3. ASSUME NEW k \in DOMAIN wrote' PROVE AsSet(k)'
  <2>1. CASE k = key
    BY <1>1, <1>2, <2>1 DEF AsSet
  <2>2. CASE k # key
    <3>1. AsSet(k) /\ k \in DOMAIN raw
      BY <1>2, <1>3, <2>2 DEF ParamsInv
    <3>2. wrote'[k] = wrote[k] /\ raw'[k] = raw[k]
      BY <1>1, <1>2, <1>3, <2>2, <3>1
    <3> QED
      BY <3>1, <3>2 DEF AsSet
  <2> QED
    BY <2>1, <2>2
<1>4. raw'[VmKey] = Data("object", ToVmParams(module'))
  BY <1>1 DEF ParamsInv
<1> QED
  BY <1>1, <1>2, <1>3, <1>4 DEF ParamsInv

(* UpdateStrings starts from the list that was set.                        *)
LEMMA ListsAreRead ==
    ASSUME ParamsInv, NEW key, key # VmKey
    PROVE  GetStrings(key) = ListAt(key)
<1>1. CASE key \in DOMAIN wrote
  <2>0. PICK realm \in Realms, type \in Types : \E v :
            /\ wrote[key] = [by |-> realm, type |-> type, value |-> Data(type, v)]
            /\ Fits(type, v) /\ raw[key] = Coded(type, v)
    BY <1>1 DEF ParamsInv, AsSet
  <2>1. PICK v : /\ wrote[key].type = type /\ wrote[key].value = Data(type, v)
                 /\ Fits(type, v) /\ raw[key] = Coded(type, v)
    BY <2>0
  <2>2. GetRaw(key) = Coded(type, v)
    BY <1>1, <2>1 DEF GetRaw, ParamsInv
  <2>3. CASE type = "strings"
    <3>1. GetStrings(key) = v
      BY <2>1, <2>2, <2>3, CodedFacts DEF GetStrings, GetTyped, Stored
    <3>2. ListAt(key) = v
      BY <1>1, <2>1, <2>3, DataFacts DEF ListAt
    <3> QED
      BY <3>1, <3>2
  <2>4. CASE type # "strings"
    <3>1. GetStrings(key) = <<>>
      BY <2>1, <2>2, <2>4, CodedFacts DEF GetStrings, GetTyped, Unmarshals, Kind
    <3>2. ListAt(key) = <<>>
      BY <1>1, <2>1, <2>4 DEF ListAt
    <3> QED
      BY <3>1, <3>2
  <2> QED
    BY <2>3, <2>4
<1>2. CASE key \notin DOMAIN wrote
  BY <1>2 DEF ParamsInv, GetStrings, GetTyped, Stored, GetRaw, ListAt
<1> QED
  BY <1>1, <1>2

LEMMA ParamsNext ==
    ASSUME ParamsInv, [Next]_vars
    PROVE  ParamsInv'
<1>1. ASSUME NEW realm \in Realms, NEW key,
             key # VmKey, \A f \in Fields : key = FieldKey(f) => realm = SysRealm,
             module' = module,
             \/ \E v \in Texts : raw' = SetString(key, v) /\ Note(realm, key, "string", v)
             \/ \E v \in BOOLEAN : raw' = SetBool(key, v) /\ Note(realm, key, "bool", v)
             \/ \E v \in Int64s : raw' = SetInt64(key, v) /\ Note(realm, key, "int64", v)
             \/ \E v \in Uint64s : raw' = SetUint64(key, v) /\ Note(realm, key, "uint64", v)
             \/ \E v \in Bytes : raw' = SetBytes(key, v) /\ Note(realm, key, "bytes", v)
             \/ \E v \in Lists : raw' = SetStrings(key, v) /\ Note(realm, key, "strings", v)
             \/ \E v \in Lists, add \in BOOLEAN :
                  /\ raw' = UpdateStrings(key, v, add)
                  /\ Note(realm, key, "strings", Updated(ListAt(key), v, add))
      PROVE  ParamsInv'
  <2>1. ASSUME NEW type \in Types, NEW v, Fits(type, v),
               raw' = SetRaw(key, Coded(type, v)), Note(realm, key, type, v)
        PROVE  ParamsInv'
    BY <1>1, <2>1, SetKeepsParams
  <2>2. CASE \E v \in Texts : raw' = SetString(key, v) /\ Note(realm, key, "string", v)
    BY <2>1, <2>2 DEF Types, Fits, Coded, SetString
  <2>3. CASE \E v \in BOOLEAN : raw' = SetBool(key, v) /\ Note(realm, key, "bool", v)
    BY <2>1, <2>3 DEF Types, Fits, Coded, SetBool
  <2>4. CASE \E v \in Int64s : raw' = SetInt64(key, v) /\ Note(realm, key, "int64", v)
    BY <2>1, <2>4 DEF Types, Fits, Coded, SetInt64
  <2>5. CASE \E v \in Uint64s : raw' = SetUint64(key, v) /\ Note(realm, key, "uint64", v)
    BY <2>1, <2>5 DEF Types, Fits, Coded, SetUint64
  <2>6. CASE \E v \in Bytes : raw' = SetBytes(key, v) /\ Note(realm, key, "bytes", v)
    BY <2>1, <2>6 DEF Types, Fits, Coded, SetBytes
  <2>7. ASSUME NEW v, raw' = SetStrings(key, v), Note(realm, key, "strings", v)
        PROVE  ParamsInv'
    BY <2>1, <2>7 DEF Types, Fits, Coded, SetStrings
  <2>8. CASE \E v \in Lists, add \in BOOLEAN :
               /\ raw' = UpdateStrings(key, v, add)
               /\ Note(realm, key, "strings", Updated(ListAt(key), v, add))
    <3>1. PICK v \in Lists, add \in BOOLEAN :
            /\ raw' = UpdateStrings(key, v, add)
            /\ Note(realm, key, "strings", Updated(ListAt(key), v, add))
      BY <2>8
    <3>2. raw' = SetStrings(key, Updated(ListAt(key), v, add))
      BY <1>1, <3>1, ListsAreRead DEF UpdateStrings
    <3> QED
      BY <2>7, <3>1, <3>2
  <2> QED
    BY <1>1, <2>2, <2>3, <2>4, <2>5, <2>6, <2>7, <2>8
<1>2. CASE ChainParams
  <2>1. PICK realm \in Realms, name \in Names :
          LET key == PKey(realm, name) IN
             \/ \E v \in Texts : raw' = ChainSetString(realm, name, v) /\ Note(realm, key, "string", v)
             \/ \E v \in BOOLEAN : raw' = ChainSetBool(realm, name, v) /\ Note(realm, key, "bool", v)
             \/ \E v \in Int64s : raw' = ChainSetInt64(realm, name, v) /\ Note(realm, key, "int64", v)
             \/ \E v \in Uint64s : raw' = ChainSetUint64(realm, name, v) /\ Note(realm, key, "uint64", v)
             \/ \E v \in Bytes : raw' = ChainSetBytes(realm, name, v) /\ Note(realm, key, "bytes", v)
             \/ \E v \in Lists : raw' = ChainSetStrings(realm, name, v) /\ Note(realm, key, "strings", v)
             \/ \E v \in Lists, add \in BOOLEAN :
                  /\ raw' = ChainUpdateStrings(realm, name, v, add)
                  /\ Note(realm, key, "strings", Updated(ListAt(key), v, add))
    BY <1>2 DEF ChainParams
  <2>2. /\ module' = module /\ PKey(realm, name) # VmKey
        /\ \A f \in Fields : PKey(realm, name) # FieldKey(f)
    BY <1>2, ParamKeys DEF ChainParams
  <2> QED
    BY <1>1, <2>1, <2>2
    DEF ChainSetString, ChainSetBool, ChainSetInt64, ChainSetUint64, ChainSetBytes,
        ChainSetStrings, ChainUpdateStrings
<1>3. CASE SysParams
  <2>1. PICK realm \in Realms, mod \in Modules, sub \in Submodules, name \in Names :
          /\ SysCaller(realm)
          /\ LET key == PrmKey(mod, sub, name) IN
             \/ \E v \in Texts : raw' = SysSetString(mod, sub, name, v) /\ Note(realm, key, "string", v)
             \/ \E v \in BOOLEAN : raw' = SysSetBool(mod, sub, name, v) /\ Note(realm, key, "bool", v)
             \/ \E v \in Int64s : raw' = SysSetInt64(mod, sub, name, v) /\ Note(realm, key, "int64", v)
             \/ \E v \in Uint64s : raw' = SysSetUint64(mod, sub, name, v) /\ Note(realm, key, "uint64", v)
             \/ \E v \in Bytes : raw' = SysSetBytes(mod, sub, name, v) /\ Note(realm, key, "bytes", v)
             \/ \E v \in Lists : raw' = SysSetStrings(mod, sub, name, v) /\ Note(realm, key, "strings", v)
             \/ \E v \in Lists, add \in BOOLEAN :
                  /\ raw' = SysUpdateStrings(mod, sub, name, v, add)
                  /\ Note(realm, key, "strings", Updated(ListAt(key), v, add))
    BY <1>3 DEF SysParams
  <2>2. module' = module /\ realm = SysRealm /\ PrmKey(mod, sub, name) # VmKey
    BY <1>3, <2>1, SysKeys DEF SysParams, SysCaller
  <2> QED
    BY <1>1, <2>1, <2>2
    DEF SysSetString, SysSetBool, SysSetInt64, SysSetUint64, SysSetBytes, SysSetStrings,
        SysUpdateStrings
<1>4. CASE UpdateParams
  <2>1. PICK p \in ParamSets : raw' = SetStruct(VmKey, ToVmParams(p)) /\ module' = p
    BY <1>4 DEF UpdateParams
  <2>2. wrote' = wrote
    BY <1>4 DEF UpdateParams
  <2>3. /\ DOMAIN raw' = DOMAIN raw \union {VmKey} /\ raw'[VmKey] = Data("object", ToVmParams(p))
        /\ \A k \in DOMAIN raw : k # VmKey => raw'[k] = raw[k]
    BY <2>1 DEF SetStruct, SetRaw, Marshal, Kind
  <2>4. ASSUME NEW k \in DOMAIN wrote PROVE AsSet(k)'
    <3>1. AsSet(k) /\ raw'[k] = raw[k]
      BY <2>3, <2>4 DEF ParamsInv
    <3> QED
      BY <2>2, <3>1 DEF AsSet
  <2> QED
    BY <2>1, <2>2, <2>3, <2>4 DEF ParamsInv
<1>5. CASE UNCHANGED paramVars
  BY <1>5 DEF paramVars, ParamsInv, AsSet
<1>6. BeginRequest \/ SetEntry \/ DeleteEntry \/ EndRequest \/ Restart => UNCHANGED paramVars
  BY DEF BeginRequest, SetEntry, DeleteEntry, EndRequest, Restart
<1> QED
  BY <1>2, <1>3, <1>4, <1>5, <1>6 DEF Next, vars

LEMMA ParamsAreRead == ParamsInv => LastWriteIsRead
<1> SUFFICES ASSUME ParamsInv, NEW key \in DOMAIN wrote
             PROVE  /\ Has(key)
                    /\ Data(wrote[key].type, ReadAs(wrote[key].type, key)) =
                          IF wrote[key].value = Nothing /\ IsField(key, {"storage_fee_collector"})
                          THEN Data("bytes", module.storage_fee_collector) ELSE wrote[key].value
  BY DEF LastWriteIsRead
<1>0. PICK realm \in Realms, type \in Types : \E v :
        /\ wrote[key] = [by |-> realm, type |-> type, value |-> Data(type, v)]
        /\ Fits(type, v) /\ raw[key] = Coded(type, v)
  BY DEF ParamsInv, AsSet
<1>1. PICK v : /\ wrote[key].type = type /\ wrote[key].value = Data(type, v)
               /\ Fits(type, v) /\ raw[key] = Coded(type, v)
  BY <1>0
<1>2. Has(key) /\ GetRaw(key) = Coded(type, v)
  BY <1>1 DEF Has, GetRaw, ParamsInv
<1>3. CASE type = "bytes"
  <2>1. GetRaw(key) = Data("bytes", v) /\ ReadAs(type, key) = GetBytes(key)
    BY <1>2, <1>3 DEF Coded, ReadAs
  <2>2. CASE v # <<>>
    <3>1. Data("bytes", v) # Nothing
      BY <2>2, DataDiffers DEF Nothing
    <3>2. GetBytes(key) = v
      BY <2>1, <3>1, DataFacts DEF GetBytes, Stored
    <3> QED
      BY <1>1, <1>2, <1>3, <2>1, <3>1, <3>2
  <2>3. CASE v = <<>>
    <3>1. Data("bytes", v) = Nothing /\ ~Stored(key)
      BY <2>1, <2>3 DEF Nothing, Stored
    <3>2. CASE IsField(key, {"storage_fee_collector"})
      <4>1. FieldOf(key) = "storage_fee_collector"
        BY <3>2, ParamKeys DEF IsField
      <4>2. GetBytes(key) = module.storage_fee_collector
        BY <3>1, <3>2, <4>1 DEF GetBytes, Fallback
      <4> QED
        BY <1>1, <1>2, <1>3, <2>1, <3>1, <3>2, <4>2
    <3>3. CASE ~IsField(key, {"storage_fee_collector"})
      <4>1. GetBytes(key) = v
        BY <2>3, <3>1, <3>3 DEF GetBytes
      <4> QED
        BY <1>1, <1>2, <1>3, <2>1, <3>3, <4>1
    <3> QED
      BY <3>2, <3>3
  <2> QED
    BY <2>2, <2>3
<1>4. CASE type # "bytes"
  <2>1. /\ Stored(key) /\ Unmarshals(type, GetRaw(key)) /\ ValueOf(GetRaw(key)) = v
    BY <1>1, <1>2, <1>4, CodedFacts DEF Stored
  <2>2. ReadAs(type, key) = v
    <3>1. type \in {"string", "bool", "int64", "uint64", "strings"}
      BY <1>4 DEF Types
    <3>2. \A fallback, zero : GetTyped(type, key, fallback, zero) = v
      BY <2>1 DEF GetTyped
    <3> QED
      BY <3>1, <3>2 DEF ReadAs, GetString, GetBool, GetInt64, GetUint64, GetStrings
  <2>3. Data(type, v) # Nothing
    BY <1>4, DataDiffers DEF Nothing
  <2> QED
    BY <1>1, <1>2, <2>2, <2>3
<1> QED
  BY <1>3, <1>4

(* A parameter that a realm has set is read back as it was set last,       *)
(* whatever its type, the other keys and the module's own parameters.      *)
THEOREM LastWritesAreRead == Spec => []LastWriteIsRead
  BY ParamsInit, ParamsNext, ParamsAreRead, PTL DEF Spec

LEMMA FieldsFollow == ParamsInv => FieldsFollowUpdates
<1> SUFFICES ASSUME ParamsInv, NEW f \in Fields
             PROVE  LET key == FieldKey(f)
                        struct == GetStruct(VmKey, <<>>)
                    IN \/ key \in DOMAIN wrote /\ wrote[key].by = SysRealm
                       \/ f \in StringFields /\ GetString(key) = struct[f]
                       \/ /\ f = "storage_fee_collector"
                          /\ struct = ToVmParams([struct EXCEPT ![f] = GetBytes(key)])
  BY DEF FieldsFollowUpdates
<1> DEFINE key == FieldKey(f)
           struct == GetStruct(VmKey, <<>>)
<1>1. CASE key \in DOMAIN wrote
  BY <1>1 DEF ParamsInv, AsSet
<1>2. CASE key \notin DOMAIN wrote
  <2>1. ~Stored(key)
    BY <1>2, ParamKeys DEF ParamsInv, Stored, GetRaw
  <2>2. struct = ToVmParams(module)
    <3>1. GetRaw(VmKey) = Data("object", ToVmParams(module))
      BY DEF ParamsInv, GetRaw
    <3>2. KindOf(GetRaw(VmKey)) = "object" /\ ValueOf(GetRaw(VmKey)) = ToVmParams(module)
      BY <3>1, DataFacts
    <3>3. Stored(VmKey)
      BY <3>1, DataDiffers DEF Stored, Nothing
    <3>4. Unmarshals("struct", GetRaw(VmKey))
      BY <3>2 DEF Unmarshals, Kind
    <3> QED
      BY <3>2, <3>3, <3>4 DEF GetStruct, GetTyped
  <2>3. module = [g \in Fields |-> module[g]]
    BY ParamsAssumption DEF ParamsInv
  <2>4. CASE f \in StringFields
    <3>1. GetString(key) = module[f]
      BY <2>1, <2>4, ParamKeys DEF GetString, GetTyped, IsField, Fallback
    <3>2. ToVmParams(module)[f] = module[f]
      BY <2>3, <2>4 DEF ToVmParams, StringFields
    <3> QED
      BY <2>2, <2>4, <3>1, <3>2
  <2>5. CASE f = "storage_fee_collector"
    <3>1. GetBytes(key) = module[f]
      BY <2>1, <2>5, ParamKeys DEF GetBytes, IsField, Fallback
    <3>2. [ToVmParams(module) EXCEPT ![f] = module[f]] = module
      BY <2>3, <2>5 DEF ToVmParams
    <3> QED
      BY <2>2, <2>5, <3>1, <3>2
  <2> QED
    BY <2>4, <2>5 DEF Fields
<1> QED
  BY <1>1, <1>2

(* A field of the module's parameters and the struct agree with what       *)
(* UpdateParams stored last, until gno.land/r/sys/params sets the field.   *)
THEOREM FieldsAlwaysFollow == Spec => []FieldsFollowUpdates
  BY ParamsInit, ParamsNext, FieldsFollow, PTL DEF Spec

-----------------------------------------------------------------------------
(* Listing a finite set of numbers in order.                               *)

Ascends(s, n) == \A i, j \in 1 .. n : i < j => s[i] < s[j]
Descends(s, n) == \A i, j \in 1 .. n : i < j => s[i] > s[j]

LEMMA LeastElement ==
    ASSUME NEW T \in SUBSET Nat, T # {}
    PROVE  \E m \in T : \A y \in T : m <= y
<1>1. \E m \in T : \A y \in T : ~ (<<y, m>> \in OpToRel(<, Nat))
  BY WFMin, NatLessThanWellFounded
<1>2. PICK m \in T : \A y \in T : ~ (<<y, m>> \in OpToRel(<, Nat))
  BY <1>1
<1>3. ASSUME NEW y \in T PROVE m <= y
  <2>1. m \in Nat /\ y \in Nat /\ <<y, m>> \in Nat \X Nat
    OBVIOUS
  <2>2. ~ (y < m)
    BY <1>2, <2>1 DEF OpToRel
  <2> QED
    BY <2>1, <2>2
<1> QED
  BY <1>3

(* A finite set of numbers can be listed in order: a smallest set that     *)
(* cannot loses its least element, and the rest can.                       *)
LEMMA AscendingListing ==
    ASSUME NEW T \in SUBSET Nat, IsFiniteSet(T)
    PROVE  \E s \in [1 .. Cardinality(T) -> T] : Ascends(s, Cardinality(T))
<1> DEFINE Listed(U) == \E s \in [1 .. Cardinality(U) -> U] : Ascends(s, Cardinality(U))
           Sizes == {n \in Nat : \E U \in SUBSET Nat :
                        IsFiniteSet(U) /\ Cardinality(U) = n /\ ~Listed(U)}
<1>1. SUFFICES ASSUME Sizes # {} PROVE FALSE
  <2>1. Cardinality(T) \in Nat
    BY FS_CardinalityType
  <2> QED
    BY <1>1, <2>1
<1>2. PICK n \in Sizes : \A k \in Sizes : n <= k
  BY <1>1, LeastElement
<1>3. PICK U \in SUBSET Nat : IsFiniteSet(U) /\ Cardinality(U) = n /\ ~Listed(U)
  BY <1>2
<1>4. U # {}
  <2> SUFFICES ASSUME U = {} PROVE FALSE
    OBVIOUS
  <2>1. Cardinality(U) = 0
    BY FS_EmptySet
  <2> DEFINE s == [i \in 1 .. 0 |-> i]
  <2>2. s \in [1 .. 0 -> U] /\ Ascends(s, 0)
    BY DEF Ascends
  <2> QED
    BY <1>3, <2>1, <2>2
<1>5. PICK m \in U : \A y \in U : m <= y
  BY <1>4, LeastElement
<1>6. IsFiniteSet(U \ {m}) /\ Cardinality(U \ {m}) = n - 1 /\ n \in Nat /\ n - 1 \in Nat
  <2>1. IsFiniteSet(U \ {m}) /\ Cardinality(U \ {m}) = n - 1
    BY <1>3, <1>5, FS_RemoveElement
  <2> QED
    BY <2>1, FS_CardinalityType
<1>7. Listed(U \ {m})
  <2>1. n - 1 \notin Sizes
    BY <1>2, <1>6
  <2> QED
    BY <1>6, <2>1
<1>8. PICK g \in [1 .. n - 1 -> U \ {m}] : Ascends(g, n - 1)
  BY <1>6, <1>7
<1> DEFINE s == [i \in 1 .. n |-> IF i = 1 THEN m ELSE g[i - 1]]
<1>9. s \in [1 .. n -> U]
  BY <1>5, <1>6, <1>8
<1>10. Ascends(s, n)
  <2> SUFFICES ASSUME NEW i \in 1 .. n, NEW j \in 1 .. n, i < j
               PROVE  s[i] < s[j]
    BY DEF Ascends
  <2>1. j # 1 /\ j - 1 \in 1 .. n - 1 /\ s[j] = g[j - 1] /\ g[j - 1] \in U \ {m}
    BY <1>6, <1>8
  <2>2. CASE i = 1
    <3>1. s[i] = m /\ m \in Nat /\ s[j] \in Nat /\ m <= s[j] /\ s[j] # m
      BY <1>5, <1>6, <2>1, <2>2
    <3> QED
      BY <3>1
  <2>3. CASE i # 1
    <3>1. i - 1 \in 1 .. n - 1 /\ i - 1 < j - 1 /\ s[i] = g[i - 1]
      BY <1>6, <2>3
    <3> QED
      BY <1>8, <2>1, <3>1 DEF Ascends
  <2> QED
    BY <2>2, <2>3
<1> QED
  BY <1>3, <1>9, <1>10

(* A listing in order lists every element.                                 *)
LEMMA ListingIsOnto ==
    ASSUME NEW T \in SUBSET Nat, IsFiniteSet(T), NEW s \in [1 .. Cardinality(T) -> T],
           Ascends(s, Cardinality(T)) \/ Descends(s, Cardinality(T))
    PROVE  \A x \in T : \E i \in 1 .. Cardinality(T) : s[i] = x
<1> DEFINE n == Cardinality(T)
<1>1. n \in Nat
  BY FS_CardinalityType
<1> HIDE DEF n
<1>2. ASSUME NEW i \in 1 .. n, NEW j \in 1 .. n, s[i] = s[j] PROVE i = j
  <2>1. s[i] \in Nat /\ s[j] \in Nat
    BY DEF n
  <2>2. ~ (i < j) /\ ~ (j < i)
    BY <1>2, <2>1 DEF Ascends, Descends, n
  <2> QED
    BY <1>1, <2>2
<1>3. s \in Injection(1 .. n, T)
  BY <1>2 DEF Injection, IsInjective, n
<1>4. Cardinality(1 .. n) = Cardinality(T)
  BY <1>1, FS_Interval DEF n
<1>5. s \in Surjection(1 .. n, T)
  BY <1>3, <1>4, FS_Injection
<1> QED
  BY <1>5 DEF Surjection, n

(* There is one listing in descending order: at the first place where two  *)
(* differ, the larger element has no place in the other.                   *)
LEMMA DescendingListingUnique ==
    ASSUME NEW T \in SUBSET Nat, IsFiniteSet(T),
           NEW d \in [1 .. Cardinality(T) -> T], Descends(d, Cardinality(T)),
           NEW e \in [1 .. Cardinality(T) -> T], Descends(e, Cardinality(T))
    PROVE  d = e
<1> DEFINE n == Cardinality(T)
           Differ == {i \in 1 .. n : d[i] # e[i]}
<1>1. n \in Nat
  BY FS_CardinalityType
<1>2. SUFFICES ASSUME Differ # {} PROVE FALSE
  <2>1. CASE Differ = {}
    <3>1. \A i \in 1 .. n : d[i] = e[i]
      BY <2>1
    <3>2. d = [i \in 1 .. n |-> d[i]] /\ e = [i \in 1 .. n |-> e[i]]
      OBVIOUS
    <3>3. [i \in 1 .. n |-> d[i]] = [i \in 1 .. n |-> e[i]]
      BY <3>1
    <3> QED
      BY <3>2, <3>3
  <2> QED
    BY <1>2, <2>1
<1>3. PICK i \in Differ : \A k \in Differ : i <= k
  <2>1. Differ \in SUBSET Nat
    BY <1>1
  <2> QED
    BY <1>2, <2>1, LeastElement
<1>4. \A k \in 1 .. n : k < i => d[k] = e[k]
  BY <1>1, <1>3
<1>5. ASSUME NEW a \in [1 .. n -> T], NEW b \in [1 .. n -> T],
             Descends(a, n), Descends(b, n), a[i] > b[i],
             \A k \in 1 .. n : k < i => a[k] = b[k]
      PROVE  FALSE
  <2>1. PICK j \in 1 .. n : b[j] = a[i]
    BY <1>3, <1>5, ListingIsOnto, ZenonT(60)
  <2>2. CASE j < i
    <3>1. a[j] = a[i] /\ a[j] > a[i] /\ a[i] \in Nat
      BY <1>1, <1>3, <1>5, <2>1, <2>2 DEF Descends
    <3> QED
      BY <3>1
  <2>3. CASE j = i
    <3>1. a[i] > a[i] /\ a[i] \in Nat
      BY <1>3, <1>5, <2>1, <2>3
    <3> QED
      BY <3>1
  <2>4. CASE j > i
    <3>1. b[i] > b[j] /\ a[i] \in Nat /\ b[i] \in Nat
      BY <1>1, <1>3, <1>5, <2>1, <2>4 DEF Descends
    <3> QED
      BY <1>5, <2>1, <3>1
  <2> QED
    BY <1>1, <1>3, <2>2, <2>3, <2>4
<1>6. d[i] > e[i] \/ e[i] > d[i]
  <2>1. d[i] \in T /\ e[i] \in T /\ d[i] # e[i]
    BY <1>3
  <2>2. d[i] \in Nat /\ e[i] \in Nat
    BY <2>1
  <2> QED
    BY <2>1, <2>2
<1> QED
  BY <1>4, <1>5, <1>6

(* The reverse of an ascending listing is the descending one.              *)
LEMMA ReverseListing ==
    ASSUME NEW T \in SUBSET Nat, IsFiniteSet(T),
           NEW s \in [1 .. Cardinality(T) -> T], Ascends(s, Cardinality(T))
    PROVE  Reverse(s) \in [1 .. Cardinality(T) -> T] /\ Descends(Reverse(s), Cardinality(T))
<1> DEFINE n == Cardinality(T)
<1>1. n \in Nat
  BY FS_CardinalityType
<1> HIDE DEF n
<1>2. s \in [1 .. n -> T] /\ Ascends(s, n)
  BY DEF n
<1>3. Len(s) = n
  BY <1>1, <1>2
<1>4. Reverse(s) = [i \in 1 .. n |-> s[(n - i) + 1]]
  BY <1>3 DEF Reverse
<1>5. \A i \in 1 .. n : (n - i) + 1 \in 1 .. n
  BY <1>1
<1>6. Reverse(s) \in [1 .. n -> T]
  BY <1>2, <1>4, <1>5
<1>7. ASSUME NEW i \in 1 .. n, NEW j \in 1 .. n, i < j
      PROVE  Reverse(s)[i] > Reverse(s)[j]
  <2>1. (n - j) + 1 \in 1 .. n /\ (n - i) + 1 \in 1 .. n /\ (n - j) + 1 < (n - i) + 1
    BY <1>1, <1>7
  <2>2. s[(n - j) + 1] < s[(n - i) + 1]
    BY <1>2, <2>1 DEF Ascends
  <2>3. s[(n - j) + 1] \in Nat /\ s[(n - i) + 1] \in Nat
    BY <1>2, <2>1
  <2> QED
    BY <1>4, <2>2, <2>3
<1> QED
  BY <1>6, <1>7 DEF Descends, n

(* What the iterators of the store list.                                   *)
LEMMA IteratorsList ==
    ASSUME NEW entries \in SUBSET Nat, IsFiniteSet(entries), NEW start \in Nat, NEW end \in Nat
    PROVE  /\ ToSet(Iterator(entries, start, end)) = Within(entries, start, end)
           /\ Reverse(Iterator(entries, start, end)) = ReverseIterator(entries, start, end)
<1> DEFINE T == Within(entries, start, end)
           s == Iterator(entries, start, end)
           d == ReverseIterator(entries, start, end)
<1>1. T \in SUBSET Nat /\ IsFiniteSet(T)
  BY FS_Subset DEF Within
<1>2. s \in [1 .. Cardinality(T) -> T] /\ Ascends(s, Cardinality(T))
  <2>1. \E a \in [1 .. Cardinality(T) -> T] :
          \A i, j \in 1 .. Cardinality(T) : i < j => a[i] < a[j]
    BY <1>1, AscendingListing DEF Ascends
  <2>2. s = CHOOSE a \in [1 .. Cardinality(T) -> T] :
              \A i, j \in 1 .. Cardinality(T) : i < j => a[i] < a[j]
    BY DEF Iterator
  <2> HIDE DEF T, s
  <2> QED
    BY <2>1, <2>2 DEF Ascends
<1>3. Reverse(s) \in [1 .. Cardinality(T) -> T] /\ Descends(Reverse(s), Cardinality(T))
  BY <1>1, <1>2, ReverseListing
<1>4. d \in [1 .. Cardinality(T) -> T] /\ Descends(d, Cardinality(T))
  <2>1. \E a \in [1 .. Cardinality(T) -> T] :
          \A i, j \in 1 .. Cardinality(T) : i < j => a[i] > a[j]
    BY <1>3 DEF Descends
  <2>2. d = CHOOSE a \in [1 .. Cardinality(T) -> T] :
              \A i, j \in 1 .. Cardinality(T) : i < j => a[i] > a[j]
    BY DEF ReverseIterator
  <2> HIDE DEF T, s, d
  <2> QED
    BY <2>1, <2>2 DEF Descends
<1>5. Reverse(s) = d
  BY <1>1, <1>3, <1>4, DescendingListingUnique
<1>6. \A x \in T : \E i \in 1 .. Cardinality(T) : s[i] = x
  BY <1>1, <1>2, ListingIsOnto
<1>7. ToSet(s) = T
  <2> HIDE DEF T, s
  <2> QED
    BY <1>2, <1>6 DEF ToSet
<1> QED
  BY <1>5, <1>7

-----------------------------------------------------------------------------
(* Entries.                                                                *)

(* What the VM saves under either key is in the store that its request     *)
(* opened.                                                                 *)
Places == {"kv", "memory"}

EntriesInv ==
    /\ opened \in {"none"} \union Places
    /\ saved = [place \in Places |-> IF place = "kv" THEN kv ELSE memory]
    /\ kv \in SUBSET Keys /\ IsFiniteSet(kv)
    /\ memory \in SUBSET Keys /\ IsFiniteSet(memory)

LEMMA EntriesInit == Init => EntriesInv
  BY FS_EmptySet DEF Init, EntriesInv, Places

LEMMA EntriesNext == EntriesInv /\ [Next]_vars => EntriesInv'
<1> SUFFICES ASSUME EntriesInv, [Next]_vars PROVE EntriesInv'
  OBVIOUS
<1> USE DEF Places
<1>1. CASE BeginRequest
  <2>1. PICK key \in FirstKeys : opened' = OpenedFor("none", key)
    BY <1>1 DEF BeginRequest
  <2>2. opened' \in Places
    BY <2>1, StoreAssumption DEF OpenedFor
  <2> QED
    BY <1>1, <2>2 DEF BeginRequest, EntriesInv
<1>2. CASE SetEntry
  <2>1. PICK k \in Keys, key \in {"kv", "memory"}, wrapped \in BOOLEAN :
          /\ kv' = IF Place(key, wrapped) = "kv" THEN kv \union {k} ELSE kv
          /\ memory' = IF Place(key, wrapped) = "memory" THEN memory \union {k} ELSE memory
          /\ saved' = [saved EXCEPT ![opened] = @ \union {k}]
    BY <1>2 DEF SetEntry
  <2>2. opened \in Places /\ Place(key, wrapped) = opened /\ opened' = opened
    BY <1>2 DEF SetEntry, EntriesInv, Place, CacheWrap, OpenedFor
  <2>3. IsFiniteSet(kv \union {k}) /\ IsFiniteSet(memory \union {k})
    BY FS_AddElement DEF EntriesInv
  <2>4. saved' = [place \in Places |-> IF place = "kv" THEN kv' ELSE memory']
    BY <2>1, <2>2 DEF EntriesInv
  <2> QED
    BY <2>1, <2>2, <2>3, <2>4 DEF EntriesInv
<1>3. CASE DeleteEntry
  <2>1. PICK k \in Keys, key \in {"kv", "memory"}, wrapped \in BOOLEAN :
          /\ kv' = IF Place(key, wrapped) = "kv" THEN kv \ {k} ELSE kv
          /\ memory' = IF Place(key, wrapped) = "memory" THEN memory \ {k} ELSE memory
          /\ saved' = [saved EXCEPT ![opened] = @ \ {k}]
    BY <1>3 DEF DeleteEntry
  <2>2. opened \in Places /\ Place(key, wrapped) = opened /\ opened' = opened
    BY <1>3 DEF DeleteEntry, EntriesInv, Place, CacheWrap, OpenedFor
  <2>3. IsFiniteSet(kv \ {k}) /\ IsFiniteSet(memory \ {k})
    BY FS_RemoveElement DEF EntriesInv
  <2>4. saved' = [place \in Places |-> IF place = "kv" THEN kv' ELSE memory']
    BY <2>1, <2>2 DEF EntriesInv
  <2> QED
    BY <2>1, <2>2, <2>3, <2>4 DEF EntriesInv
<1>4. CASE EndRequest
  BY <1>4 DEF EndRequest, SetContext, EntriesInv
<1>5. CASE Restart
  <2>1. saved' = [place \in Places |-> IF place = "kv" THEN kv' ELSE memory']
    BY <1>5 DEF Restart, EntriesInv
  <2> QED
    BY <1>5, <2>1, FS_EmptySet DEF Restart, SetContext, EntriesInv
<1>6. CASE ChainParams \/ SysParams \/ UpdateParams
  BY <1>6 DEF ChainParams, SysParams, UpdateParams, storeVars, EntriesInv
<1>7. CASE UNCHANGED vars
  BY <1>7 DEF vars, storeVars, EntriesInv
<1> QED
  BY <1>1, <1>2, <1>3, <1>4, <1>5, <1>6, <1>7 DEF Next

LEMMA EntriesAreFound == EntriesInv => StoredIsFound
<1> SUFFICES ASSUME EntriesInv, NEW key \in {"kv", "memory"}, opened # "none"
             PROVE  /\ Found(key) = saved[opened]
                    /\ \A start, last \in Keys :
                         /\ ToSet(Iterator(Found(key), start, last + 1)) =
                              {k \in saved[opened] : start <= k /\ k <= last}
                         /\ Reverse(Iterator(Found(key), start, last + 1)) =
                              ReverseIterator(Found(key), start, last + 1)
  BY DEF StoredIsFound
<1> DEFINE entries == saved[opened]
<1>1. Found(key) = entries
  BY DEF EntriesInv, Found, OpenedFor, Places
<1>2. entries \in SUBSET Keys /\ IsFiniteSet(entries)
  BY DEF EntriesInv, Places
<1> HIDE DEF entries
<1>3. ASSUME NEW start \in Keys, NEW last \in Keys
      PROVE  /\ ToSet(Iterator(entries, start, last + 1)) =
                  {k \in entries : start <= k /\ k <= last}
             /\ Reverse(Iterator(entries, start, last + 1)) =
                  ReverseIterator(entries, start, last + 1)
  <2>1. entries \in SUBSET Nat /\ start \in Nat /\ last \in Nat
    BY <1>2, <1>3, StoreAssumption
  <2>2. last + 1 \in Nat
    BY <2>1
  <2>3. Within(entries, start, last + 1) = {k \in entries : start <= k /\ k <= last}
    <3>1. \A k \in entries : k < last + 1 <=> k <= last
      <4>1. \A k, l \in Nat : k < l + 1 <=> k <= l
        OBVIOUS
      <4> QED
        BY <2>1, <4>1
    <3> QED
      BY <3>1, Zenon DEF Within
  <2> QED
    BY <1>2, <2>1, <2>2, <2>3, IteratorsList
<1> QED
  BY <1>1, <1>3 DEF entries

(* What the VM saves it finds through both of its keys, in later requests  *)
(* that open the same store and, in the module's, after a restart; the     *)
(* iterators list any range of it once, in order and in reverse order.     *)
THEOREM StoredIsAlwaysFound == Spec => []StoredIsFound
  BY EntriesInit, EntriesNext, EntriesAreFound, PTL DEF Spec
=============================================================================
