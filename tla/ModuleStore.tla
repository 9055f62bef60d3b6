---------------------------- MODULE ModuleStore ----------------------------
(***************************************************************************)
(* The module's store as the VM and the realms see it.                     *)
(*                                                                         *)
(* Parameters go through vmKeeperParams: typed values, kept as JSON under  *)
(* raw keys of the module's store, with a fallback to the parameters that  *)
(* UpdateParams stores.  Realms set them through the natives of            *)
(* chain/params (their own) and sys/params (anyone's, from one realm).     *)
(* Packages and objects go through gnovmMultiStore, which serves both      *)
(* store keys of the VM from one store, opened on first use.               *)
(*                                                                         *)
(* Branches of the store, and whose branch is written, are GnovmKeeper's.  *)
(***************************************************************************)
EXTENDS Integers, Sequences, FiniteSets, SequencesExt

CONSTANTS
    Realms,        \* paths of realms that set parameters
    SysRealm,      \* gno.land/r/sys/params
    Names,         \* parameter names, some with a colon or empty
    Colons,        \* those with a colon
    Modules,       \* modules and submodules that sys/params names, each the
    Submodules,    \* sequence of its parts between colons
    Texts,         \* strings and elements of lists
    Blobs,         \* byte strings that are no JSON, the empty one aside
    Word,          \* one more than the largest uint64
    ParamSets,     \* what UpdateParams may store
    AddressLen,    \* bytes of an address
    ZeroAddress,   \* what a collector of the wrong length becomes for the VM
    Keys,          \* keys of the VM's objects, as numbers in key order
    FirstKeys,     \* which of its two keys the VM may ask for first
    MaxSet         \* bound of the model: raw keys and entries set

ASSUME StoreAssumption ==
    /\ SysRealm \in Realms /\ "p" \notin Realms   \* a realm's path has a domain
    /\ \A m \in Modules \union Submodules : m \in Seq(STRING) /\ Len(m) > 0
    /\ FirstKeys \subseteq {"kv", "memory"}
    /\ Word \in Nat /\ Word % 2 = 0 /\ Keys \subseteq Nat

VARIABLES
    raw,        \* what is stored under the keys "params/..."
    module,     \* Keeper.Params, stored under "p_gnovm"
    wrote,      \* who set each raw key last, to what value of what type
    opened,     \* gnovmMultiStore.kvStore of the request: "none", "kv", "memory"
    kv,         \* the VM's entries in the module's store
    memory,     \* and in its memory store
    saved       \* entries it has stored in requests that opened each of them

paramVars == <<raw, module, wrote>>
storeVars == <<opened, kv, memory, saved>>
vars == <<paramVars, storeVars>>

-----------------------------------------------------------------------------
(* Stored data: JSON of one kind, or the bytes of SetBytes as they are; a  *)
(* record whose one field names which.                                     *)

Data(kind, v) == [k \in {kind} |-> v]
KindOf(d) == CHOOSE k \in DOMAIN d : TRUE
ValueOf(d) == d[KindOf(d)]
Nothing == Data("bytes", <<>>)

Uint64s == 0 .. Word - 1
Int64s == -(Word \div 2) .. (Word \div 2) - 1

(* encoding/json into a Go variable of a type: the value, or nothing if    *)
(* the text is of another kind or out of the type's range.                 *)
Kind == [string |-> "text", bool |-> "bool", int64 |-> "number",
         uint64 |-> "number", strings |-> "list", struct |-> "object"]

Unmarshals(type, d) ==
    /\ KindOf(d) = Kind[type]
    /\ type = "int64" => ValueOf(d) \in Int64s
    /\ type = "uint64" => ValueOf(d) \in Uint64s

(* Faulty variant: numbers are kept without a sign. *)
MarshalUnsigned(type, v) ==
    Data(Kind[type], IF type = "int64" THEN v % Word ELSE v)

Marshal(type, v) == Data(Kind[type], v)

(* paramStoreKey puts "params/" before the key, apart from everything else *)
(* in the store; a key here is the sequence of its parts between colons.   *)
GetRaw(key) == IF key \in DOMAIN raw THEN raw[key] ELSE Nothing
Has(key) == key \in DOMAIN raw
Stored(key) == GetRaw(key) # Nothing

SetRaw(key, d) == [k \in DOMAIN raw \union {key} |-> IF k = key THEN d ELSE raw[k]]

SetAny(key, type, v) == SetRaw(key, Marshal(type, v))
SetString(key, v) == SetRaw(key, Marshal("string", v))
SetBool(key, v) == SetRaw(key, Marshal("bool", v))
SetInt64(key, v) == SetRaw(key, Marshal("int64", v))
SetUint64(key, v) == SetRaw(key, Marshal("uint64", v))
SetStrings(key, v) == SetRaw(key, Marshal("strings", v))
SetStruct(key, v) == SetRaw(key, Marshal("struct", v))
SetBytes(key, v) == SetRaw(key, Data("bytes", v))

(* What Get of a type sets *ptr to: the stored value, the fallback where   *)
(* nothing is stored, the zero value where the stored one does not fit.    *)
GetTyped(type, key, fallback, zero) ==
    IF ~Stored(key) THEN fallback
    ELSE IF Unmarshals(type, GetRaw(key)) THEN ValueOf(GetRaw(key)) ELSE zero

(* The module's copy of a parameter the VM knows by name. *)
StringFields == {"sysnames_pkgpath", "chain_domain", "default_deposit", "storage_price"}
Fields == StringFields \union {"storage_fee_collector"}
ASSUME ParamsAssumption == \A p \in ParamSets : p = [f \in Fields |-> p[f]]
FieldKey(f) == <<"vm", "p", f>>
FieldOf(key) == key[3]
IsField(key, fields) == \E f \in fields : key = FieldKey(f)

(* Faulty variant: two cases of the switch are swapped. *)
FallbackSwapped(key) ==
    CASE FieldOf(key) = "default_deposit" -> module.storage_price
      [] FieldOf(key) = "storage_price"   -> module.default_deposit
      [] OTHER                            -> module[FieldOf(key)]

Fallback(key) == module[FieldOf(key)]

GetString(key) ==
    GetTyped("string", key, IF IsField(key, StringFields) THEN Fallback(key) ELSE "", "")
GetBool(key) == GetTyped("bool", key, FALSE, FALSE)
GetInt64(key) == GetTyped("int64", key, 0, 0)
GetUint64(key) == GetTyped("uint64", key, 0, 0)
GetStrings(key) == GetTyped("strings", key, <<>>, <<>>)
GetBytes(key) ==
    IF Stored(key) THEN ValueOf(GetRaw(key))
    ELSE IF IsField(key, {"storage_fee_collector"}) THEN Fallback(key) ELSE <<>>

(* GetStruct leaves *ptr as it was if nothing of the kind is stored. *)
GetStruct(key, was) == GetTyped("struct", key, was, was)

(* Any JSON is a value for GetAny; nil for what is not. *)
GetAny(key) ==
    IF Stored(key) THEN IF KindOf(GetRaw(key)) = "bytes" THEN <<>> ELSE ValueOf(GetRaw(key))
    ELSE IF IsField(key, Fields) THEN Fallback(key) ELSE <<>>

-----------------------------------------------------------------------------
(* The natives that set parameters.                                        *)

(* A realm's own key; a name that is empty or has a colon panics. *)
ValidName(name) == name # "" /\ name \notin Colons
PKey(realm, name) == <<"vm", realm, name>>

(* SDKParams.UpdateStrings of the VM: adds to or removes from the list.    *)
Updated(old, vals, add) ==
    IF add THEN old \o SelectSeq(vals, LAMBDA x : x \notin Range(old))
    ELSE SelectSeq(old, LAMBDA x : x \notin Range(vals))

UpdateStrings(key, vals, add) == SetStrings(key, Updated(GetStrings(key), vals, add))

ChainSetString(realm, name, v) == SetString(PKey(realm, name), v)
ChainSetBool(realm, name, v) == SetBool(PKey(realm, name), v)
ChainSetInt64(realm, name, v) == SetInt64(PKey(realm, name), v)
ChainSetUint64(realm, name, v) == SetUint64(PKey(realm, name), v)
ChainSetBytes(realm, name, v) == SetBytes(PKey(realm, name), v)
ChainSetStrings(realm, name, v) == SetStrings(PKey(realm, name), v)
ChainUpdateStrings(realm, name, v, add) == UpdateStrings(PKey(realm, name), v, add)

(* Faulty variant: any realm may use sys/params. *)
SysCallerAny(realm) == TRUE

(* assertSysParamsRealm: the caller of sys/params is one realm only. *)
SysCaller(realm) == realm = SysRealm

(* Any module's parameter, but for a name with a colon or no submodule.    *)
ValidPrm(submodule, name) == name \notin Colons /\ submodule # <<"">>
PrmKey(mod, submodule, name) == mod \o submodule \o <<name>>

SysSetString(mod, sub, name, v) == SetString(PrmKey(mod, sub, name), v)
SysSetBool(mod, sub, name, v) == SetBool(PrmKey(mod, sub, name), v)
SysSetInt64(mod, sub, name, v) == SetInt64(PrmKey(mod, sub, name), v)
SysSetUint64(mod, sub, name, v) == SetUint64(PrmKey(mod, sub, name), v)
SysSetBytes(mod, sub, name, v) == SetBytes(PrmKey(mod, sub, name), v)
SysSetStrings(mod, sub, name, v) == SetStrings(PrmKey(mod, sub, name), v)
SysUpdateStrings(mod, sub, name, v, add) == UpdateStrings(PrmKey(mod, sub, name), v, add)

Lists == {<<>>} \union {<<a>> : a \in Texts}
Bytes == Blobs \union {<<>>}

(* Bound: MaxSet raw keys and entries are set at a time. *)
Room == Cardinality(DOMAIN wrote) + Cardinality(kv) + Cardinality(memory) < MaxSet

Note(realm, key, type, v) ==
    /\ key \in DOMAIN wrote \/ Room
    /\ wrote' = [k \in DOMAIN wrote \union {key} |->
                   IF k = key THEN [by |-> realm, type |-> type, value |-> Data(type, v)] ELSE wrote[k]]

(* A list set before, if the key holds one: what an update starts from.    *)
ListAt(key) ==
    IF key \in DOMAIN wrote /\ wrote[key].type = "strings" THEN ValueOf(wrote[key].value) ELSE <<>>

ChainParams ==
    /\ \E realm \in Realms, name \in Names :
         /\ ValidName(name)
         /\ LET key == PKey(realm, name) IN
            \/ \E v \in Texts : raw' = ChainSetString(realm, name, v) /\ Note(realm, key, "string", v)
            \/ \E v \in BOOLEAN : raw' = ChainSetBool(realm, name, v) /\ Note(realm, key, "bool", v)
            \/ \E v \in Int64s : raw' = ChainSetInt64(realm, name, v) /\ Note(realm, key, "int64", v)
            \/ \E v \in Uint64s : raw' = ChainSetUint64(realm, name, v) /\ Note(realm, key, "uint64", v)
            \/ \E v \in Bytes : raw' = ChainSetBytes(realm, name, v) /\ Note(realm, key, "bytes", v)
            \/ \E v \in Lists : raw' = ChainSetStrings(realm, name, v) /\ Note(realm, key, "strings", v)
            \/ \E v \in Lists, add \in BOOLEAN :
                 /\ raw' = ChainUpdateStrings(realm, name, v, add)
                 /\ Note(realm, key, "strings", Updated(ListAt(key), v, add))
    /\ UNCHANGED <<module, storeVars>>

SysParams ==
    /\ \E realm \in Realms, mod \in Modules, sub \in Submodules, name \in Names :
         /\ SysCaller(realm) /\ ValidPrm(sub, name)
         /\ LET key == PrmKey(mod, sub, name) IN
            \/ \E v \in Texts : raw' = SysSetString(mod, sub, name, v) /\ Note(realm, key, "string", v)
            \/ \E v \in BOOLEAN : raw' = SysSetBool(mod, sub, name, v) /\ Note(realm, key, "bool", v)
            \/ \E v \in Int64s : raw' = SysSetInt64(mod, sub, name, v) /\ Note(realm, key, "int64", v)
            \/ \E v \in Uint64s : raw' = SysSetUint64(mod, sub, name, v) /\ Note(realm, key, "uint64", v)
            \/ \E v \in Bytes : raw' = SysSetBytes(mod, sub, name, v) /\ Note(realm, key, "bytes", v)
            \/ \E v \in Lists : raw' = SysSetStrings(mod, sub, name, v) /\ Note(realm, key, "strings", v)
            \/ \E v \in Lists, add \in BOOLEAN :
                 /\ raw' = SysUpdateStrings(mod, sub, name, v, add)
                 /\ Note(realm, key, "strings", Updated(ListAt(key), v, add))
    /\ UNCHANGED <<module, storeVars>>

(* MsgUpdateParams, when it succeeds: the VM's SetParams stores a struct,  *)
(* then the module stores its own copy.                                    *)
VmKey == <<"vm", "p">>
ToVmParams(p) ==
    [p EXCEPT !.storage_fee_collector = IF Len(@) = AddressLen THEN @ ELSE ZeroAddress]

UpdateParams ==
    /\ \E p \in ParamSets : raw' = SetStruct(VmKey, ToVmParams(p)) /\ module' = p
    /\ UNCHANGED <<wrote, storeVars>>

-----------------------------------------------------------------------------
(* gnovmMultiStore.  The VM holds what GetStore gives it for its two keys. *)

SetContext == opened' = "none"

(* Faulty variant: each key has its own store, as the keys' names suggest. *)
OpenedByKey(was, key) == key

(* The store that serves a key: the one opened by the first key asked for. *)
OpenedFor(was, key) == IF was = "none" THEN key ELSE was

(* A request asks for its stores by both keys; the first opens one.        *)
BeginRequest ==
    /\ opened = "none"
    /\ \E key \in FirstKeys : opened' = OpenedFor("none", key)
    /\ UNCHANGED <<paramVars, kv, memory, saved>>

EndRequest ==
    /\ opened # "none"
    /\ SetContext
    /\ UNCHANGED <<paramVars, kv, memory, saved>>

(* Faulty variant: CacheWrap makes a cache, which Write does not flush. *)
CacheWrapReal(place) == "cache"

(* CacheWrap and MultiCacheWrap return the store itself, and Write and     *)
(* MultiWrite do nothing: what the VM sets through a wrapped store is in   *)
(* the store at once.                                                      *)
CacheWrap(place) == place

(* The VM sets or deletes an entry through one of its two keys, on a store *)
(* it has wrapped or not, and writes the wrapped store.                    *)
Place(key, wrapped) ==
    IF wrapped THEN CacheWrap(OpenedFor(opened, key)) ELSE OpenedFor(opened, key)

SetEntry ==
    /\ opened # "none" /\ Room
    /\ \E k \in Keys, key \in {"kv", "memory"}, wrapped \in BOOLEAN :
         /\ kv' = IF Place(key, wrapped) = "kv" THEN kv \union {k} ELSE kv
         /\ memory' = IF Place(key, wrapped) = "memory" THEN memory \union {k} ELSE memory
         /\ saved' = [saved EXCEPT ![opened] = @ \union {k}]
    /\ UNCHANGED <<paramVars, opened>>

DeleteEntry ==
    /\ opened # "none"
    /\ \E k \in Keys, key \in {"kv", "memory"}, wrapped \in BOOLEAN :
         /\ kv' = IF Place(key, wrapped) = "kv" THEN kv \ {k} ELSE kv
         /\ memory' = IF Place(key, wrapped) = "memory" THEN memory \ {k} ELSE memory
         /\ saved' = [saved EXCEPT ![opened] = @ \ {k}]
    /\ UNCHANGED <<paramVars, opened>>

(* A restart forgets the memory store. *)
Restart ==
    /\ memory' = {} /\ saved' = [saved EXCEPT !["memory"] = {}]
    /\ SetContext
    /\ UNCHANGED <<paramVars, kv>>

(* What the VM finds under its keys: Get and Has. *)
Found(key) == IF OpenedFor(opened, key) = "kv" THEN kv ELSE memory

(* Iterator and ReverseIterator from start up to, not including, end. *)
Within(entries, start, end) == {k \in entries : start <= k /\ k < end}

Iterator(entries, start, end) ==
    LET S == Within(entries, start, end)
    IN  CHOOSE s \in [1 .. Cardinality(S) -> S] :
          \A i, j \in 1 .. Cardinality(S) : i < j => s[i] < s[j]
ReverseIterator(entries, start, end) ==
    LET S == Within(entries, start, end)
    IN  CHOOSE s \in [1 .. Cardinality(S) -> S] :
          \A i, j \in 1 .. Cardinality(S) : i < j => s[i] > s[j]

-----------------------------------------------------------------------------
Init ==
    /\ \E p \in ParamSets :
         /\ module = p
         /\ raw = [k \in {VmKey} |-> Data("object", ToVmParams(p))]
    /\ wrote = <<>>
    /\ opened = "none" /\ kv = {} /\ memory = {}
    /\ saved = [place \in {"kv", "memory"} |-> {}]

Next ==
    \/ ChainParams \/ SysParams \/ UpdateParams
    \/ BeginRequest \/ SetEntry \/ DeleteEntry \/ EndRequest \/ Restart

Spec == Init /\ [][Next]_vars

-----------------------------------------------------------------------------
(* What Get returns for a value set as a type. *)
ReadAs(type, key) ==
    CASE type = "string"  -> GetString(key)
      [] type = "bool"    -> GetBool(key)
      [] type = "int64"   -> GetInt64(key)
      [] type = "uint64"  -> GetUint64(key)
      [] type = "strings" -> GetStrings(key)
      [] type = "bytes"   -> GetBytes(key)

(* A parameter a realm has set is read back as it was set last, whatever   *)
(* other keys and the module's own parameters have become since; but for   *)
(* an empty collector, which reads as the module's though it is set.       *)
LastWriteIsRead ==
    \A key \in DOMAIN wrote :
        LET w == wrote[key]
        IN  /\ Has(key)
            /\ Data(w.type, ReadAs(w.type, key)) =
                 IF w.value = Nothing /\ IsField(key, {"storage_fee_collector"})
                 THEN Data("bytes", module.storage_fee_collector) ELSE w.value

(* The VM reads a parameter as a field and as part of the struct, and both *)
(* are what UpdateParams stored last, until gno.land/r/sys/params sets the *)
(* field's raw key: no other realm comes between them.                     *)
FieldsFollowUpdates ==
    \A f \in Fields :
        LET key == FieldKey(f)
            struct == GetStruct(VmKey, <<>>)
        IN \/ key \in DOMAIN wrote /\ wrote[key].by = SysRealm
           \/ f \in StringFields /\ GetString(key) = struct[f]
           \/ /\ f = "storage_fee_collector"
              /\ struct = ToVmParams([struct EXCEPT ![f] = GetBytes(key)])

(* What the VM has stored through either key, wrapped or not, it finds     *)
(* through both, in this request and in later ones that ask for the same   *)
(* key first, and in the module's store after a restart; any range of it   *)
(* is listed once and in order, the other way round in reverse.            *)
StoredIsFound ==
    \A key \in {"kv", "memory"} :
        opened # "none" =>
          /\ Found(key) = saved[opened]
          /\ \A start, last \in Keys :
               LET listed == Iterator(Found(key), start, last + 1)
               IN  /\ ToSet(listed) = {k \in saved[opened] : start <= k /\ k <= last}
                   /\ Reverse(listed) = ReverseIterator(Found(key), start, last + 1)
=============================================================================
