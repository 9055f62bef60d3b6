------------------------- MODULE GnovmGenesisProofs -------------------------
(***************************************************************************)
(* Theorems about GnovmGenesis for every set of parameter values and       *)
(* packages, over any number of chains.                                    *)
(***************************************************************************)
EXTENDS GnovmGenesis, TLAPS

(* A package index that lists no package twice, the standard library once. *)
IndexOnce(index) ==
    /\ \A p \in Packages : index[p] <= 1
    /\ \A p \in Stdlibs : index[p] = 1

(* An exported file carries such an index, and, as long as nobody edits    *)
(* it, the parameters of the VM's copy in the same export.                 *)
FileFaithful ==
    file.state # NoState =>
        /\ IndexOnce(file.state.index)
        /\ ~file.edited =>
             /\ file.params = VmParamsToParams(file.state.vmp)
             /\ file.realm_params \in {Unset, file.state.realm}

LifeInv == TypeOK /\ PackagesOnce /\ FileFaithful

(* Without edits the copies agree in the store and in the file.            *)
SyncInv ==
    ~everEdited =>
        /\ CopiesAgree
        /\ ~file.edited
        /\ file.state # NoState => file.state.vmp = ToVmParams(file.state.modp)

LEMMA StoreIsNotEmpty == NoState \notin Stores
<1> SUFFICES ASSUME NoState \in Stores PROVE FALSE
  OBVIOUS
<1>1. DOMAIN NoState = {"empty"}
  BY DEF NoState
<1>2. DOMAIN NoState = {"modp", "vmp", "raw", "realm", "index"}
  BY DEF Stores
<1> QED
  BY <1>1, <1>2

(* Converting to the VM's form and back loses only what is not 20 bytes.   *)
LEMMA Conversions ==
    /\ \A p \in Params : ToVmParams(p) \in VmParams
    /\ \A q \in Valid : /\ VmParamsToParams(q) \in Params
                        /\ ToVmParams(VmParamsToParams(q)) = q
  BY BytesAssumption, ValidAssumption
  DEF Params, VmParams, ToVmParams, ToCryptoAddress, VmParamsToParams

LEMMA GenesisStore ==
    ASSUME LifeInv, ~Running, InitGenesis
    PROVE  /\ store' \in Stores
           /\ IndexOnce(store'.index)
           /\ file.state # NoState /\ ~file.edited => store' = file.state
<1> DEFINE s == [modp  |-> ImportedModp(file), vmp   |-> ToVmParams(file.params),
                 raw   |-> ImportedRaw(file),  realm |-> ImportedRealm(file),
                 index |-> LoadStdlib(file)]
<1>1. store' = s
  BY DEF InitGenesis
<1>0. ToVmParams(file.params) \in Valid /\ file.realm_params \in RealmParams
  BY DEF InitGenesis, Validate, LifeInv, TypeOK, Files
<1>2. CASE file.state = NoState
  <2>1. ImportedModp(file) \in Params /\ ImportedRealm(file) \in RealmParams
    BY <1>0, <1>2 DEF ImportedModp, ImportedRealm, RealmParams, LifeInv, TypeOK, Files
  <2>2. ImportedRaw(file) \in RawParams
    BY <1>2 DEF ImportedRaw, RawParams, Fields
  <2>3. LoadStdlib(file) \in [Packages -> Nat] /\ IndexOnce(LoadStdlib(file))
    BY <1>2, StdlibAssumption DEF LoadStdlib, Packages, IndexOnce
  <2> QED
    BY <1>0, <1>1, <1>2, <2>1, <2>2, <2>3 DEF Stores
<1>3. CASE file.state # NoState
  <2>1. file.state \in Stores
    BY <1>3 DEF LifeInv, TypeOK, Files
  <2>2. ImportedRealm(file) \in RealmParams
    BY <1>0, <1>3, <2>1 DEF ImportedRealm, Stores
  <2>3. s \in Stores /\ IndexOnce(s.index)
    BY <1>0, <1>3, <2>1, <2>2
    DEF ImportedModp, ImportedRaw, LoadStdlib, Stores, LifeInv, FileFaithful
  <2>4. ~file.edited => s = file.state
    BY <1>3, <2>1, Conversions
    DEF ImportedModp, ImportedRaw, ImportedRealm, LoadStdlib, Stores, LifeInv, FileFaithful
  <2> QED
    BY <1>1, <1>3, <2>3, <2>4
<1> QED
  BY <1>2, <1>3

LEMMA LifeInit == Init => LifeInv
  BY DEF Init, LifeInv, TypeOK, PackagesOnce, Running, FileFaithful, Files

LEMMA LifeNext == LifeInv /\ [Next]_vars => LifeInv'
<1> SUFFICES ASSUME LifeInv, [Next]_vars PROVE LifeInv'
  OBVIOUS
<1> USE StoreIsNotEmpty DEF LifeInv
<1>1. CASE InitGenesis
  <2>1. store' \in Stores /\ IndexOnce(store'.index) /\ UNCHANGED <<file, everEdited>>
    BY <1>1, GenesisStore DEF InitGenesis
  <2> QED
    BY <2>1 DEF TypeOK, PackagesOnce, IndexOnce, FileFaithful
<1>2. CASE ExportGenesis
  <2>1. store \in Stores /\ VmParamsToParams(store.vmp) \in Params /\ UNCHANGED store
    BY <1>2, Conversions DEF ExportGenesis, Running, TypeOK, Stores
  <2>2. file' \in Files /\ file'.state = store
        /\ file'.params = VmParamsToParams(file'.state.vmp)
        /\ file'.realm_params \in {Unset, file'.state.realm}
    <3>1. PICK r \in {Unset, store.realm} :
            file' = [params |-> VmParamsToParams(store.vmp), realm_params |-> r,
                     state |-> store, edited |-> FALSE]
      BY <1>2 DEF ExportGenesis
    <3>2. r \in RealmParams
      BY <2>1 DEF Stores, RealmParams
    <3> QED
      BY <2>1, <3>1, <3>2 DEF Files
  <2> QED
    BY <1>2, <2>1, <2>2
    DEF ExportGenesis, TypeOK, PackagesOnce, IndexOnce, FileFaithful, Running
<1>3. CASE NewChain
  BY <1>3 DEF NewChain, TypeOK, PackagesOnce, FileFaithful, Running
<1>4. ASSUME NEW p \in Params, UpdateParams(p) PROVE LifeInv'
  <2>1. store' \in Stores /\ store'.index = store.index /\ UNCHANGED file
    BY <1>4 DEF UpdateParams, Validate, Running, TypeOK, Stores
  <2> QED
    BY <1>4, <2>1 DEF UpdateParams, TypeOK, PackagesOnce, FileFaithful, Running
<1>5. ASSUME NEW p \in Params, NEW r \in RealmParams \cup {Malformed}, EditFile(p, r)
      PROVE  LifeInv'
  <2>1. /\ file' \in Files /\ file'.state = file.state
        /\ file'.edited = (file.state # NoState)
        /\ everEdited' \in BOOLEAN /\ UNCHANGED store
    BY <1>5 DEF EditFile, Exported, TypeOK, Files
  <2> QED
    BY <2>1 DEF TypeOK, PackagesOnce, FileFaithful, Running
<1>6. ASSUME NEW g \in Fields, NEW v, SetRaw(g, v),
             [store.raw EXCEPT ![g] = v] \in RawParams
      PROVE  LifeInv'
  <2>1. store' \in Stores /\ store'.index = store.index /\ UNCHANGED file
    BY <1>6 DEF SetRaw, Running, TypeOK, Stores
  <2> QED
    BY <1>6, <2>1 DEF SetRaw, TypeOK, PackagesOnce, FileFaithful, Running
<1>7. ASSUME NEW v \in Domains, SetRaw("chain_domain", v) PROVE LifeInv'
  <2>1. [store.raw EXCEPT !["chain_domain"] = v] \in RawParams
    BY <1>7 DEF SetRaw, Running, TypeOK, Stores, RawParams
  <2> QED
    BY <1>6, <1>7, <2>1 DEF Fields
<1>8. ASSUME NEW v \in Addresses \cup OtherBytes, SetRaw("storage_fee_collector", v)
      PROVE  LifeInv'
  <2>1. [store.raw EXCEPT !["storage_fee_collector"] = v] \in RawParams
    BY <1>8 DEF SetRaw, Running, TypeOK, Stores, RawParams
  <2> QED
    BY <1>6, <1>8, <2>1 DEF Fields
<1>9. ASSUME NEW p \in Pkgs, AddPackage(p) PROVE LifeInv'
  <2>1. store \in Stores /\ p \in Packages /\ p \notin Stdlibs
    BY <1>9, StdlibAssumption DEF AddPackage, Running, TypeOK, Packages
  <2>2. store' \in Stores /\ store'.index = [store.index EXCEPT ![p] = 1] /\ UNCHANGED file
    BY <1>9, <2>1 DEF AddPackage, Stores
  <2> QED
    BY <1>9, <2>1, <2>2
    DEF AddPackage, TypeOK, PackagesOnce, FileFaithful, Running, Stores
<1>10. ASSUME NEW v \in RealmValues, SetRealm(v) PROVE LifeInv'
  <2>1. store' \in Stores /\ store'.index = store.index /\ UNCHANGED file
    BY <1>10 DEF SetRealm, Running, TypeOK, Stores, RealmParams
  <2> QED
    BY <1>10, <2>1 DEF SetRealm, TypeOK, PackagesOnce, FileFaithful, Running
<1>11. CASE UNCHANGED vars
  BY <1>11 DEF vars, TypeOK, PackagesOnce, FileFaithful, Running
<1> QED
  BY <1>1, <1>2, <1>3, <1>4, <1>5, <1>7, <1>8, <1>9, <1>10, <1>11 DEF Next

(* The values stored always have the right types: what the VM's copy holds *)
(* is a 20-byte address even when the fee collector was given otherwise.   *)
THEOREM GenesisTypeCorrect == Spec => []TypeOK
<1>1. LifeInv => TypeOK
  BY DEF LifeInv
<1> QED
  BY LifeInit, LifeNext, <1>1, PTL DEF Spec

(* However often the chain is exported and started again, edited files     *)
(* included, no package is in the index twice and the standard library is  *)
(* there (genesis.go, LoadStdlib only for a fresh chain).                  *)
THEOREM IndexListsPackagesOnce == Spec => []PackagesOnce
<1>1. LifeInv => PackagesOnce
  BY DEF LifeInv
<1> QED
  BY LifeInit, LifeNext, <1>1, PTL DEF Spec

(* Importing a file that nobody edited restores the exported store.        *)
THEOREM ImportRestoresStore == Spec => ImportRestores
<1>1. ASSUME LifeInv, [Next]_vars, ~Running, Running', file.state # NoState, ~file.edited
      PROVE  store' = file.state
  <2>1. ~(ExportGenesis \/ NewChain \/ UNCHANGED vars)
    BY <1>1 DEF ExportGenesis, NewChain, vars, Running
  <2>2. \A p, r : ~(UpdateParams(p) \/ EditFile(p, r) \/ AddPackage(p))
    BY <1>1 DEF UpdateParams, EditFile, AddPackage, Running
  <2>3. \A g, v : ~(SetRaw(g, v) \/ SetRealm(v))
    BY <1>1 DEF SetRaw, SetRealm
  <2>4. InitGenesis
    BY <1>1, <2>1, <2>2, <2>3 DEF Next
  <2> QED
    BY <1>1, <2>4, GenesisStore
<1>2. LifeInv /\ [Next]_vars =>
        [(~Running /\ Running' /\ file.state # NoState /\ ~file.edited)
            => store' = file.state]_vars
  BY <1>1
<1> QED
  BY LifeInit, LifeNext, <1>2, PTL DEF Spec, ImportRestores

LEMMA SyncInit == Init => SyncInv
  BY DEF Init, SyncInv, CopiesAgree, Running

LEMMA SyncNext == LifeInv /\ SyncInv /\ [Next]_vars => SyncInv'
<1> SUFFICES ASSUME LifeInv, SyncInv, [Next]_vars PROVE SyncInv'
  OBVIOUS
<1> USE DEF SyncInv
<1>1. CASE InitGenesis
  <2>1. CASE file.state = NoState
    BY <1>1, <2>1 DEF InitGenesis, CopiesAgree, ImportedModp
  <2>2. CASE file.state # NoState
    <3>1. ~everEdited => store' = file.state
      BY <1>1, <2>2, GenesisStore DEF InitGenesis
    <3> QED
      BY <1>1, <2>2, <3>1 DEF InitGenesis, CopiesAgree
  <2> QED
    BY <2>1, <2>2
<1>2. CASE ExportGenesis
  <2>1. file'.edited = FALSE /\ file'.state = store /\ UNCHANGED <<store, everEdited>>
    BY <1>2 DEF ExportGenesis
  <2> QED
    BY <1>2, <2>1 DEF ExportGenesis, CopiesAgree, Running
<1>3. CASE NewChain
  BY <1>3 DEF NewChain, CopiesAgree, Running
<1>4. ASSUME NEW p \in Params, UpdateParams(p) PROVE SyncInv'
  BY <1>4 DEF UpdateParams, CopiesAgree, Running, LifeInv, TypeOK, Stores
<1>5. ASSUME NEW p \in Params, NEW r \in RealmParams \cup {Malformed}, EditFile(p, r)
      PROVE  SyncInv'
  <2>1. /\ file'.state = file.state /\ file'.edited = (file.state # NoState)
        /\ everEdited' = (everEdited \/ file.state # NoState) /\ UNCHANGED store
    BY <1>5 DEF EditFile, Exported, LifeInv, TypeOK, Files
  <2> QED
    BY <2>1 DEF CopiesAgree, Running
<1>6. ASSUME NEW g, NEW v, SetRaw(g, v) PROVE SyncInv'
  BY <1>6 DEF SetRaw, CopiesAgree, Running, LifeInv, TypeOK, Stores
<1>7. ASSUME NEW p \in Pkgs, AddPackage(p) PROVE SyncInv'
  BY <1>7 DEF AddPackage, CopiesAgree, Running, LifeInv, TypeOK, Stores
<1>8. ASSUME NEW v \in RealmValues, SetRealm(v) PROVE SyncInv'
  BY <1>8 DEF SetRealm, CopiesAgree, Running, LifeInv, TypeOK, Stores
<1>9. CASE UNCHANGED vars
  BY <1>9 DEF vars, CopiesAgree, Running
<1> QED
  BY <1>1, <1>2, <1>3, <1>4, <1>5, <1>6, <1>7, <1>8, <1>9 DEF Next

(* As long as no operator edited an exported file, the two copies of the   *)
(* parameters agree on every chain (genesis.go, ExportGenesis).            *)
THEOREM CopiesAgreeUntilEdited == Spec => []UneditedCopiesAgree
<1>1. SyncInv => UneditedCopiesAgree
  BY DEF SyncInv, UneditedCopiesAgree
<1> QED
  BY LifeInit, LifeNext, SyncInit, SyncNext, <1>1, PTL DEF Spec
=============================================================================
