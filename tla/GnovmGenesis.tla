---------------------------- MODULE GnovmGenesis ----------------------------
(***************************************************************************)
(* The gnovm module's part of the chain state over the life of chains:     *)
(* genesis, parameter changes, new packages, export, and the start of a    *)
(* new chain from the exported file, which its operator may have edited.   *)
(*                                                                         *)
(* The parameters are stored three times: the SDK module's copy            *)
(* (Keeper.Params), the VM's copy (one JSON struct under "vm:p") and,      *)
(* field by field, the raw keys "vm:p:<field>" a system realm may set.     *)
(* Two fields stand for all: chain_domain for the strings, which convert   *)
(* as they are, and storage_fee_collector, whose bytes do not.             *)
(* Beside them the store holds what realms have set; one realm parameter   *)
(* stands for all, and a genesis file may set it a second way.             *)
(***************************************************************************)
EXTENDS Naturals

CONSTANTS
    Domains,      \* values of chain_domain
    Addresses,    \* byte strings of 20 bytes
    OtherBytes,   \* byte strings of any other length
    ZeroAddress,  \* the 20 zero bytes
    Valid,        \* parameters that vm.Params.Validate accepts
    RealmValues,  \* values of a realm's own parameter
    Malformed,    \* realm parameters that are not the JSON of any
    Unset,        \* "no such key in the store"
    Stdlibs,      \* the packages of the standard library
    Pkgs          \* the packages users add

ASSUME BytesAssumption ==
    /\ ZeroAddress \in Addresses
    /\ Addresses \cap OtherBytes = {}
ASSUME UnsetAssumption ==
    /\ Unset \notin Domains \cup Addresses \cup OtherBytes \cup RealmValues
    /\ Malformed \notin RealmValues \cup {Unset}
ASSUME StdlibAssumption == Stdlibs \cap Pkgs = {}

Params == [chain_domain : Domains, storage_fee_collector : Addresses \cup OtherBytes]
VmParams == [chain_domain : Domains, storage_fee_collector : Addresses]
RawParams == [chain_domain : Domains \cup {Unset},
              storage_fee_collector : Addresses \cup OtherBytes \cup {Unset}]
ASSUME ValidAssumption == Valid \subseteq VmParams
RealmParams == RealmValues \cup {Unset}
Fields == {"chain_domain", "storage_fee_collector"}

(* What is not 20 bytes long becomes the zero address. *)
ToCryptoAddress(b) == IF b \in Addresses THEN b ELSE ZeroAddress
ToVmParams(p) ==
    [chain_domain |-> p.chain_domain,
     storage_fee_collector |-> ToCryptoAddress(p.storage_fee_collector)]
VmParamsToParams(q) ==
    [chain_domain |-> q.chain_domain,
     storage_fee_collector |-> q.storage_fee_collector]

(* Faulty variant: a handler that forgets Params.Validate. *)
ValidateNothing(p) == TRUE
Validate(p) == ToVmParams(p) \in Valid

(* The module's store; index counts the entries of the VM's package index. *)
Packages == Stdlibs \cup Pkgs
Stores == [modp : Params, vmp : Valid, raw : RawParams, realm : RealmParams,
           index : [Packages -> Nat]]

NoState == [empty |-> TRUE]
Files == [params : Params, realm_params : RealmParams \cup {Malformed},
          state : Stores \cup {NoState}, edited : BOOLEAN]

VARIABLES
    store,     \* the chain's store: NoState before its genesis
    file,      \* the genesis file at hand
    everEdited \* has an operator ever edited an exported file?

vars == <<store, file, everEdited>>

Running == store # NoState

TypeOK ==
    /\ store \in Stores \cup {NoState}
    /\ file \in Files
    /\ everEdited \in BOOLEAN

(* A fresh chain: no exported state. *)
Init ==
    /\ store = NoState
    /\ file \in [params : Params, realm_params : RealmParams \cup {Malformed},
                state : {NoState}, edited : {FALSE}]
    /\ everEdited = FALSE

-----------------------------------------------------------------------------
(* Faulty variant: the module's copy is stored after the import.           *)
ImportedModpLast(f) == f.params
(* Params.Set, then the import of every exported pair over it.             *)
ImportedModp(f) == IF f.state = NoState THEN f.params ELSE f.state.modp
ImportedRaw(f) ==
    IF f.state = NoState THEN [g \in Fields |-> Unset] ELSE f.state.raw

(* The VM sets the file's realm parameters after the import. *)
ImportedRealm(f) ==
    IF f.realm_params # Unset THEN f.realm_params
    ELSE IF f.state = NoState THEN Unset ELSE f.state.realm

(* Faulty variant: every genesis loads the standard library. *)
LoadStdlibAlways(f) ==
    IF f.state = NoState THEN [p \in Packages |-> IF p \in Stdlibs THEN 1 ELSE 0]
    ELSE [p \in Packages |-> f.state.index[p] + (IF p \in Stdlibs THEN 1 ELSE 0)]
(* "Only a fresh chain loads it." *)
LoadStdlib(f) ==
    IF f.state = NoState THEN [p \in Packages |-> IF p \in Stdlibs THEN 1 ELSE 0]
    ELSE f.state.index

(* InitGenesis; an error or a panic of the VM in it keeps the node from    *)
(* starting.                                                               *)
InitGenesis ==
    /\ ~Running
    /\ Validate(file.params) /\ file.realm_params # Malformed
    /\ store' = [modp  |-> ImportedModp(file),
                 vmp   |-> ToVmParams(file.params),
                 raw   |-> ImportedRaw(file),
                 realm |-> ImportedRealm(file),
                 index |-> LoadStdlib(file)]
    /\ UNCHANGED <<file, everEdited>>

(* Faulty variant: only the VM's copy is updated. *)
UpdateParamsVMOnly(p) ==
    /\ Running /\ Validate(p)
    /\ store' = [store EXCEPT !.vmp = ToVmParams(p)]
    /\ UNCHANGED <<file, everEdited>>
(* Zero-valued parameters and every failure leave the store alone. *)
UpdateParams(p) ==
    /\ Running /\ Validate(p)
    /\ store' = [store EXCEPT !.vmp = ToVmParams(p), !.modp = p]
    /\ UNCHANGED <<file, everEdited>>

(* A system realm sets one field through its raw key. *)
SetRaw(g, v) ==
    /\ Running
    /\ store' = [store EXCEPT !.raw[g] = v]
    /\ UNCHANGED <<file, everEdited>>

(* A realm sets its own parameter. *)
SetRealm(v) ==
    /\ Running
    /\ store' = [store EXCEPT !.realm = v]
    /\ UNCHANGED <<file, everEdited>>

AddPackage(p) ==
    /\ Running /\ store.index[p] = 0
    /\ store' = [store EXCEPT !.index[p] = @ + 1]
    /\ UNCHANGED <<file, everEdited>>

(* ExportGenesis: the parameters come from the VM's copy, the state is     *)
(* every pair of the store; the VM lists the realm parameters or leaves    *)
(* them out.                                                               *)
ExportGenesis ==
    /\ Running
    /\ \E r \in {Unset, store.realm} :
         file' = [params |-> VmParamsToParams(store.vmp), realm_params |-> r,
                  state |-> store, edited |-> FALSE]
    /\ UNCHANGED <<store, everEdited>>

(* Before a start the operator writes the parameters of a fresh file or    *)
(* changes those of an exported one.                                       *)
Exported == file.state # NoState
EditFile(p, r) ==
    /\ ~Running
    /\ file' = [file EXCEPT !.params = p, !.realm_params = r, !.edited = Exported]
    /\ everEdited' = (everEdited \/ Exported)
    /\ UNCHANGED store

(* The next chain starts from the file, on an empty store. *)
NewChain ==
    /\ Running
    /\ store' = NoState
    /\ UNCHANGED <<file, everEdited>>

Next ==
    \/ InitGenesis \/ ExportGenesis \/ NewChain
    \/ \E p \in Params : UpdateParams(p)
    \/ \E p \in Params, r \in RealmParams \cup {Malformed} : EditFile(p, r)
    \/ \E v \in RealmValues : SetRealm(v)
    \/ \E v \in Domains : SetRaw("chain_domain", v)
    \/ \E v \in Addresses \cup OtherBytes : SetRaw("storage_fee_collector", v)
    \/ \E p \in Pkgs : AddPackage(p)

Spec == Init /\ [][Next]_vars

-----------------------------------------------------------------------------
(* The module's copy of the parameters is in sync with the VM's, up to the *)
(* conversion of the fee collector (genesis.go, ExportGenesis).            *)
CopiesAgree == Running => store.vmp = ToVmParams(store.modp)

(* They do agree, through any updates, exports and imports, as long as no  *)
(* operator has edited an exported file.                                   *)
UneditedCopiesAgree == ~everEdited => CopiesAgree

(* The package index lists no package twice, and the standard library      *)
(* always, over any number of exports and imports (genesis.go, "loading it *)
(* again would append a second copy").                                     *)
PackagesOnce ==
    Running => /\ \A p \in Packages : store.index[p] <= 1
               /\ \A p \in Stdlibs : store.index[p] = 1

(* A chain started from a file nobody edited has the exported store, both  *)
(* copies of the parameters and the raw keys included.                     *)
ImportRestores ==
    [][(~Running /\ Running' /\ file.state # NoState /\ ~file.edited)
         => store' = file.state]_vars
=============================================================================
