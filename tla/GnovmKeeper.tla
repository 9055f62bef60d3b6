---------------------------- MODULE GnovmKeeper ----------------------------
(***************************************************************************)
(* The gnovm keeper inside a Cosmos SDK node: the messages AddPackage,     *)
(* Call, Run and UpdateParams, their simulations, and the queries that     *)
(* run the Gno VM, all served by ONE keeper (module.go RegisterServices).  *)
(*                                                                         *)
(* Each request works on a branch of the chain state.  Two pieces of the   *)
(* keeper are shared by all requests and are not part of any branch:       *)
(*   sdkCtx      vmKeeperParams.sdkCtx, through which every bank, account  *)
(*               and parameter operation of the VM goes;                   *)
(*   vmKeeper    the lazily built VM, whose memory holds the packages it   *)
(*               can execute.                                              *)
(*                                                                         *)
(* The Cosmos SDK (branches, blocks, restarts) and the Gno VM are not part *)
(* of the repository; they are modelled from how x/gnovm uses them.        *)
(***************************************************************************)
EXTENDS Naturals, FiniteSets

CONSTANTS
    Txs,          \* transactions, one Gno message each, that blocks deliver
    Sims,         \* simulations of such transactions (gas estimation)
    Queries,      \* Eval, Render, Info and RealmStorage queries
    Pkgs,         \* package paths
    GenesisPkgs,  \* the packages genesis stored (the standard library)
    NoReq,        \* "no request": the genesis parameters, the empty pointers
    NoPkg,        \* the package of a message that names none
    Overlap,      \* are requests served concurrently?
    Historical,   \* may a query ask for an earlier height?
    MayPanic      \* the kinds of message whose VM code panics into the handler

Reqs == Txs \cup Sims \cup Queries

VMKinds == {"AddPackage", "Call", "Run"}
Kinds   == VMKinds \cup {"UpdateParams", "Query"}

ASSUME ReqAssumption ==
    /\ IsFiniteSet(Reqs)
    /\ NoReq \notin Reqs
    /\ Txs \cap Sims = {} /\ Txs \cap Queries = {} /\ Sims \cap Queries = {}
ASSUME PkgAssumption  == GenesisPkgs \subseteq Pkgs /\ NoPkg \notin Pkgs
ASSUME FlagAssumption ==
    Overlap \in BOOLEAN /\ Historical \in BOOLEAN /\ MayPanic \subseteq VMKinds

(***************************************************************************)
(* What the SDK stores hold, as far as the properties tell apart: the      *)
(* requests whose package-store writes (new package, realm objects) and    *)
(* whose coin transfers are in, and the request that last set the VM's     *)
(* copy of the parameters (vmp, "params/vm:p") and the SDK module's copy   *)
(* (modp, Keeper.Params).                                                  *)
(***************************************************************************)
Views == [wrote : SUBSET Reqs, paid : SUBSET Reqs,
          vmp : Reqs \cup {NoReq}, modp : Reqs \cup {NoReq}]
GenesisView == [wrote |-> {}, paid |-> {}, vmp |-> NoReq, modp |-> NoReq]

Messages == [kind : {"AddPackage", "Call"}, pkg : Pkgs]
            \cup [kind : {"Run", "UpdateParams"}, pkg : {NoPkg}]
QueryMessage == [kind |-> "Query", pkg |-> NoPkg]

(* An SDK context: the request whose branch and meter it carries, and      *)
(* whether it still charges that meter (an infinite one replaces it while  *)
(* the VM is built).                                                       *)
Contexts == [owner : Reqs \cup {NoReq}, charges : BOOLEAN]
OwnCtx(r) == [owner |-> r, charges |-> TRUE]
(* Faulty variant: the build reads through the request's own meter.        *)
InitCtxCharged(r) == OwnCtx(r)
InitCtx(r) == [owner |-> r, charges |-> FALSE]
ZeroCtx == [owner |-> NoReq, charges |-> FALSE]

VARIABLES
    msg,            \* the message each request carries
    committed,      \* the chain state of the last committed block
    history,        \* the earlier committed states a node can still serve
    block,          \* the state of the block being executed
    inBlock,        \* the transactions that block has delivered
    pc,             \* where each request's handler stands
    branch,         \* the cache-wrapped state each request works on
    did,            \* what the VM did so far for each request
    outcome,        \* how the VM's execution ended: none, ok, err or panic
    reply,          \* what the handler returned: none, ok, nil or err
    meter,          \* whose work was charged to each request's gas meter
    sdkCtx,         \* vmKeeperParams.sdkCtx
    vmInitialized,  \* Keeper.vmInitialized
    vmKeeper,       \* Keeper.VMKeeper: VMs are named by the request that made them
    loaded,         \* the VMs whose Initialize has run
    memory,         \* the packages each VM holds in memory
    txVM,           \* the VM a request's transaction store was taken from
    overlay         \* the packages in that transaction store, not yet committed

chainVars == <<committed, history, block, inBlock>>
vmVars    == <<sdkCtx, vmInitialized, vmKeeper, loaded, memory>>
reqVars   == <<branch, did, outcome, reply, meter, txVM, overlay>>
vars      == <<msg, chainVars, vmVars, pc, reqVars>>

Locations == {"idle", "entered", "ctxSet", "building", "unmetered", "loading",
              "ready", "running", "paramsHalf", "replied", "done"}
Active(r) == pc[r] \notin {"idle", "done"}

(* The packages a view holds. *)
Installed(v) == GenesisPkgs \cup
    {msg[r].pkg : r \in {q \in v.wrote : msg[q].kind = "AddPackage"}}

TypeOK ==
    /\ msg \in [Reqs -> Messages \cup {QueryMessage}]
    /\ committed \in Views /\ block \in Views
    /\ history \subseteq Views
    /\ inBlock \subseteq Txs
    /\ pc \in [Reqs -> Locations]
    /\ branch \in [Reqs -> Views]
    /\ did \in [Reqs -> SUBSET {"pay", "write"}]
    /\ outcome \in [Reqs -> {"none", "ok", "err", "panic"}]
    /\ reply \in [Reqs -> {"none", "ok", "nil", "err"}]
    /\ meter \in [Reqs -> SUBSET (Reqs \cup {NoReq})]
    /\ sdkCtx \in Contexts
    /\ vmInitialized \in BOOLEAN
    /\ vmKeeper \in Reqs \cup {NoReq}
    /\ loaded \subseteq Reqs
    /\ memory \in [Reqs -> SUBSET Pkgs]
    /\ txVM \in [Reqs -> Reqs \cup {NoReq}]
    /\ overlay \in [Reqs -> SUBSET Pkgs]

-----------------------------------------------------------------------------
(* A fresh node after genesis. Genesis ran on a copy of the keeper         *)
(* (module.go InitGenesis has a value receiver), so the keeper that serves *)
(* requests has no VM yet.                                                 *)
Init ==
    /\ msg \in {m \in [Reqs -> Messages \cup {QueryMessage}] :
                  \A r \in Reqs : m[r] = QueryMessage <=> r \in Queries}
    /\ committed = GenesisView /\ block = GenesisView
    /\ history = {} /\ inBlock = {}
    /\ pc = [r \in Reqs |-> "idle"]
    /\ branch = [r \in Reqs |-> GenesisView]
    /\ did = [r \in Reqs |-> {}]
    /\ outcome = [r \in Reqs |-> "none"]
    /\ reply = [r \in Reqs |-> "none"]
    /\ meter = [r \in Reqs |-> {}]
    /\ sdkCtx = ZeroCtx
    /\ vmInitialized = FALSE
    /\ vmKeeper = NoReq
    /\ loaded = {}
    /\ memory = [r \in Reqs |-> {}]
    /\ txVM = [r \in Reqs |-> NoReq]
    /\ overlay = [r \in Reqs |-> {}]

Goto(r, from, to) == pc[r] = from /\ pc' = [pc EXCEPT ![r] = to]
Answer(r, out, rep) ==
    outcome' = [outcome EXCEPT ![r] = out] /\ reply' = [reply EXCEPT ![r] = rep]

(* The work of r, done through context c, is charged to the meter in c. *)
Charge(c, r) ==
    IF c.charges /\ c.owner \in Reqs
    THEN [meter EXCEPT ![c.owner] = @ \cup {r}]
    ELSE meter

(* A write through context c lands in the branch c carries; once the SDK   *)
(* has flushed or dropped that branch the write is lost.                   *)
WriteThrough(c, v) ==
    IF c.owner \in Reqs /\ Active(c.owner)
    THEN [branch EXCEPT ![c.owner] = v]
    ELSE branch

-----------------------------------------------------------------------------
(* The SDK hands a request to the keeper. *)

MayStart(r) == pc[r] = "idle" /\ (Overlap \/ \A q \in Reqs : ~Active(q))

Start(r, view) ==
    /\ Goto(r, "idle", "entered")
    /\ branch' = [branch EXCEPT ![r] = view]
    /\ UNCHANGED <<msg, chainVars, vmVars, did, outcome, reply, meter, txVM, overlay>>

(* The block executor delivers one transaction at a time, on the block's state. *)
DeliverTx(t) ==
    /\ t \in Txs /\ MayStart(t)
    /\ \A u \in Txs : ~Active(u)
    /\ Start(t, block)

(* Simulations and queries work on a throwaway branch of a committed state. *)
Simulate(s) == s \in Sims /\ MayStart(s) /\ Start(s, committed)

ServeQuery(q) ==
    /\ q \in Queries /\ MayStart(q)
    /\ \E view \in {committed} \cup (IF Historical THEN history ELSE {}) :
         Start(q, view)

-----------------------------------------------------------------------------
(* The handlers, up to the Gno context. *)

(* Refused before the keeper is touched: a malformed address, an empty     *)
(* query path; for UpdateParams a wrong authority or invalid parameters,   *)
(* and the zero-valued parameters, which answer ok and change nothing.     *)
Refuse(r) ==
    /\ Goto(r, "entered", "replied")
    /\ \E rep \in {"err"} \cup (IF msg[r].kind = "UpdateParams" THEN {"ok"} ELSE {}) :
         Answer(r, outcome[r], rep)
    /\ UNCHANGED <<msg, chainVars, vmVars, branch, did, meter, txVM, overlay>>

(* Faulty variant: initializeVMKeeper takes a lock that the handler keeps   *)
(* until its VM work is done.                                              *)
SetContextLocked(r) ==
    /\ \A q \in Reqs \ {r} : pc[q] \in {"idle", "entered", "replied", "done"}
    /\ Goto(r, "entered", "ctxSet")
    /\ sdkCtx' = OwnCtx(r)
    /\ UNCHANGED <<msg, chainVars, reqVars, vmInitialized, vmKeeper, loaded, memory>>
(* initializeVMKeeper, first statement. *)
SetContext(r) ==
    /\ Goto(r, "entered", "ctxSet")
    /\ sdkCtx' = OwnCtx(r)
    /\ UNCHANGED <<msg, chainVars, reqVars, vmInitialized, vmKeeper, loaded, memory>>

(* initializeVMKeeper, "check if already initialized": no lock is held. *)
NeedsVM == ~vmInitialized

CheckInitialized(r) ==
    /\ pc[r] = "ctxSet"
    /\ pc' = [pc EXCEPT ![r] = IF NeedsVM THEN "building" ELSE "ready"]
    /\ UNCHANGED <<msg, chainVars, vmVars, reqVars>>

(* The context with an infinite gas meter. *)
SetInitContext(r) ==
    /\ Goto(r, "building", "unmetered")
    /\ sdkCtx' = InitCtx(r)
    /\ UNCHANGED <<msg, chainVars, reqVars, vmInitialized, vmKeeper, loaded, memory>>

(* Faulty variant: the new VM is assigned to a local variable. *)
NewVMShadowed(r) ==
    /\ Goto(r, "unmetered", "loading")
    /\ UNCHANGED <<msg, chainVars, vmVars, reqVars>>

(* k.VMKeeper = vm.NewVMKeeper(...). *)
NewVM(r) ==
    /\ Goto(r, "unmetered", "loading")
    /\ vmKeeper' = r
    /\ loaded' = loaded \ {r}
    /\ memory' = [memory EXCEPT ![r] = {}]
    /\ UNCHANGED <<msg, chainVars, reqVars, sdkCtx, vmInitialized>>

(* Faulty variant: the deferred SetSDKContext(sdkCtx) is missing. *)
RestoredCtxMissing(r) == InitCtx(r)
RestoredCtx(r) == OwnCtx(r)

(* k.VMKeeper.Initialize reads every package through r's own multistore,   *)
(* bound to initCtx, into the VM k.VMKeeper points to by now; then         *)
(* vmInitialized is set and the deferred SetSDKContext(sdkCtx) runs.       *)
LoadVM(r) ==
    /\ Goto(r, "loading", "ready")
    /\ memory' = [memory EXCEPT ![vmKeeper] = Installed(branch[r])]
    /\ loaded' = loaded \cup {vmKeeper}
    /\ meter' = Charge(InitCtx(r), NoReq)
    /\ vmInitialized' = TRUE
    /\ sdkCtx' = RestoredCtx(r)
    /\ UNCHANGED <<msg, chainVars, branch, did, outcome, reply, txVM, overlay, vmKeeper>>

(* MakeGnoTransactionStore on the VM that k.VMKeeper points to. *)
BeginTransaction(r) ==
    /\ vmKeeper \in loaded
    /\ Goto(r, "ready", "running")
    /\ txVM' = [txVM EXCEPT ![r] = vmKeeper]
    /\ UNCHANGED <<msg, chainVars, vmVars, branch, did, outcome, reply, meter, overlay>>

(* A VM that is not loaded has no store to branch: the handler panics       *)
(* before its recover is in place.  The other way to stop here is input    *)
(* that the handler rejects after BuildGnoContext (package JSON, coins).   *)
StopBeforeVM(r) ==
    /\ Goto(r, "ready", "replied")
    /\ \/ vmKeeper \notin loaded
       \/ msg[r].kind \in VMKinds
    /\ Answer(r, outcome[r], "err")
    /\ UNCHANGED <<msg, chainVars, vmVars, branch, did, meter, txVM, overlay>>

-----------------------------------------------------------------------------
(* The VM executes (external; every step below is one the adapters of      *)
(* wrapper.go or store_wrapper.go carry out for it).                       *)

(* A coin transfer: vmBankKeeper works through the shared context. *)
Pay(r) ==
    /\ pc[r] = "running" /\ msg[r].kind # "UpdateParams" /\ "pay" \notin did[r]
    /\ LET target == sdkCtx.owner
       IN  branch' = WriteThrough(sdkCtx, [branch[target] EXCEPT !.paid = @ \cup {r}])
    /\ meter' = Charge(sdkCtx, r)
    /\ did' = [did EXCEPT ![r] = @ \cup {"pay"}]
    /\ UNCHANGED <<msg, chainVars, vmVars, pc, outcome, reply, txVM, overlay>>

(* A package the VM can run for r: stored in r's branch, and in memory. *)
Usable(r) == msg[r].pkg \in Installed(branch[r]) \cap (memory[txVM[r]] \cup overlay[r])

(* Faulty variant: the store is bound to the shared context. *)
WriteShared(r) ==
    /\ pc[r] = "running" /\ msg[r].kind \in VMKinds /\ "write" \notin did[r]
    /\ CASE msg[r].kind = "AddPackage" -> msg[r].pkg \notin Installed(branch[r])
         [] msg[r].kind = "Call"       -> Usable(r)
         [] OTHER                      -> TRUE
    /\ LET target == sdkCtx.owner
       IN  branch' = WriteThrough(sdkCtx, [branch[target] EXCEPT !.wrote = @ \cup {r}])
    /\ overlay' = [overlay EXCEPT ![r] =
                     IF msg[r].kind = "AddPackage" THEN @ \cup {msg[r].pkg} ELSE @]
    /\ meter' = Charge(OwnCtx(r), r)
    /\ did' = [did EXCEPT ![r] = @ \cup {"write"}]
    /\ UNCHANGED <<msg, chainVars, vmVars, pc, outcome, reply, txVM>>
(* Package-store writes go through the store bound to r's own context. *)
Write(r) ==
    /\ pc[r] = "running" /\ msg[r].kind \in VMKinds /\ "write" \notin did[r]
    /\ CASE msg[r].kind = "AddPackage" -> msg[r].pkg \notin Installed(branch[r])
         [] msg[r].kind = "Call"       -> Usable(r)
         [] OTHER                      -> TRUE
    /\ branch' = [branch EXCEPT ![r].wrote = @ \cup {r}]
    /\ overlay' = [overlay EXCEPT ![r] =
                     IF msg[r].kind = "AddPackage" THEN @ \cup {msg[r].pkg} ELSE @]
    /\ meter' = Charge(OwnCtx(r), r)
    /\ did' = [did EXCEPT ![r] = @ \cup {"write"}]
    /\ UNCHANGED <<msg, chainVars, vmVars, pc, outcome, reply, txVM>>

(* Faulty variant: no recover sets an error. *)
HandlerReplyNoError(kind, out) == IF out = "err" THEN "err" ELSE "ok"
(* What the handler returns for what the VM did.  Call names its results,  *)
(* so the error its recover assigns is returned; AddPackage and Run do not *)
(* and return (nil, nil) after a panic.                                    *)
HandlerReply(kind, out) ==
    CASE out = "ok"  -> "ok"
      [] out = "err" -> "err"
      [] OTHER       -> IF kind \in {"AddPackage", "Run"} THEN "nil" ELSE "err"

(* The execution ends well: an AddPackage has stored its package, a Call   *)
(* has found the one it calls.                                             *)
EndsOk(r) ==
    CASE msg[r].kind = "AddPackage" -> "write" \in did[r]
      [] msg[r].kind = "Call"       -> Usable(r)
      [] OTHER                      -> TRUE

(* A call of a package the VM does not know panics too. *)
Panics(r) ==
    \/ msg[r].kind \in MayPanic
    \/ msg[r].kind = "Call" /\ ~Usable(r)

(* The deferred function: unless the VM panicked, the transaction store is *)
(* committed into the memory of its VM, whatever the error, and in a       *)
(* simulation as in a block.                                               *)
(* Faulty variant: the commit is forgotten.                                *)
CommitTransactionForgotten(r, out) == memory
CommitTransaction(r, out) ==
    IF out # "panic"
    THEN [memory EXCEPT ![txVM[r]] = @ \cup overlay[r]]
    ELSE memory

VMReturn(r) ==
    /\ msg[r].kind \in VMKinds
    /\ Goto(r, "running", "replied")
    /\ \E out \in {"ok", "err", "panic"} :
         /\ out = "ok" => EndsOk(r)
         /\ out = "panic" => Panics(r)
         /\ Answer(r, out, HandlerReply(msg[r].kind, out))
         /\ memory' = CommitTransaction(r, out)
    /\ UNCHANGED <<msg, chainVars, sdkCtx, vmInitialized, vmKeeper, loaded,
                   branch, did, meter, txVM, overlay>>

(* A query, under the VM's gas limit or the caller's: its transaction      *)
(* store is "throwaway (never committed)", and recoverQuery, or the VM's   *)
(* own recover, turns a panic into an error.                               *)
QueryReturn(r) ==
    /\ msg[r].kind = "Query"
    /\ Goto(r, "running", "replied")
    /\ \/ Answer(r, "ok", "ok")
       \/ Answer(r, "err", "err")
       \/ Answer(r, "panic", "err")
    /\ UNCHANGED <<msg, chainVars, vmVars, branch, did, meter, txVM, overlay>>

(* UpdateParams, first half: VMKeeper.SetParams stores the VM's copy       *)
(* through the shared context, or returns an error.                        *)
SetVMParams(r) ==
    /\ msg[r].kind = "UpdateParams"
    /\ \/ /\ Goto(r, "running", "paramsHalf")
          /\ LET target == sdkCtx.owner
             IN  branch' = WriteThrough(sdkCtx, [branch[target] EXCEPT !.vmp = r])
          /\ meter' = Charge(sdkCtx, r)
          /\ did' = [did EXCEPT ![r] = @ \cup {"write"}]
          /\ UNCHANGED <<outcome, reply>>
       \/ /\ Goto(r, "running", "replied")
          /\ Answer(r, "err", "err")
          /\ UNCHANGED <<branch, meter, did>>
    /\ UNCHANGED <<msg, chainVars, vmVars, txVM, overlay>>

(* Second half: "duplicate to SDK module state", through the request's own *)
(* context; if that fails the message fails.                               *)
(* Faulty variant: the duplicate is forgotten.                             *)
SetModuleParamsForgotten(r) ==
    /\ Goto(r, "paramsHalf", "replied")
    /\ Answer(r, "ok", "ok")
    /\ UNCHANGED <<msg, chainVars, vmVars, branch, meter, did, txVM, overlay>>
SetModuleParams(r) ==
    /\ Goto(r, "paramsHalf", "replied")
    /\ \/ /\ branch' = [branch EXCEPT ![r].modp = r]
          /\ meter' = Charge(OwnCtx(r), r)
          /\ Answer(r, "ok", "ok")
       \/ Answer(r, "err", "err") /\ UNCHANGED <<branch, meter>>
    /\ UNCHANGED <<msg, chainVars, vmVars, did, txVM, overlay>>

-----------------------------------------------------------------------------
(* The SDK takes the answer. *)

(* A message succeeds when its handler returns no error and its response   *)
(* can be encoded: the nil response of AddPackage encodes to nothing, the  *)
(* nil response of Run is dereferenced by its marshaller, which panics.    *)
(* Faulty variant: a failed transaction is applied.                        *)
AppliedAlways(r) == r \in Txs
Applied(r) ==
    /\ r \in Txs
    /\ \/ reply[r] = "ok"
       \/ reply[r] = "nil" /\ msg[r].kind = "AddPackage"

(* Faulty variant: every branch is written, whatever the handler said. *)
NextBlockUnchecked(r) == branch[r]
(* The branch of a successful transaction is written to the block's state; *)
(* every other branch is dropped, and with it the request's bookkeeping.   *)
NextBlock(r) == IF Applied(r) THEN branch[r] ELSE block

Dispose(r) ==
    /\ Goto(r, "replied", "done")
    /\ block' = NextBlock(r)
    /\ inBlock' = IF r \in Txs THEN inBlock \cup {r} ELSE inBlock
    /\ branch' = [branch EXCEPT ![r] = GenesisView]
    /\ overlay' = [overlay EXCEPT ![r] = {}]
    /\ txVM' = [txVM EXCEPT ![r] = NoReq]
    /\ did' = [did EXCEPT ![r] = {}]
    /\ meter' = [meter EXCEPT ![r] = {}]
    /\ IF r \in Txs THEN UNCHANGED <<outcome, reply>> ELSE Answer(r, "none", "none")
    /\ UNCHANGED <<msg, committed, history, vmVars>>

CommitBlock ==
    /\ inBlock # {} /\ \A t \in Txs : ~Active(t)
    /\ committed' = block
    /\ history' = history \cup {committed}
    /\ inBlock' = {}
    /\ UNCHANGED <<msg, block, vmVars, pc, reqVars>>

(* Forget the requests in R: they may be sent, or delivered, again. *)
Forget(R) ==
    /\ pc' = [r \in Reqs |-> IF r \in R THEN "idle" ELSE pc[r]]
    /\ branch' = [r \in Reqs |-> IF r \in R THEN GenesisView ELSE branch[r]]
    /\ did' = [r \in Reqs |-> IF r \in R THEN {} ELSE did[r]]
    /\ outcome' = [r \in Reqs |-> IF r \in R THEN "none" ELSE outcome[r]]
    /\ reply' = [r \in Reqs |-> IF r \in R THEN "none" ELSE reply[r]]
    /\ meter' = [r \in Reqs |-> IF r \in R THEN {} ELSE meter[r]]
    /\ txVM' = [r \in Reqs |-> IF r \in R THEN NoReq ELSE txVM[r]]
    /\ overlay' = [r \in Reqs |-> IF r \in R THEN {} ELSE overlay[r]]

(* Optimistic execution (app.go) ran a proposal that was not decided: its  *)
(* state is dropped; the VM's memory is not part of it.                    *)
AbortBlock ==
    /\ inBlock # {} /\ \A t \in Txs : ~Active(t)
    /\ block' = committed
    /\ inBlock' = {}
    /\ Forget(inBlock)
    /\ UNCHANGED <<msg, committed, history, vmVars>>

(* The node restarts: memory is gone, the block is delivered again. *)
(* Faulty variant: committed blocks are delivered again as well.    *)
LostByRestartAll == Reqs
LostByRestart == {r \in Reqs : Active(r)} \cup inBlock

Restart ==
    /\ block' = committed
    /\ inBlock' = {}
    /\ Forget(LostByRestart)
    /\ sdkCtx' = ZeroCtx
    /\ vmInitialized' = FALSE
    /\ vmKeeper' = NoReq
    /\ loaded' = {}
    /\ memory' = [r \in Reqs |-> {}]
    /\ UNCHANGED <<msg, committed, history>>

-----------------------------------------------------------------------------
(* The handler's own steps: everything but what the VM does. *)
Handle(r) ==
    \/ SetContext(r) \/ CheckInitialized(r) \/ SetInitContext(r) \/ NewVM(r)
    \/ LoadVM(r) \/ BeginTransaction(r) \/ StopBeforeVM(r)
    \/ SetVMParams(r) \/ SetModuleParams(r) \/ Dispose(r)

Next ==
    \/ \E r \in Reqs :
         \/ DeliverTx(r) \/ Simulate(r) \/ ServeQuery(r)
         \/ Refuse(r) \/ Pay(r) \/ Write(r)
         \/ VMReturn(r) \/ QueryReturn(r) \/ Handle(r)
    \/ CommitBlock \/ AbortBlock \/ Restart

Spec == Init /\ [][Next]_vars
(* The server goroutines run, the consensus engine keeps proposing the     *)
(* transactions it has and committing blocks. Nothing forces a query or a  *)
(* simulation to be sent, nor the VM to do anything or to return: the      *)
(* context BuildGnoContext gives a message has no VM gas meter             *)
(* (keeper.go:209-221), so realm code that loops keeps its request.        *)
Fairness ==
    /\ \A r \in Reqs : WF_vars(Handle(r))
    /\ \A t \in Txs : WF_vars(DeliverTx(t))
    /\ WF_vars(CommitBlock)

FairSpec == Spec /\ Fairness

-----------------------------------------------------------------------------
(* Properties. *)

Settled(t) == t \in Txs /\ pc[t] = "done" /\ t \notin inBlock
Succeeded  == {t \in Txs : pc[t] = "done" /\ Applied(t)}

(* Package-store writes reach the chain only from transactions whose       *)
(* handler succeeded, whatever the interleaving: a simulation, a query and *)
(* a failed or replayed transaction leave none (store_wrapper.go binds a   *)
(* store to the context of its own request).                               *)
WritesFromSuccessfulTxs ==
    /\ block.wrote \subseteq Succeeded
    /\ committed.wrote \subseteq {t \in Succeeded : Settled(t)}

(* Coins move and VM parameters change on the chain only for transactions  *)
(* whose handler succeeded: a query works on a fork to be discarded        *)
(* (query_eval_bounded.go) and so does a simulation.                       *)
QueriesLeaveNoTrace ==
    \A v \in {block, committed} :
        /\ v.paid \subseteq Succeeded
        /\ v.vmp \in Succeeded \cup {NoReq}

(* The VM's copy of the parameters and the SDK module's copy were set by   *)
(* the same message (genesis.go, ExportGenesis, relies on it).             *)
ParamsInSync == \A v \in {block, committed} : v.vmp = v.modp

(* A request's gas meter is charged for that request's work only, and for  *)
(* all its coin transfers (keeper.go: "the tx's own meter is restored").   *)
OwnMeterOnly ==
    \A r \in Reqs : meter[r] \subseteq {r} /\ ("pay" \in did[r] => r \in meter[r])

(* Building the VM is charged to nobody: the gas of a transaction does not *)
(* depend on which node executes it (init_gas_test.go).                    *)
InitNotCharged == \A r \in Reqs : NoReq \notin meter[r]

(* Every package of the block's state can be executed by the VM that the   *)
(* next transaction will use: building it re-reads every stored package,   *)
(* and later packages are committed into its memory.                       *)
MemoryComplete == vmInitialized => Installed(block) \subseteq memory[vmKeeper]

(* A message during which the VM panicked is never applied to the chain.   *)
PanicNeverApplied == \A t \in Succeeded : outcome[t] # "panic"

(* What a committed transaction did to the package store, and the answer   *)
(* it got, is final: restarts and abandoned proposals do not touch it.     *)
SettledIsFinal ==
    [][\A t \in Txs : Settled(t) =>
         /\ Settled(t)'
         /\ reply'[t] = reply[t]
         /\ t \in committed'.wrote <=> t \in committed.wrote]_vars

(* Every transaction is eventually part of a committed block, unless the   *)
(* node keeps restarting or dropping proposals, or a transaction's own     *)
(* realm code never returns: no message, refused, failed or panicking, and *)
(* no simulation, even one that never ends, blocks the chain or the VM.    *)
EveryTxSettles ==
    \A t \in Txs :
        \/ <>Settled(t)
        \/ []<><<Restart \/ AbortBlock>>_vars
        \/ \E u \in Txs : <>[](pc[u] = "running")

(* The keeper implements the atomic messages. *)
Atomic == INSTANCE AtomicMessages WITH chain <- block, durable <- committed
ImplementsAtomicMessages == Atomic!AbsSpec
=============================================================================
