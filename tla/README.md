# Verification of the gnovm module

A TLA+ development of `x/gnovm`, the Cosmos SDK module that runs the Gno VM
inside a chain: what its keeper does with the messages, simulations and queries
it serves, checked with TLC on small instances and proved with TLAPS for every
instance. Paths below are relative to `src/`.

## 1. The system

### Components, their state and their operations

| component | state | operations | interacts with |
|---|---|---|---|
| keeper (`x/gnovm/keeper/keeper.go`) | `vmInitialized`, `VMKeeper` (the lazily built VM and its memory), `vmParams.sdkCtx` (the *shared context*), `Params` (the SDK's copy of the parameters) | `initializeVMKeeper`, `BuildGnoContext` | every message and query calls `BuildGnoContext` |
| message server (`msg_server_*.go`, `msg_update_params.go`) | none of its own | `AddPackage`, `Call`, `Run`, `UpdateParams` | VM, both parameter copies, transaction store |
| query server (`query_*.go`) | none | `Eval` (bounded or not), `Render`, `Info`, `RealmStorage`, `Params` | same keeper, at the same time as blocks |
| VM adapters (`wrapper.go`) | none: they work through the shared context | account and bank operations, parameter storage | x/auth, x/bank, the KV store |
| store wrapper (`store_wrapper.go`) | one cached KV store per request | `SetContext`, `GetStore`, `Get/Set/Delete/Iterator` | the KV store of the request's own context |
| genesis (`genesis.go`, `module.go`) | none | `InitGenesis`, `ExportGenesis` | both parameter copies, the KV store, the standard library |
| ante handler (`x/gnovm/ante`) | none | `AnteHandle` | the transaction's gas meter |
| message encoding (`types/*.pb.go`) | none | `Unmarshal`, `Marshal`, `Size` of every message, `Params.Equal` | every request, response and stored parameter set |
| query gateway (`types/query.pb.gw.go`) | none | one HTTP handler per query, filling the request from path and form | the query server |
| native bindings (`keeper/stdlibs/generated.go`) | none | convert arguments and call a native function | the native standard library |
| native standard library (`keeper/stdlibs`) | per message: frames, origin send and what is spent of it | realm lookup, banker, parameters, events | the VM adapters |
| application (`app/`) | none | wiring; optimistic execution is switched on (`app.go:145`) | baseapp, CometBFT |

The command line, the test-network commands, the simulation operations, the
embedded standard library and the vendored Gno sources keep no protocol state
and are not modelled.

### What is hard

* **One context for everybody.** The VM's bank, account and parameter adapters
  do not use the context of the call they serve; they use
  `vmKeeperParams.sdkCtx`, which each request overwrites on entry
  (`keeper.go:111`). gRPC queries and simulations are served while a block is
  executed, and optimistic execution (`app.go:145`) runs a block while the node
  is voting.
* **A lazily built VM** shared by all requests (`keeper.go:110-172`): checked and
  set without a lock, filled from the view of whoever comes first, lost at a
  restart, and kept across proposals that are never decided.
* **Two lives of a write.** Package-store writes live in the request's branch and
  are dropped with it; the transaction store is committed into the VM's memory
  by a `defer` whatever the handler returns, in simulations too.
* **Panics as errors.** The handlers recover from panics of the VM; whether the
  error reaches the SDK depends on named results.
* **Two copies of the parameters**, and a third way to set a field by its raw key.
* **Several gas meters**: the transaction's, which counts store accesses; the
  infinite one of a simulated Gno transaction (`ante.go:47`); the infinite one of
  the VM's build; the VM's own, which counts cycles, which only queries limit
  (a client may give the limit, as an unsigned number, `query_eval.go:33`) and which
  messages leave without a limit (`keeper.go:209`). The handlers' `recover` also
  catches the panic of a meter that has run out.
* **Bytes from anyone.** Decoders compute offsets from lengths in the input, in
  64-bit integers that wrap; sizes and encodings are computed independently of
  each other.
* **One store behind two keys** (`store_wrapper.go:64`): the first key that a
  request asks for decides which store serves both.

PROJECT.json lists each of these at its line as a hazard, with the properties
that watch it.

### What makes each component correct

* keeper, messages, queries: a transaction takes effect as a whole or not at
  all (`AtomicMessages`); queries and simulations leave no trace; a request pays
  for its own work only; building the VM is charged to nobody; the VM can run
  every package of the chain; a panic never succeeds; what is committed is final;
  no message blocks the chain, unless its own code never returns. A node should also
  build its VM once, which the code does not ensure (section 6).
* genesis: importing an export restores the store; both parameter copies agree
  and the VM's is valid; the standard library is in the package index once.
* bank adapter: coins are conserved, nothing is stranded, the origin-send limit
  holds over a whole message.
* native library: the realm at a height is the one that made the call.
* ante handler: the transaction's own meter reaches its messages, so that all
  they do to the stores is counted and one that goes beyond the limit ends,
  except in simulations; Gno messages run with no others; what a simulation
  reports is enough.
* queries: the answer is to what the client asked, and is paid for within the
  limit that it chose.
* encoding: a message is decoded as meant or refused, a cut one is noticed, and
  what is accepted can be written again.
* parameters and VM store: whoever reads finds what was stored last.

## 2. Modules

| module | models | built on |
|---|---|---|
| `AtomicMessages` | the abstract promise: a transaction takes effect at once and as a whole, or not at all | – |
| `GnovmKeeper` | keeper, messages, simulations, queries, blocks, restarts | instantiates `AtomicMessages` (refinement mapping `chain <- block, durable <- committed`) |
| `GnovmKeeperProofs` | theorems about `GnovmKeeper`, and that it implements `AtomicMessages` when it serves one request at a time | `GnovmKeeper`, TLAPS |
| `GnovmGenesis` | the module's part of the store over the life of chains: genesis, updates, raw keys, export, edit, import | – |
| `GnovmGenesisProofs` | theorems about `GnovmGenesis` | `GnovmGenesis`, TLAPS |
| `VmBank` | the coin operations of Gno code with their amounts, inside messages that succeed or fail | – |
| `VmBankProofs` | theorems about `VmBank` | `VmBank`, TLAPS |
| `RealmFrames` | the walk over call frames by which native functions find the current and the previous realm | – |
| `RealmFramesProofs` | theorems about `RealmFrames` | `RealmFrames`, TLAPS |
| `GnovmRequests` | gas of transactions and queries: ante chain, meters, gateway, query limits | – |
| `GnovmRequestsProofs` | theorems about `GnovmRequests` | `GnovmRequests`, TLAPS |
| `WireFormat` | varints, tags, lengths, skipping and sizes of the generated code | – |
| `GnovmMessages` | the messages: their fields, decoder, encoders and sizes | `WireFormat` |
| `GnovmWire` | a sender of messages and what it means by them | `GnovmMessages` |
| `GnovmWireProofs` | theorems about `GnovmWire`: what is decoded | `GnovmWire`, TLAPS |
| `GnovmRewriteProofs` | the theorem about what is written again | `GnovmWireProofs` |
| `ModuleStore` | parameters as realms and the VM set and read them, and the VM's entries behind the store wrapper | – |
| `ModuleStoreProofs` | theorems about `ModuleStore` | `ModuleStore`, TLAPS |
| `MCKeeper`, `MCGenesis`, `MCBank`, `MCRealmFrames`, `MCRequests`, `MCWire`, `MCModuleStore` | the instances TLC checks: symmetry sets, costs, messages and balances | each its module |

`GnovmKeeper` and `GnovmRequests` look at the same requests from two sides: in the
first they overlap and a meter is the set of requests whose work was charged to
it; in the second they come one after the other and gas is a number.

**Faulty variants.** Operators commented "Faulty variant" (`NewVMShadowed`,
`HandlerReplyNoError`, `LoadStdlibAlways` and so on) are plausible bugs of the
definition they stand before. No specification uses them. Each is there to be
put in the place of that definition, which must then violate the property that
PROJECT.json pairs it with; this is how we know the properties can fail.

### GnovmKeeper

One request is one message or query; its handler is a program with a location
`pc[r]`, and the actions are its steps.

| code | action |
|---|---|
| SDK hands the request over: `FinalizeBlock`, `Simulate`, `CreateQueryContext` | `DeliverTx`, `Simulate`, `ServeQuery` |
| checks before the keeper is touched (address codec, authority, empty path) | `Refuse` |
| `initializeVMKeeper`: `vmParams.SetSDKContext(sdkCtx)` (`keeper.go:111`) | `SetContext` |
| `if k.vmInitialized` (`keeper.go:114`) | `CheckInitialized` |
| the shared context with an infinite meter (`keeper.go:149`) | `SetInitContext` |
| `k.VMKeeper = vm.NewVMKeeper(...)` | `NewVM` |
| `k.VMKeeper.Initialize`, `vmInitialized = true`, deferred restore of the context | `LoadVM` |
| `MakeGnoTransactionStore` in `BuildGnoContext` | `BeginTransaction` |
| package JSON or coins rejected after it; a VM that is not loaded | `StopBeforeVM` |
| `vmBankKeeper.SendCoins` through the shared context | `Pay` |
| `gnovmStore.Set` through the request's own context | `Write` |
| the VM returns, the deferred function recovers or commits the transaction store, the handler answers | `VMReturn` |
| `queryEvalBounded`, `recoverQuery` and the VM's own query | `QueryReturn` |
| `UpdateParams`: VM's copy, then the module's | `SetVMParams`, `SetModuleParams` |
| the SDK writes or drops the branch | `Dispose` |
| commit, undecided optimistic proposal, restart | `CommitBlock`, `AbortBlock`, `Restart` |

A chain state (`Views`) is what the properties tell apart: which requests' store
writes and coin transfers are in it, and which message last set each copy of the
parameters. A package is present when an `AddPackage` of it is among the writes.
`sdkCtx` is a context: whose branch and meter it carries, and whether it charges
that meter. VMs are named by the request that created them, so that two builds
are two VMs; `memory` is what each can execute. The VM's steps between
`BeginTransaction` and `VMReturn` are free: any order of at most one transfer
and one write, then any outcome the message admits.

The two constants that shape behaviour: `Overlap` (are requests served at the
same time?) and `MayPanic` (for which kinds of message do panics of the VM reach
the handler's `recover`).

### GnovmGenesis

`store` is the module's store, `NoState` between chains; `file` the genesis file
at hand. `InitGenesis`, `ExportGenesis`, `UpdateParams` and `AddPackage` are
handlers of the code; `SetRaw` is a system realm's `sys/params` setter, `SetRealm`
a realm that sets a parameter of its own, `EditFile` the operator before a start,
`NewChain` the start on an empty store. The five
parameter fields fall in two classes, a string and the fee collector's bytes,
and one of each is modelled; one parameter stands for those of realms, which a
file carries in its state and may set a second time in `realm_params`. `Validate`
asks the VM which parameters are good (the constant `Valid`), and a file whose
parameters are not, or whose `realm_params` do not parse, starts no chain. `everEdited` is a history variable that the
properties read and no action does.

### VmBank

One message at a time works on its `bank`, a branch of `chain`. The actions are
the methods of `vmBankKeeper` and the native `X_banker...` functions above them.
Where the code mints, sends and then converts a balance to int64, the action has
one disjunct for each step at which it can fail, with the changes made so far in
the branch. `issued` and `removed` count what completed `IssueCoin` and
`RemoveCoin` calls did, `sent` what origin-send bankers did send: history
variables that no guard reads, except the bound of the model on `removed`.

`CanMint` is a constant because the repository has both: the application gives
the `gnovm` account no permission (`app/app_config.go:40`), so that every
`IssueCoin` panics and no realm coin ever exists, while the integration test
builds its application with the minter permission
(`tests/integration_test.go:85`). The runs use TRUE, the richer case.

### RealmFrames

`frames` is `Machine.Frames`, outermost first. The actions push and pop frames
as the Gno machine does; `crossed`, the chain of callers that those frames stand
for, is kept beside them. `CrossUndone` is a call with `cross` of a function that is
none that crosses, on which `GetRealm` panics ("did not call crossing"). `GetRealm` is the walk of
`execctx/realm.go`: `Visit` is the body of its loop and `after[i]` the loop's own
variables after the i innermost frames. `OriginBanker` and `IsOriginCall` are its
two clients in `banker.gno` and `runtime/native.go`.

### GnovmRequests

A transaction is a sequence of messages with a limit and one of the SDK's
execution modes. `SubmitTx` is what the SDK does first: a meter of the
transaction's limit, and the charges of the decorators before the module's.
`AnteHandle` is the module's decorator (`ante.go`), which refuses mixed
transactions and gives a simulated Gno transaction a new infinite meter;
`RunMsg` runs one message, building the VM first when it is the first request.
The message is charged any gas up to what it costs and then finishes, fails, or
panics because its meter has run out or the VM gave up. What the handler makes
of a panic is the code's: `Call` and `Run` fail, `AddPackage` reports success
(`dropped` remembers that), and the SDK goes on with the next message on the
same meter; a panic of another module's message ends the transaction. Gas here is the
SDK's, which store accesses consume; VM cycles of a message are on an infinite
meter and not modelled. `FinishTx` ends the transaction or records what its simulation used. `HttpGet`
fills a request from a URL the way the generated handlers do (path parameter
first, then the form through the filter), `GrpcCall` sends one as it is, and
`Serve` answers it: `EvalLimit` and `EvalUnder` are `query_eval.go` and
`query_eval_bounded.go`. `asked` keeps what the client meant, `spent` the work
done whoever was charged, `estimate` the last simulation's gas: history
variables that no handler reads.

### WireFormat, GnovmMessages, GnovmWire

Bytes are integers and a message is a record from field names to contents, a
text being its bytes. The generated `Unmarshal` methods differ only in their
fields, so there is one decoder over the table `Fields`: `FieldAt` is one pass of
its loop, `Loop` what the passes store, the first error among them and the check
behind the loop that no pass went past the end, `Unmarshal` the message that
comes of it. `Skip` takes the passes of `skipTx` until one of them ends it
(`Ended`); their number is bounded by the bytes. The encoders and sizes are
written per message, as in the code, because there one field's encoding and its
share of the size are computed in two places that could disagree. In `GnovmWire`
a sender assembles a message: `SendField` in every spelling protobuf admits, `SendForeign` a field of
a newer schema, `SendWrongType` and `SendRefused` mistakes, `SendJunk` bytes
without meaning. A coin has a denom and an amount, which `math.Int` reads from its decimal
digits and always writes, as "0" if it never was set; `NumberOf`, a constant, is
what it reads. `expect` is what the protobuf rules say of these bytes, `seen`
what they said of each shorter message.

### ModuleStore

`raw` holds parameters under their keys, as JSON of a kind or as bytes;
`module` is the set that UpdateParams stored. The getters and setters are those
of `vmKeeperParams`, with the fallbacks of `wrapper.go:181-309`; `ChainParams` and
`SysParams` are the natives of `chain/params` and `sys/params` through their
bindings, with the key that each builds and the caller that each admits: a realm
sets its own keys, the system realm those of any module and submodule.
`opened` is `gnovmMultiStore.kvStore`, `kv` and `memory` the two stores it may
have been opened on; `BeginRequest`, `SetEntry`, `DeleteEntry` and `EndRequest`
are the VM at work through either key, wrapped or not, in requests that ask for either
key first. The VM as it is asks for the module's key first; the store wrapper does not
depend on it, except that what is opened by the memory key a restart forgets. An
iterator is the listing of a range in the order of the keys, or against it. `wrote` and `saved`
record what was set: only properties read them, except the bound on raw keys and entries.

## 3. Runs, bounds and what they show

All runs are exhaustive over their instance.

| run | instance | distinct states | shows |
|---|---|---|---|
| `KeeperSerial` | 2 interchangeable transactions, 1 simulation, 1 query, 1 package, no overlap; panics in Call and Run | 1.29 M | queries and simulations leave no trace, the parameter copies stay in sync, every request pays for its own work, the VM can execute every package, no message that panicked is applied, and the keeper implements `AtomicMessages` |
| `KeeperOverlap` | 1 transaction, 1 simulation, 2 packages (one of genesis), overlap, fairness; panics in every kind of message | 0.53 M | types, store writes only from successful transactions, the build of the VM charged to nobody, committed results final, and every transaction settles unless realm code of a transaction never returns |
| `KeeperForkLeak` | 1 transaction, 1 query, overlap | violation | a query's transfer reaches the chain |
| `KeeperSilentPanic` | 1 transaction, panics in AddPackage | violation | a panicking AddPackage is applied |
| `KeeperOldView` | 1 transaction, 1 historical query, no overlap | violation | the VM is built without packages the chain has |
| `GenesisLife` | 2 interchangeable domains and 1 that the VM refuses, 2 addresses and 1 of the wrong length, 1 realm value, 1 standard and 1 user package | 1.45 M | types, valid parameters, the index lists packages once, the copies agree until an edit, import restores an export |
| `GenesisEdited` | the same | violation | an edit of the exported parameters reaches one copy only |
| `BankCoins` | 4 accounts (signer, realm, blocked pool, module), int64 from -3 to 2, 1 realm coin | 43 k | the origin-send limit and the supply |
| `RealmFrames` | 2 interchangeable realms, 1 library, call stacks of up to 5 frames | 87 k | the walk finds the realms that crossed, origin calls are direct, origin-send bankers belong to the message's package |
| `RequestGas` | transactions of up to 2 of 5 kinds of message in 6 modes with 5 limits; 2 packages and an unknown one, 3 expressions, 9 values of max_gas, 8 forms | 299 k | types, work on the own meter and within the limit but for a hidden panic, one sort of message, estimates suffice, answers to what was asked, evaluations paid for |
| `WireMessages` | all 21 messages, 2 fields each (one of them spelled unusually), or up to 3 bytes without meaning, in a word of 15 bits | 107 k | messages are decoded as meant, cuts are noticed, nothing is read outside the input, what is accepted can be written again (without coins in at most two bytes more), equal parameters are the same bytes |
| `StoreViews` | 2 realms (one the system's), 2 modules, 3 submodules, 3 names, 2 sets of parameters; 3 entries, either key asked for first; 2 raw keys or entries set at a time | 94 k | the last write is read, the VM's two readings of a field agree, what the VM stored is found through both keys and listed in order |

### The bounds, and why they are enough

* *Requests are one-shot*: a request that has settled is not sent again, except
  after `AbortBlock` and `Restart`, which may happen any number of times. Two
  transactions are what the serial properties need: one that leaves something
  behind (a package, a VM, a pending context) and one that meets it; the
  simulation and the query come before, between or after them. The theorems of
  section 5 remove the bound for most of these properties.
* *Messages are chosen at the start*, every combination of kinds being an
  initial state; with one package a second AddPackage of it and a Call of a
  package that is not there, not any more or only in memory all occur.
* *Overlap* is checked for a transaction and a simulation. A query is a
  simulation that writes nothing to the package store, and the theorems
  `WritesAreIsolated` and `InitIsNeverCharged` hold for any number of all three.
* *KeeperSerial sets `MayPanic` to Call and Run*: with AddPackage in it
  `PanicNeverApplied` and the refinement fail, which is the finding of
  `KeeperSilentPanic`. *KeeperSerial serves queries of the last height only*:
  with earlier heights `MemoryComplete` fails, which is `KeeperOldView`.
* *GenesisLife* needs no bound: with the sets given its state space is finite,
  the number of exports and imports is not limited. `AddPackage` of a package
  that the chain has is refused, so the index does not grow.
* *MaxInt64 = 2* with a native balance of 3 makes a balance that does not fit
  int64 and negative amounts; *MaxSupply = 1* limits the coins minted in a
  branch and those removed; both sides of every comparison occur.
* *MaxFrames = 5*: a shallower stack cannot hold a crossing below a plain call
  and a block below another crossing; the walk's variables carry over one frame
  only, so longer stacks repeat these patterns.

* *RequestGas*: two messages make a mixed transaction, and one that goes on behind
  a hidden panic; the limits lie below, at and above what one and
  two messages cost with the decorators' charge; max_gas takes 0, the values
  around what reading a package and evaluating need, around the VM's cap, at the
  sign bit and at the end of the word.
* *Word = 15, FieldWord = 8*: the code's 64 and 32 bits have the shape that
  matters, one bit more than whole groups of seven, a field number shorter than
  a tag leaves room for, and lengths that wrap around the sign. Three groups
  instead of ten hold a varint, so TLC reaches its last byte. Two fields are
  enough to repeat one, to reorder two and to put a foreign one between; a text
  of 130 bytes has a length of two bytes. The amounts are nothing, "0", "5", "+5"
  (read as 5 and written shorter) and texts that are no number.
* *GenesisLife*: which parameters are valid does not matter to the rest, so one
  refused domain stands for all.
* *StoreViews*: of two raw keys, one is set and the other comes after it, of any
  realm, type and name, and each may be set again without limit; Word = 2 has a
  negative int64 and a number beyond it. The submodules are the VM's own "p", a
  realm's path and the empty one; the names include one with a colon. Entries and
  raw keys share the bound of two: they share nothing but the key space of a
  store, and a listing of two is the shortest that has an order.

Deadlock is checked in every run but `WireMessages`, whose sender is done when
its message is as long as the bounds admit. `KeeperForkLeak`,
`KeeperSilentPanic`, `KeeperOldView` and `GenesisEdited` check one property each and are expected to be violated.

## 4. Fairness

Only `KeeperOverlap` assumes fairness (`FairSpec`), and only weak fairness; with
requests that overlap, in any order and with any panics:

* `Handle(r)`, the handler's own steps once it has begun: the goroutine that
  serves a request is scheduled, and nothing in the keeper waits for another
  request. What the VM does is not part of it: neither `Pay` and `Write` nor
  `VMReturn` and `QueryReturn` are forced. A message's VM context has no gas meter
  (`keeper.go:209-221`; only queries get one, `query_eval_bounded.go:46`), so realm
  code may loop for ever. `Refuse` is not forced either.
* `DeliverTx(t)`: the consensus engine goes on proposing the transactions it
  has. `DeliverTx` is disabled while another transaction is being delivered,
  never for ever.
* `CommitBlock`: a delivered block is committed, unless it is dropped.

Nothing forces queries or simulations to be sent, nor restarts or dropped
proposals to stop: `EveryTxSettles` excuses a node that restarts or drops
proposals for ever, and a chain of which some transaction's own realm code never
returns. It does not excuse a simulation or query that never ends: transactions
settle beside it. Its fault: a lock around the VM, held while it runs
(`SetContextLocked`), would let such a simulation stop the chain.

## 5. What is proved

TLAPS proves these for every value of the constants that the assumptions in the
modules admit: finite, pairwise disjoint sets of requests; `GenesisPkgs` a subset
of `Pkgs`; 20-byte addresses told apart from other byte strings; standard library
and user packages disjoint; natural genesis balances; natural costs and limits, a
VM cap within int64, texts that fit into an int with their tag and length, and forms whose values fit the fields they are parsed into;
paths of realms, libraries, the run and the user told apart; no realm whose path
is the VM's own prefix of parameters, "p"; sets of parameters with the module's five
fields and no others; an even word, and numbers for the keys of objects; valid
parameters that have 20-byte collectors, as the VM's own type has; numbers of fewer
than 128 digits, which spell themselves.

| theorem | statement | inductive invariant |
|---|---|---|
| `TypeCorrect` | `Spec => []TypeOK` | `TypeInv`: a request that loads a VM has one to load into (`LoadingHasVM`); without it `LoadVM` could write outside the domain of `memory` |
| `WritesAreIsolated` | `Spec => []WritesFromSuccessfulTxs` | `WritesInv`: one transaction is delivered at a time, and its branch holds writes of successful transactions and its own only |
| `SettledStaysFinal` | `Spec => SettledIsFinal` | `FinalInv`, with `WritesInv`: the committed state, the block's state and the branch of the transaction in progress hold the same writes of settled transactions; without it a commit could bring back or lose one |
| `PanicsAreNotApplied` | if no AddPackage panics: `Spec => []PanicNeverApplied` | `PanicInv`: a request that waits or has just entered has no outcome (an early refusal keeps the old one), and one that panicked is not to be applied |
| `InitIsNeverCharged` | `Spec => []InitNotCharged` | itself, with `TypeInv` |
| `SerialQueriesLeaveNoTrace`, `SerialParamsInSync` | with `Overlap = FALSE`: `Spec => []QueriesLeaveNoTrace`, `Spec => []ParamsInSync` | `SerialInv` (one request is active, and the shared context is its own whenever its handler uses it) and `FlowInv` (what the chain and the branch of the transaction being delivered hold of transfers and parameters) |
| `SerialOwnMeterOnly` | with `Overlap = FALSE`: `Spec => []OwnMeterOnly` | `SerialInv` and the property itself |
| `SerialImplementsAtomicMessages` | with `Overlap = FALSE` and no panic of AddPackage: `Spec => ImplementsAtomicMessages` | `SerialInv`, `WritesInv`, `FlowInv` and `DeliveryInv`: the branch of the transaction being delivered is the block's state and what its handler has done (`did`), neither more nor less; a package it stores was not there before; an AddPackage that succeeds has stored its package, a Call that succeeds found its own. Every step is then a stutter of `AtomicMessages`, but `Dispose` (`Apply`, or a stutter when the branch is dropped), `CommitBlock` (`Commit`), and `AbortBlock` and `Restart` (`Lose`) |
| `SerialMemoryComplete` | the same, and with `Historical = FALSE`: `Spec => []MemoryComplete` | `MemoryInv`: the VM in use holds every package of the block's and of the committed state; before there is one the block has stored none; what the transaction in progress stores is in its transaction store, then in the memory; a VM is built from a branch that lacks no package of the block |
| `GenesisTypeCorrect` | `Spec => []TypeOK` | itself |
| `IndexListsPackagesOnce`, `ImportRestoresStore` | `Spec => []PackagesOnce`, `Spec => ImportRestores` | `LifeInv`: an exported file holds a store whose index is right, and unless it was edited its parameters are that store's VM copy and its realm parameters that store's or none (`FileFaithful`) |
| `CopiesAgreeUntilEdited` | `Spec => []UneditedCopiesAgree` | `SyncInv`: until a first edit the copies agree in the store and in the file |
| `OriginSendsWithinLimit` | `Spec => []OriginSendWithinLimit` | `SpentInv`: what is recorded as spent is what was sent |
| `SupplyIsWhatWasIssued` | if no panic of AddPackage is swallowed: `Spec => []SupplyIsIssued` | `SupplyInv`: until an operation fails the branch's supply is what was issued in it; between messages the branch is the chain |
| `OriginCallsAreDirect` | `Spec => []OriginCallIsDirect` | `FrameInv`: the chain of callers is two longer than there are crossings on the stack beyond the first frame, and begins with the user and the realm saved above that frame; without the count a return to the first frame could find a longer chain |
| `RealmsFollowCrossings` | `Spec => []RealmsAreTheCrossings` | `StackInv`, with `FrameInv`: above a frame that crossed, the realm saved next (or running) is the member of the chain of callers that this crossing added; above one that is no call, the realm is the one below. `Walking` is the invariant of the loop in `GetRealm`: it has met a function that did not cross, or it has found the realm it looks for, or it has counted the crossings it has passed and remembers a frame that saved the realm which the next crossing below entered |
| `BankersAreTargets` | `Spec => []OriginBankersAreTheTargets` | `StackInv`: bankers belong to the second of the chain of callers; `RealmFound` turns the two calls of `GetRealm` that guard the banker into that |
| `FramesTyped` | `Spec => []TypeOK` | `FrameInv` and `StackInv` |
| `RequestTypes` | `Spec => []TypeOK` | itself |
| `MessagesOfOneSort` | `Spec => []OneSortRuns` | itself |
| `LimitHolds` | `Spec => []WithinOwnLimit` | `LimitInv`: outside simulations the meter is a finite one of the transaction's own limit that counts all that was spent, and past the limit the transaction has ended or an AddPackage hid its panic |
| `EstimatesSuffice` | `Spec => []EstimateSuffices` | `EstimateInv`: the meter shows what the decorators charged and what the messages executed so far cost (`RunInv`), so a simulation in which no panic was hidden reports the cost of all its messages, and a delivery never shows more than that (`NotOvercharged`): one that runs out has a limit below it |
| `AnswersFit`, `EvalsFit` | `Spec => []AnswersWhatWasAsked`, `Spec => []EvalIsPaidFor` | `QueryInv`: a query being served is the one that was asked and its fields fit. The lemma `GatewayMeans` carries it: whatever form a URL has, what the gateway does not refuse is what the URL means, because the filter keeps the form off the path's field |
| `LastWritesAreRead`, `FieldsAlwaysFollow` | `Spec => []LastWriteIsRead`, `Spec => []FieldsFollowUpdates` | `ParamsInv`: under each raw key lies the code of what was last set there, with a type it fits; under the VM's key lies the set that UpdateParams stored last; a field's own raw key was set by the one realm that may |
| `StoredIsAlwaysFound` | `Spec => []StoredIsFound` | `EntriesInv`: what the VM saved in requests that opened one of the stores is what lies in that one, finitely many keys. Lemmas: a finite set of numbers has an ascending listing, any such listing is the only one and holds exactly the keys of the range, and backwards it is the descending one |
| `NeverReadsOutside` | `Spec => []ReadsInside` | `WireIsBytes`: whatever was sent, with meaning or without, is bytes. For any bytes: a varint, a length, the value of an undeclared field and a pass of `skipTx` each fail with an error of the decoder or go on behind where they began (`VarintMovesOn` to `SkipMovesOn`), so the loop has an end, and a pass of it ends inside the input (`FieldMovesOn`, `LoopGathers`) |
| `EqualMeansSameBytes` | `Spec => []EqualIsSameBytes` | `ParamsHeld`: the parameters a sender has said are texts an int can measure. Lemmas: the bits of a number give the groups its varint takes, so `Sov` is the length of what `encodeVarintTx` writes (`VarintsSpell`); what is written spells that number and no other wherever it stands (`ValueMoves`, `SpellsOnce`); so two encodings that agree have the same first field and the same rest (`TextSplits`), five times |
| `MessagesDecodeAsMeant` | `Spec => []DecodesAsMeant` | `Following`: while nothing without meaning was sent, the bytes decode to the message they mean, whatever comes behind them (`Followed`), or to the error of the mistake. A piece of a message has the same meaning at any offset of any bytes (`Means`: a pass of the loop stores the same entries and goes on behind it), and a mistake the same error (`Refuses`): for each spelling of a varint and a tag (`HeadsSpelled`), each field (`FieldMeans`), unknown fields with nested groups (`ForeignFieldsMean`) and each mistake. The loop over a row of pieces stores their entries in a row (`SaidMore`, `SaidAll`), and what it stores is held as the protobuf rules mean it (`FieldIsHeld`), in messages whose fields keep their shapes (`Shaped`) |
| `CutMessagesAreNoticed` | `Spec => []CutIsNoticed` | `Following`, which says that the lengths in `seen` end with the last field, and the property itself. `Means` also says what becomes of a piece that breaks off: wherever it does, the pass fails with UnexpectedEOF (`SaidThenCut`) |
| `AcceptedCanBeRewritten` | `Spec => []AcceptedIsRewritable` | `WireIsBytes`, as for `ReadsInside`: the theorem is about any bytes. A value in the shortest varint costs no more than the bytes it was read from, an amount aside, whose digits are bounded but not by those read (`SovIsShortest`, `VarintCosts`), so each pass of the loop pays for the entry it stores (`FieldCosts`, `LoopCosts`), and a message grows by what was paid at most, whether a value replaces one, is appended or merges into an embedded message (`EmbDecodes`, `ValueIsHeld`): an accepted message is `Typed`, and without coins its size is within two bytes of what was read (`UnmarshalCosts`). A message of a size that an int holds is written field by field, and behind each field the bytes decode to the message so far (`WrittenTo`, `PartWritten`), with as many bytes as `Size` counts; `MessageParts` says so of each message's own encoder and size |

The shape of the keeper's proofs: `HandlerStep(r)` states what all steps of r's
handler have in common, the lemma `HandlerSteps` proves it once for each of
them, and the invariants treat those steps as one case. `FlowStep(r)` extends it
for the serial case with "touches no other branch". The refinement and the memory
add `DeliverySteps` on top: what each step of the handler adds to `did`, and to the
branch with it.

The hypotheses of the keeper's theorems are no conveniences: each excludes a
behaviour of the code in which the property is false. With overlap the serial
properties fail (`KeeperForkLeak`), with panics of AddPackage what succeeds has
not stored what it should (`KeeperSilentPanic`), with queries of earlier heights
the VM lacks packages (`KeeperOldView`).

Sums over messages, the loop of `GetRealm` and listings of keys are recursive
functions on an interval of numbers. So are powers of two,
the groups of a varint and the number they spell, the loop of `Unmarshal` and the size of a list. The provers apply no induction scheme, but
where a statement about all n is false there is a least n for which it is, by
the well-foundedness of the naturals (`LeastElement` in `GnovmRequestsProofs`,
`Iterations` in `RealmFramesProofs` and `GnovmWireProofs`): it is not 0, and the function's own equation carries
the statement from n - 1 to n, a contradiction. That there is a function with such an
equation, on an interval counted up or down, is proved the same way (`Forwards`,
`Backwards`).

**Model-checked only.** Liveness (`EveryTxSettles`), which needs ENABLED and
fairness. Every safety invariant and action property of the passing runs has its
theorem.

## 6. Findings

Four runs end in a violation that contradicts what the repository says of itself;
PROJECT.json quotes the lines.

1. **A query's transfer can reach the chain** (`KeeperForkLeak`). The banker of a
   query works through `vmParams.sdkCtx`, the context of whichever request set it
   last. In the trace a query sets it, a transaction overwrites it, the query's
   transfer lands in the transaction's branch and is committed with it. The
   comment at `query_eval_bounded.go:61` calls that banker safe because its
   context is a fork to be discarded. The same context carries the meter and the
   parameters, so with `Overlap = TRUE` also `OwnMeterOnly` and `ParamsInSync`
   fail. We have checked these two as well and keep one run for
   the common cause.
2. **A panicking AddPackage succeeds** (`KeeperSilentPanic`). `AddPackage` has no
   named results, so the error that its `recover` assigns goes nowhere; the
   handler returns `(nil, nil)`, and the writes made before the panic are kept.
   `Run` has the same flaw, hidden by its response type: the nil response panics
   in the marshaller and the SDK fails the transaction. `Call` names its results.
3. **A VM of an old height** (`KeeperOldView`). The first request after a restart
   builds the VM from its own view of the state. If it is a query of an earlier
   height, packages added since are missing until the next restart, and calls of
   them fail on this node only.
4. **Edited genesis parameters reach one copy** (`GenesisEdited`). `InitGenesis`
   sets the module's copy from the file and then imports the exported store,
   which holds the old copy, over it; the VM's copy is set afterwards.
Two more follow from what the first two show, and have no run of their own:

* **Two builds of the VM.** `vmInitialized` is read without a lock and set when the
  build is over (`keeper.go:114-169`), although the comment above it means "to avoid
  double initialization". Requests that arrive during the build each make a VM;
  the last assignment replaces one that is loaded and in use, which is lost with
  what was committed into it. That a node builds one VM at most is false in
  `KeeperForkLeak`'s instance. `KeeperOverlap` runs through such builds, and shows
  that they charge nobody and keep no transaction from settling.
* **Success beyond the gas limit.** The panic of a meter that has run out in a
  message of the VM is caught by the handler's own `recover`. `Call` and `Run` fail
  after it; `AddPackage` returns `(nil, nil)`, for the reason of finding 2, so the
  transaction succeeds with more gas used than its limit, and a message behind
  it starts on a meter that is past the limit. `WithinOwnLimit` says who alone gets
  beyond the limit, and how.

Seen while modelling, without a run, since no text of the repository promises
otherwise:

* An accepted message can grow when it is written again: `Params` within a message
  are written even if they were never read (`types/tx.pb.go:757`), a tag and a
  length more, and coins are written with their amount, so that a `MsgCall` of
  the two bytes 12 00 becomes 12 03 12 01 30. At the largest length an int holds the result could not be read
  back, which is why `AcceptedIsRewritable` leaves room for two bytes and asks, of
  messages with coins, for a size that is a length. The attempt to
  prove it without that failed, and TLC confirmed the case in a word of 15 bits; in one of
  64 no slice is that long.
* A field set by its raw key shadows both copies of the parameters for good:
  `wrapper.go:239` reads the raw key first (`FieldsFollowUpdates` names the one
  realm that can do it).
* Removed coins stay in the supply: `RemoveCoin` sends them to the module account
  (`wrapper.go:100`) and nothing burns them.
* The infinite meter of a simulated Gno transaction is new (`ante.go:47`), so
  what the decorators before it charged is not in the estimate;
  `EstimateSuffices` holds only with that added.
* `queryEvalBounded` reads the package before it defers its recover, so that a
  max_gas too small for the reading panics past the handler; `EvalIsPaidFor`
  says exactly when.
* `query_render.go:28` joins the arguments into one quoted text, so that two
  lists of arguments with the same joined text are one query.
* The application has no gov module, whose account is the default authority:
  until another is configured nobody can sign `MsgUpdateParams`.
* The VM counts its cycles on a meter of its own, which has no limit in
  messages (`keeper.go:209-221` gives their context no meter); what a message costs on the
  transaction's meter is its store accesses. Code that loops without touching the store
  is stopped by neither, which is why no liveness property assumes that the VM returns. Events of the VM reach no SDK event
  manager.
* The cases of `runtime/native_test.go` panic with "exec kind unspecified", which
  the test recovers and prints, so that their assertions on realms never run;
  `RealmsAreTheCrossings` covers what they meant to. For a MsgCall, `GetRealm`
  answers one height beyond the last crossing with the user again instead of
  refusing it.

## 7. What is assumed about code outside the repository

The Cosmos SDK and the Gno VM are not in the repository. What the models take
from how the code uses them:

* *Cosmos SDK.* A request works on a branch; the branch of a transaction is
  written when its message returns no error and its response can be encoded, and
  dropped otherwise; a block's transactions are delivered one at a time;
  simulations and queries get a branch of a committed state and run on their own
  goroutines, at the same time as a block; a proposal executed optimistically and
  not decided is dropped with its state; a restart repeats the undecided block.
* *Bank.* Sends fail on insufficient balance, module-to-account sends fail for
  blocked accounts, minting panics without the permission.
* *Gno VM.* `Initialize` loads what the given store holds. A transaction store
  sees the VM's memory and its own additions; committing it puts these into the
  memory. A call needs the package in the store and in memory. VM code may fail
  or panic at any point, or never return; a query turns panics into errors. A charge
  beyond the limit of the transaction's meter panics through the VM into the handler,
  unless the VM itself makes an error of it. Parameters are validated by the VM's own
  `Validate`. The VM asks for its stores by the module's key first.
* *Gno machine.* A call pushes a frame that holds the package and the realm that
  were running; a crossing call changes both; a method runs in the realm of its
  receiver; blocks push frames that are no calls. A frame called with `cross`
  usually did cross (`DidCrossing`); that it need not is what the check in
  `realm.go:30` is for.
* *Gas.* `SetUpContextDecorator` gives a transaction a meter of its limit, and
  an infinite one in simulations; a charge that exceeds the limit panics and fails the
  transaction; if an ante chain returns a zero context, the SDK goes on with the
  one from before. The Gno store charges the reading of a package to the meter it
  is given.
* *grpc-gateway.* The router calls a method's handler with the path parameter;
  a form is parsed into the fields of the request by their proto names, except
  those the filter holds; a malformed form is refused.
* *math.Int*, the amount of a coin, reads a decimal text and writes the number's
  own digits, "0" for one that was never set; no text leaves it as it is.
* *Protobuf.* Of a repeated singular field the last value counts, elements
  accumulate, embedded messages merge, unknown fields are skipped.
* *encoding/json.* A value decodes into a variable of its own kind and range and
  of no other. *Store services* return no errors. `vm.SDKParams.UpdateStrings`
  adds or removes elements of a list that it reads first.

## 8. Not modelled, and the plan

### Not modelled

* Command line, client, test network (`cmd/`, `x/gnovm/client`,
  `autocli.go`): flags, files and processes; no protocol state.
* Simulation operations (`x/gnovm/simulation`): generators that send nothing.
* Native functions without state (hashing, address and time functions, string
  conversions) and their bindings in `generated.go`; events, whose values are
  passed on; the logging bridge (`types/log.go`); the embedded library.
* Type conversions other than amounts, addresses and parameters: they rename.
* Errors of `json.Marshal` for the types that are marshalled cannot happen.
* VM cycles of messages, which no meter limits (section 6).
* Permissions of the module account are a constant of `VmBank` (section 2).
* The block's gas meter and the ante chain at height 0, which are the SDK's.
* `String`, `Descriptor` and registration in the generated code.

### Order of work

Modules were written in the order keeper, genesis, bank, frames, requests,
encoding, store: first what every message goes through. Proofs came in the same
order, invariants of one request at a time before the refinement and the loops.
What is left is to compose `VmBank` with `GnovmKeeper`'s shared context, for amounts
under overlap.
