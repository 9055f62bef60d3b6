--------------------------- MODULE GnovmRequests ---------------------------
(***************************************************************************)
(* How requests enter the gnovm module and who pays for them.              *)
(*                                                                         *)
(* A transaction passes the application's ante chain, whose last decorator *)
(* is the module's own (x/gnovm/ante), and only then do its messages run.  *)
(* A query enters through the HTTP gateway or as a gRPC call and is served *)
(* by the query server under a gas limit of its own.  Both may be the      *)
(* first request since the node started, and then build the VM.            *)
(*                                                                         *)
(* GnovmKeeper has what the messages do to the store and how requests      *)
(* interleave; here one request is served after the other and what counts  *)
(* is gas: which meter is charged, by whom, and what the answer is.        *)
(*                                                                         *)
(* The gas of a transaction is what the SDK charges for its decorators and *)
(* for its work on the stores.  The VM counts its own cycles on the meter  *)
(* of the context that BuildGnoContext makes, which has no limit.          *)
(***************************************************************************)
EXTENDS Integers, Sequences

CONSTANTS
    Packages,     \* paths of the packages of the chain
    Unknown,      \* a package path of no package
    Exprs,        \* expressions a query evaluates
    Panicking,    \* those of them that panic in the VM
    Load,         \* Load[p]: VM gas of reading package p from the store
    Need,         \* Need[e]: VM gas of evaluating e
    RenderNeed,   \* VM gas of a realm's Render
    Cost,         \* Cost[t]: SDK gas of a message of type t that gets to its end
    AnteCost,     \* SDK gas charged by the decorators before the module's
    BuildCost,    \* SDK gas the build of the VM reads for
    VMCap,        \* vmMaxGasQuery
    Word,         \* one more than the largest uint64
    Limits,       \* gas limits of transactions
    MaxGases,     \* values of max_gas
    Forms,        \* form parameters of a URL, as records from names to values
    MaxMsgs       \* messages in a transaction

GnoMsgs == {"Run", "AddPackage", "Call"}
MsgTypes == GnoMsgs \union {"UpdateParams", "Send"}
Paths == Packages \union {Unknown}

ASSUME GasAssumption ==
    /\ Cost \in [MsgTypes -> Nat]
    /\ Load \in [Packages -> Nat] /\ Need \in [Exprs -> Nat] /\ RenderNeed \in Nat
    /\ AnteCost \in Nat /\ BuildCost \in Nat /\ MaxMsgs \in Nat
    /\ Limits \subseteq Nat
    /\ Word \in Nat /\ VMCap \in Nat /\ 2 * VMCap < Word
    /\ MaxGases \subseteq 0 .. Word - 1

ASSUME NameAssumption ==
    /\ Unknown \notin Packages /\ "" \notin Paths
    /\ Panicking \subseteq Exprs /\ "" \notin Exprs

(* What the gateway's library parses a form into fits the fields. *)
ASSUME FormAssumption ==
    \A form \in Forms :
        /\ "expr" \in DOMAIN form => form["expr"] \in Exprs \union {""}
        /\ "max_gas" \in DOMAIN form => form["max_gas"] \in 0 .. Word - 1

VARIABLES
    built,      \* Keeper.vmInitialized
    stage,      \* "idle", "ante", "msgs", "query" or "done"
    tx,         \* the transaction being executed, or executed last
    todo,       \* its messages still to execute
    meter,      \* the gas meter of its context
    spent,      \* gas of the work done for it, whoever was charged
    dropped,    \* did an AddPackage of it panic and report success?
    outcome,    \* of the last transaction
    estimate,   \* what the last successful simulation reported
    asked,      \* the query as its client meant it
    query,      \* the query as it reached the server
    reply       \* to the last query

txVars == <<tx, todo, meter, spent, dropped, outcome>>
queryVars == <<asked, query, reply>>
vars == <<built, stage, txVars, estimate, queryVars>>

-----------------------------------------------------------------------------
(* Gas meters of the SDK. *)

NewGasMeter(limit) == [infinite |-> FALSE, limit |-> limit, used |-> 0]
NewInfiniteGasMeter == [infinite |-> TRUE, limit |-> 0, used |-> 0]
ConsumeGas(m, gas) == [m EXCEPT !.used = @ + gas]
OutOfGas(m) == ~m.infinite /\ m.used > m.limit

Meters == [infinite : BOOLEAN, limit : Nat, used : Nat]

(* ExecModes of the SDK: the ante chain runs in all of them, messages in   *)
(* the last two.                                                           *)
Modes == {"Check", "ReCheck", "Prepare", "Process", "Simulate", "Finalize"}
RunsMsgs == {"Simulate", "Finalize"}

Txs == [msgs : UNION {[1 .. n -> MsgTypes] : n \in 1 .. MaxMsgs},
        limit : Limits, mode : Modes]

NoTx == [msgs |-> <<>>, limit |-> 0, mode |-> "Check"]
NoEstimate == [msgs |-> <<>>, gas |-> 0, whole |-> TRUE]

Methods == {"Params", "Info", "RealmStorage", "Eval", "Render"}

(* A query's request, with the fields of every method's message; each      *)
(* method looks at its own.                                                *)
Request(method) ==
    [method |-> method, pkg_path |-> "", expr |-> "", max_gas |-> 0, args |-> <<>>]

NoQuery == Request("")
Refused == Request("InvalidArgument")
NoReply == [code |-> "none", value |-> <<>>]

(* Faulty variant: MsgRun is not known to the decorator. *)
IsGnoButRun(t) == t \in {"AddPackage", "Call"}

IsGno(t) == t \in GnoMsgs

(* What the decorator counts in a list of messages. *)
HasGno(msgs) == \E i \in DOMAIN msgs : IsGno(msgs[i])
HasOther(msgs) == \E i \in DOMAIN msgs : ~IsGno(msgs[i])
Mixed(msgs) == HasGno(msgs) /\ HasOther(msgs)

(* Faulty variant: the messages of another module get a zero context, which *)
(* has no meter.                                                           *)
AnteMeterZero(t, m) == IF HasGno(t.msgs) THEN m ELSE <<>>

(* Faulty variant: next gets a zero context for other messages, so the SDK *)
(* goes on with the context from before the chain, which has no limit.     *)
AnteMeterLost(t, m) ==
    IF HasGno(t.msgs) /\ t.mode # "Simulate" THEN m ELSE NewInfiniteGasMeter

(* The meter of the context the module's decorator passes on: its own      *)
(* infinite meter for a simulation of Gno messages.                        *)
AnteMeter(t, m) ==
    IF HasGno(t.msgs) /\ t.mode = "Simulate" THEN NewInfiniteGasMeter ELSE m

(* Faulty variant: the build reads through the tx's own meter. *)
InitializeVMCharged(m) == IF built THEN m ELSE ConsumeGas(m, BuildCost)

(* The tx's meter after initializeVMKeeper: the build reads through an     *)
(* infinite meter that is thrown away.                                     *)
InitializeVM(m) == m

-----------------------------------------------------------------------------
(* Transactions. *)

(* SetUpContextDecorator, first in the chain, gives a transaction its own  *)
(* meter (none for a simulation); the decorators up to the module's charge *)
(* it or refuse the transaction.                                           *)
SubmitTx ==
    /\ stage = "idle"
    /\ \E t \in Txs, accepted \in BOOLEAN :
         LET m == ConsumeGas(IF t.mode = "Simulate" THEN NewInfiniteGasMeter
                             ELSE NewGasMeter(t.limit), AnteCost)
         IN /\ tx' = t
            /\ todo' = <<>>
            /\ meter' = m
            /\ spent' = AnteCost
            /\ dropped' = FALSE
            /\ IF accepted /\ ~OutOfGas(m)
               THEN stage' = "ante" /\ outcome' = "pending"
               ELSE stage' = "done" /\ outcome' = "refused"
    /\ UNCHANGED <<built, estimate, queryVars>>

(* The module's decorator, last in the chain.  It refuses a mixed          *)
(* transaction before it touches the meter.                                *)
AnteHandle ==
    /\ stage = "ante"
    /\ IF Mixed(tx.msgs)
       THEN /\ stage' = "done" /\ outcome' = "refused"
            /\ UNCHANGED <<meter, todo>>
       ELSE /\ meter' = AnteMeter(tx, meter)
            /\ IF tx.mode \in RunsMsgs
               THEN stage' = "msgs" /\ todo' = tx.msgs /\ UNCHANGED outcome
               ELSE stage' = "done" /\ outcome' = "accepted" /\ UNCHANGED todo
    /\ UNCHANGED <<built, tx, spent, dropped, estimate, queryVars>>

(* The message is done, its handler having returned no error: the next is  *)
(* begun, wherever the meter stands.                                       *)
GoesOn ==
    /\ todo' = Tail(todo)
    /\ UNCHANGED <<stage, outcome>>

EndsTx(result) ==
    /\ stage' = "done" /\ outcome' = result
    /\ UNCHANGED todo

(* A message runs until it is done, fails for a reason of its own, or is   *)
(* charged past the limit of the meter, which panics.  One that needs the  *)
(* VM builds it first, if the node has none (an UpdateParams of nothing    *)
(* does not).  The handlers of the Gno messages recover: Call and Run then *)
(* fail, AddPackage reports success, unless the VM itself had made an      *)
(* error of the panic.  Any other panic is recovered by the SDK.           *)
RunMsg ==
    /\ stage = "msgs" /\ todo # <<>>
    /\ \E gas \in 0 .. Cost[Head(todo)] :
         LET t     == Head(todo)
             toVM  == IsGno(t) \/ t = "UpdateParams"
             after == ConsumeGas(IF toVM THEN InitializeVM(meter) ELSE meter, gas)
             over  == gas > 0 /\ OutOfGas(after)
         IN /\ meter' = after
            /\ spent' = spent + gas
            /\ built' \in {built, built \/ toVM}
            /\ \/ ~over /\ gas = Cost[t] /\ GoesOn /\ UNCHANGED dropped
               \/ t = "AddPackage" /\ GoesOn /\ dropped' = TRUE
               \/ (over => IsGno(t)) /\ EndsTx("failed") /\ UNCHANGED dropped
               \/ over /\ ~IsGno(t) /\ EndsTx("out of gas") /\ UNCHANGED dropped
    /\ UNCHANGED <<tx, estimate, queryVars>>

(* All messages ran.  The gas used that the response reports is what the   *)
(* meter shows; a client takes it for the limit of the transaction.        *)
FinishTx ==
    /\ stage = "msgs" /\ todo = <<>>
    /\ stage' = "done"
    /\ outcome' = "ok"
    /\ estimate' = IF tx.mode = "Simulate"
                   THEN [msgs |-> tx.msgs, gas |-> meter.used, whole |-> ~dropped]
                   ELSE estimate
    /\ UNCHANGED <<built, tx, todo, meter, spent, dropped, queryVars>>

(* The client has its reply; a request has nothing of the one before it.   *)
Forget ==
    /\ stage' = "idle"
    /\ tx' = NoTx /\ todo' = <<>> /\ outcome' = "none"
    /\ meter' = NewInfiniteGasMeter /\ spent' = 0 /\ dropped' = FALSE
    /\ asked' = NoQuery /\ query' = NoQuery /\ reply' = NoReply
    /\ UNCHANGED estimate

TakeReply ==
    /\ stage = "done"
    /\ Forget
    /\ UNCHANGED built

(* The node restarts: the VM is gone, and the request in service with it.  *)
Restart ==
    /\ built' = FALSE
    /\ Forget

-----------------------------------------------------------------------------
(* Queries. *)

(* The form parameters a message has fields for. *)
FormFields == [Eval |-> {"pkg_path", "expr", "max_gas"}, Render |-> {"pkg_path", "args"}]

(* Faulty variant: nothing is filtered. *)
NoFilter == {}

(* filter_Query_Eval_0, filter_Query_Render_0: what the path has given.    *)
Filter == {"pkg_path"}

(* A request's path parameter, which the router takes from the URL. *)
FromPath(method, url) ==
    IF "pkg_path" \in DOMAIN url.params
    THEN [Request(method) EXCEPT !.pkg_path = url.params["pkg_path"]]
    ELSE Refused

(* req.ParseForm and PopulateQueryParameters: a form that does not parse   *)
(* refuses the request; other parameters fill the message's fields.        *)
FromForm(r, url) ==
    IF r = Refused \/ "malformed" \in DOMAIN url.form THEN Refused
    ELSE LET filled == (FormFields[r.method] \ Filter) \intersect DOMAIN url.form
         IN [f \in DOMAIN r |-> IF f \in filled THEN url.form[f] ELSE r[f]]

ParamsRequest(url) == Request("Params")
InfoRequest(url) == FromPath("Info", url)
RealmStorageRequest(url) == FromPath("RealmStorage", url)
EvalRequest(url) == FromForm(FromPath("Eval", url), url)
RenderRequest(url) == FromForm(FromPath("Render", url), url)

(* request_Query_*_0 and local_request_Query_*_0, by the URL's method. *)
GatewayRequest(url) ==
    CASE url.method = "Params"       -> ParamsRequest(url)
      [] url.method = "Info"         -> InfoRequest(url)
      [] url.method = "RealmStorage" -> RealmStorageRequest(url)
      [] url.method = "Eval"         -> EvalRequest(url)
      [] url.method = "Render"       -> RenderRequest(url)

(* What a URL means: the package its path names and the parameters of its  *)
(* form, those that repeat the path's aside.                               *)
Meant(url) ==
    [method   |-> url.method,
     pkg_path |-> IF url.method = "Params" THEN "" ELSE url.params["pkg_path"],
     expr     |-> IF url.method = "Eval" /\ "expr" \in DOMAIN url.form
                  THEN url.form["expr"] ELSE "",
     max_gas  |-> IF url.method = "Eval" /\ "max_gas" \in DOMAIN url.form
                  THEN url.form["max_gas"] ELSE 0,
     args     |-> IF url.method = "Render" /\ "args" \in DOMAIN url.form
                  THEN url.form["args"] ELSE <<>>]

(* The router gives every method but Params its path, empty or not. *)
Urls ==
    [method : {"Params"}, params : {<<>>}, form : Forms]
    \union [method : Methods \ {"Params"},
            params : {[pkg_path |-> p] : p \in Paths \union {""}}, form : Forms]

GrpcRequests ==
    {Request("Params")}
    \union [method : {"Info", "RealmStorage", "Render"}, pkg_path : Paths \union {""},
            expr : {""}, max_gas : {0}, args : {<<>>}]
    \union [method : {"Eval"}, pkg_path : Paths \union {""},
            expr : Exprs \union {""}, max_gas : MaxGases, args : {<<>>}]

HttpGet ==
    /\ stage = "idle"
    /\ \E url \in Urls :
         LET r == GatewayRequest(url)
         IN /\ asked' = Meant(url)
            /\ query' = r
            /\ IF r = Refused
               THEN stage' = "done" /\ reply' = [code |-> "InvalidArgument", value |-> <<>>]
               ELSE stage' = "query" /\ reply' = NoReply
    /\ UNCHANGED <<built, txVars, estimate>>

GrpcCall ==
    /\ stage = "idle"
    /\ \E r \in GrpcRequests : asked' = r /\ query' = r
    /\ stage' = "query"
    /\ reply' = NoReply
    /\ UNCHANGED <<built, txVars, estimate>>

(* int64(x) of a uint64 *)
Int64(x) == IF 2 * x < Word THEN x ELSE x - Word

(* Evaluates e (needing g) in package p under a VM gas meter of its own:   *)
(* vm.VMKeeper.QueryEval, and queryEvalBounded which repeats it line for   *)
(* line.  The package is read before the recover is deferred, so what      *)
(* panics until then escapes; afterwards it becomes an error.              *)
EvalUnder(limit, p, e, g) ==
    CASE limit < 0                      -> "panic"
      [] limit >= 0 /\ p \notin Packages -> "error"
      [] limit >= 0 /\ p \in Packages    ->
           IF Load[p] > limit THEN "panic"
           ELSE IF Load[p] + g > limit \/ e \in Panicking THEN "error"
           ELSE "ok"

(* Faulty variant: a client may choose a higher limit than the VM's. *)
EvalLimitUncapped(r) == IF r.max_gas > 0 THEN Int64(r.max_gas) ELSE VMCap

(* The gas limit an Eval runs under: max_gas lowers the VM's cap, and      *)
(* never raises it.                                                        *)
EvalLimit(r) == IF r.max_gas > 0 /\ r.max_gas < VMCap THEN Int64(r.max_gas) ELSE VMCap

Answer(code, value) == [code |-> code, value |-> IF code = "ok" THEN value ELSE <<>>]

(* What a handler of the query server may answer (some depend on what is   *)
(* stored); all but Params refuse an empty path before they build the VM.  *)
ParamsQuery(r) == {Answer(c, <<"params">>) : c \in {"ok", "NotFound", "Internal"}}

InfoQuery(r) == {Answer(IF r.pkg_path \in Packages THEN "ok" ELSE "error", <<r.pkg_path>>)}

RealmStorageQuery(r) ==
    {Answer(IF r.pkg_path \in Packages THEN "ok" ELSE "error", <<r.pkg_path>>)}

EvalQuery(r) ==
    IF r.expr = "" THEN {Answer("InvalidArgument", <<>>)}
    ELSE {Answer(EvalUnder(EvalLimit(r), r.pkg_path, r.expr, Need[r.expr]),
                 <<r.pkg_path, r.expr>>)}

RenderQuery(r) ==
    {Answer(EvalUnder(VMCap, r.pkg_path, "Render", RenderNeed), <<r.pkg_path, r.args>>)}

Answers(r) ==
    CASE r.method = "Params"       -> ParamsQuery(r)
      [] r.method = "Info"         -> InfoQuery(r)
      [] r.method = "RealmStorage" -> RealmStorageQuery(r)
      [] r.method = "Eval"         -> EvalQuery(r)
      [] r.method = "Render"       -> RenderQuery(r)

EmptyPath(r) == r.method # "Params" /\ r.pkg_path = ""

(* Whether serving r comes to BuildGnoContext. *)
NeedsVM(r) == ~EmptyPath(r) /\ r.method # "Params" /\ ~(r.method = "Eval" /\ r.expr = "")

Serve ==
    /\ stage = "query"
    /\ stage' = "done"
    /\ IF EmptyPath(query)
       THEN reply' = Answer("InvalidArgument", <<>>)
       ELSE reply' \in Answers(query)
    /\ built' = (built \/ NeedsVM(query))
    /\ UNCHANGED <<txVars, estimate, asked, query>>

-----------------------------------------------------------------------------
Init ==
    /\ built = FALSE
    /\ stage = "idle"
    /\ tx = NoTx /\ todo = <<>> /\ outcome = "none"
    /\ meter = NewInfiniteGasMeter /\ spent = 0 /\ dropped = FALSE
    /\ estimate = NoEstimate
    /\ asked = NoQuery /\ query = NoQuery /\ reply = NoReply

Next ==
    \/ SubmitTx \/ AnteHandle \/ RunMsg \/ FinishTx
    \/ HttpGet \/ GrpcCall \/ Serve
    \/ TakeReply \/ Restart

Spec == Init /\ [][Next]_vars

-----------------------------------------------------------------------------
(* Stages, meters and outcomes are what the code's types allow. *)
TypeOK ==
    /\ built \in BOOLEAN
    /\ stage \in {"idle", "ante", "msgs", "query", "done"}
    /\ tx \in Txs \union {NoTx}
    /\ todo \in Seq(MsgTypes)
    /\ meter \in Meters
    /\ spent \in Nat /\ dropped \in BOOLEAN
    /\ outcome \in {"none", "pending", "refused", "accepted", "out of gas",
                    "failed", "ok"}

(* The SDK gas of all work done for a transaction that is executed is on   *)
(* its meter, the last charge included; and beyond the limit its signer    *)
(* paid for it ends, whatever its messages do and wherever they fail: no   *)
(* decorator loses the meter SetUpContextDecorator installed.  Only behind *)
(* an AddPackage that panicked and reported success it goes on.            *)
WithinOwnLimit ==
    tx # NoTx /\ tx.mode # "Simulate" /\ outcome # "refused" =>
        /\ spent = meter.used
        /\ spent > tx.limit => outcome \in {"out of gas", "failed"} \/ dropped

(* Messages of the VM and other modules' messages never run in one         *)
(* transaction, in a simulation neither.                                   *)
OneSortRuns ==
    stage = "msgs" \/ outcome \in {"ok", "failed", "out of gas"} =>
        \/ \A i \in DOMAIN tx.msgs : tx.msgs[i] \in GnoMsgs
        \/ \A i \in DOMAIN tx.msgs : tx.msgs[i] \notin GnoMsgs

(* A transaction delivered with the gas its simulation reported is not     *)
(* charged past its limit, whether or not the node built its VM in between *)
(* and wherever its messages fail; for Gno messages only if the client     *)
(* adds what the decorators charge, which the decorator's new meter        *)
(* forgets, and if no panic cut the simulation short unnoticed.            *)
EstimateSuffices ==
    tx.mode = "Finalize" /\ OutOfGas(meter) /\ outcome # "refused"
    /\ estimate.msgs = tx.msgs /\ estimate.whole =>
        tx.limit < estimate.gas + (IF HasGno(tx.msgs) THEN AnteCost ELSE 0)

(* An answered query is the one its client meant: the package its URL's    *)
(* path names, whatever the form says, and the expression.                 *)
AnswersWhatWasAsked ==
    reply.code = "ok" /\ asked.method # "Params" =>
        /\ reply.value[1] = asked.pkg_path
        /\ asked.method = "Eval" => reply.value[2] = asked.expr
        /\ asked.method = "Render" => reply.value[2] = asked.args

(* An evaluation is paid for within the VM's cap, and within the client's  *)
(* own limit where it sets one; it is refused only if it cannot be paid    *)
(* for, and panics past the handler only where even reading the package    *)
(* cannot.                                                                 *)
EvalIsPaidFor ==
    LET cap == IF asked.max_gas > 0 /\ asked.max_gas < VMCap THEN asked.max_gas ELSE VMCap
        known == asked.pkg_path \in Packages /\ asked.expr \in Exprs
    IN asked.method = "Eval" /\ stage = "done" =>
         /\ reply.code = "ok" => known /\ Load[asked.pkg_path] + Need[asked.expr] <= cap
         /\ reply.code = "error" /\ known /\ asked.expr \notin Panicking =>
              Load[asked.pkg_path] + Need[asked.expr] > cap
         /\ reply.code = "panic" => known /\ Load[asked.pkg_path] > cap
=============================================================================
