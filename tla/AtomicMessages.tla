--------------------------- MODULE AtomicMessages ---------------------------
(***************************************************************************)
(* What the gnovm module promises the chain: a transaction takes effect on *)
(* the block's state at once and as a whole, or not at all; simulations    *)
(* and queries have no effect.  A block's state becomes durable at once; a *)
(* restart or an abandoned proposal takes the block's state back to the    *)
(* durable one.                                                            *)
(***************************************************************************)
EXTENDS FiniteSets

CONSTANTS Txs, NoReq, GenesisPkgs

VARIABLES
    msg,      \* the message each request carries; never changes
    chain,    \* the state of the block being executed
    durable   \* the state of the last committed block

absVars == <<msg, chain, durable>>

Present(v) == GenesisPkgs \cup
    {msg[t].pkg : t \in {u \in v.wrote : msg[u].kind = "AddPackage"}}

(* The states in which transaction t may leave state v. *)
Effects(t, v) ==
    LET wrote(w) == [w EXCEPT !.wrote = @ \cup {t}]
        paid(w)  == [w EXCEPT !.paid = @ \cup {t}]
        params(w) == [w EXCEPT !.vmp = t, !.modp = t]
    IN  CASE msg[t].kind = "AddPackage" ->
               IF msg[t].pkg \in Present(v) THEN {} ELSE {wrote(v), wrote(paid(v))}
          [] msg[t].kind = "Call" ->
               IF msg[t].pkg \in Present(v)
               THEN {wrote(v), paid(v), wrote(paid(v))} ELSE {}
          [] msg[t].kind = "Run" -> {wrote(v), paid(v), wrote(paid(v))}
          [] OTHER -> {params(v)}

AbsInit ==
    /\ chain = [wrote |-> {}, paid |-> {}, vmp |-> NoReq, modp |-> NoReq]
    /\ durable = chain

Apply(t) ==
    /\ t \notin chain.wrote \cup chain.paid
    /\ chain' \in Effects(t, chain)
    /\ UNCHANGED <<msg, durable>>

Commit == durable' = chain /\ UNCHANGED <<msg, chain>>
Lose   == chain' = durable /\ UNCHANGED <<msg, durable>>

AbsNext == (\E t \in Txs : Apply(t)) \/ Commit \/ Lose

AbsSpec == AbsInit /\ [][AbsNext]_absVars
=============================================================================
