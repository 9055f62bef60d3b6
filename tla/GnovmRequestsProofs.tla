------------------------ MODULE GnovmRequestsProofs ------------------------
(***************************************************************************)
(* Theorems about GnovmRequests, for any packages, costs, limits and       *)
(* forms, and transactions of any length.                                  *)
(***************************************************************************)
EXTENDS GnovmRequests, SequenceTheorems, WellFoundedInduction, TLAPS

USE DEF IsGno

-----------------------------------------------------------------------------
(* Types. *)

(* The messages of a transaction are a sequence of message types. *)
LEMMA TxMsgs ==
    ASSUME NEW t \in Txs \union {NoTx}
    PROVE  t.msgs \in Seq(MsgTypes)
  <1>1. CASE t \in Txs
    <2>1. PICK n \in 1 .. MaxMsgs : t.msgs \in [1 .. n -> MsgTypes]
      BY <1>1 DEF Txs
    <2>2. n \in Nat
      BY GasAssumption
    <2> QED
      BY <2>1, <2>2
  <1>2. CASE t = NoTx
    BY <1>2, EmptySeq DEF NoTx
  <1> QED
    BY <1>1, <1>2

(* Meters stay meters, and a meter of the SDK is charged what it is told.  *)
LEMMA MeterTypes ==
    /\ NewInfiniteGasMeter \in Meters
    /\ \A n \in Nat : NewGasMeter(n) \in Meters
    /\ \A m \in Meters, n \in Nat :
         /\ ConsumeGas(m, n) \in Meters
         /\ ConsumeGas(m, n).used = m.used + n
         /\ ConsumeGas(m, n).limit = m.limit
         /\ ConsumeGas(m, n).infinite = m.infinite
    /\ \A t, m : m \in Meters => AnteMeter(t, m) \in Meters
  BY DEF NewInfiniteGasMeter, NewGasMeter, ConsumeGas, Meters, AnteMeter

(* Gas of two pieces of work adds up to gas. *)
LEMMA NatSum == \A a, b \in Nat : a + b \in Nat
  OBVIOUS

(* A message is charged some gas, at most its cost, and it is followed by  *)
(* the next one or ends the transaction.  It is followed only if it was    *)
(* charged all of its cost within the limit, or is an AddPackage whose     *)
(* panic was lost.                                                         *)
MessageStep(gas) ==
    /\ meter' = ConsumeGas(meter, gas) /\ spent' = spent + gas
    /\ tx' = tx /\ estimate' = estimate /\ built' \in BOOLEAN
    /\ dropped' \in {dropped, TRUE}
    /\ \/ /\ stage' = stage /\ outcome' = outcome /\ todo' = Tail(todo)
          /\ \/ dropped'
             \/ gas = Cost[Head(todo)] /\ ~(gas > 0 /\ OutOfGas(meter')) /\ dropped' = dropped
       \/ stage' = "done" /\ outcome' \in {"failed", "out of gas"} /\ todo' = todo

LEMMA MessageSteps ==
    ASSUME TypeOK, RunMsg
    PROVE  /\ stage = "msgs" /\ todo # <<>> /\ todo \in Seq(MsgTypes)
           /\ Head(todo) \in MsgTypes /\ Cost[Head(todo)] \in Nat
           /\ \E gas \in 0 .. Cost[Head(todo)] : gas \in Nat /\ MessageStep(gas)
  <1>1. stage = "msgs" /\ todo # <<>> /\ todo \in Seq(MsgTypes) /\ built \in BOOLEAN
    BY DEF TypeOK, RunMsg
  <1>2. Head(todo) \in MsgTypes
    BY <1>1, HeadTailProperties
  <1>3. Cost[Head(todo)] \in Nat
    BY <1>2, GasAssumption
  <1>4. \E gas \in 0 .. Cost[Head(todo)] : MessageStep(gas)
    BY <1>1 DEF RunMsg, MessageStep, GoesOn, EndsTx, InitializeVM
  <1> QED
    BY <1>1, <1>2, <1>3, <1>4

(* The type invariant is inductive. *)
LEMMA TypeStep ==
    ASSUME TypeOK, [Next]_vars
    PROVE  TypeOK'
  <1>0. USE DEF TypeOK
  <1>1. CASE SubmitTx
    <2>1. PICK t \in Txs, accepted \in BOOLEAN :
            LET m == ConsumeGas(IF t.mode = "Simulate" THEN NewInfiniteGasMeter
                                ELSE NewGasMeter(t.limit), AnteCost)
            IN /\ tx' = t /\ todo' = <<>> /\ meter' = m /\ spent' = AnteCost /\ dropped' = FALSE
               /\ IF accepted /\ ~OutOfGas(m)
                  THEN stage' = "ante" /\ outcome' = "pending"
                  ELSE stage' = "done" /\ outcome' = "refused"
      BY <1>1 DEF SubmitTx
    <2>2. t.limit \in Nat /\ AnteCost \in Nat
      BY GasAssumption DEF Txs
    <2>3. meter' \in Meters
      BY <2>1, <2>2, MeterTypes
    <2> QED
      BY <1>1, <2>1, <2>2, <2>3, EmptySeq DEF SubmitTx
  <1>2. CASE AnteHandle
    BY <1>2, TxMsgs, MeterTypes DEF AnteHandle
  <1>3. CASE RunMsg
    <2>1. PICK gas \in Nat : MessageStep(gas)
      BY <1>3, MessageSteps
    <2>2. Tail(todo) \in Seq(MsgTypes)
      BY <1>3, MessageSteps, HeadTailProperties
    <2>3. meter' \in Meters
      BY <2>1, MeterTypes DEF MessageStep
    <2>4. spent' \in Nat
      <3>1. spent' = spent + gas /\ spent \in Nat
        BY <2>1 DEF MessageStep
      <3> QED
        BY <2>1, <3>1, NatSum
    <2>5. todo' \in Seq(MsgTypes)
      BY <2>1, <2>2 DEF MessageStep
    <2>6. dropped' \in BOOLEAN
      BY <2>1 DEF MessageStep
    <2> QED
      BY <2>1, <2>3, <2>4, <2>5, <2>6 DEF MessageStep
  <1>4. CASE FinishTx
    BY <1>4 DEF FinishTx
  <1>5. CASE HttpGet
    BY <1>5 DEF HttpGet, txVars
  <1>6. CASE GrpcCall
    BY <1>6 DEF GrpcCall, txVars
  <1>7. CASE Serve
    BY <1>7 DEF Serve, txVars
  <1>8. CASE TakeReply \/ Restart
    <2>1. Forget /\ built' \in BOOLEAN
      BY <1>8 DEF TakeReply, Restart
    <2>2. meter' \in Meters
      BY <2>1, MeterTypes DEF Forget
    <2>3. todo' \in Seq(MsgTypes)
      BY <2>1, EmptySeq DEF Forget
    <2> QED
      BY <2>1, <2>2, <2>3 DEF Forget
  <1>9. CASE UNCHANGED vars
    BY <1>9 DEF vars, txVars
  <1> QED
    BY <1>1, <1>2, <1>3, <1>4, <1>5, <1>6, <1>7, <1>8, <1>9 DEF Next

(* Every request, of any length and in any mode, leaves the request's      *)
(* state well typed: in particular the context that leaves the ante chain  *)
(* always has a meter.                                                     *)
THEOREM RequestTypes == Spec => []TypeOK
  <1>1. Init => TypeOK
    <2> HAVE Init
    <2>1. todo \in Seq(MsgTypes) /\ meter \in Meters
      BY EmptySeq, MeterTypes DEF Init
    <2>2. built \in BOOLEAN /\ spent \in Nat /\ dropped \in BOOLEAN
      BY DEF Init
    <2> QED
      BY <2>1, <2>2 DEF Init, TypeOK
  <1> QED
    BY <1>1, TypeStep, PTL DEF Spec

-----------------------------------------------------------------------------
(* Which messages run together. *)

(* Only the decorator lets messages run, and it has counted them; what     *)
(* comes after keeps the transaction.                                      *)
THEOREM MessagesOfOneSort == Spec => []OneSortRuns
  <1>1. Init => OneSortRuns
    BY DEF Init, OneSortRuns
  <1>2. ASSUME OneSortRuns, [Next]_vars
        PROVE  OneSortRuns'
    <2>0. USE DEF OneSortRuns
    <2>1. CASE SubmitTx
      BY <1>2, <2>1 DEF SubmitTx
    <2>2. CASE AnteHandle
      <3>1. CASE Mixed(tx.msgs)
        BY <1>2, <2>2, <3>1 DEF AnteHandle
      <3>2. CASE ~Mixed(tx.msgs)
        <4>1. \/ \A i \in DOMAIN tx.msgs : tx.msgs[i] \in GnoMsgs
              \/ \A i \in DOMAIN tx.msgs : tx.msgs[i] \notin GnoMsgs
          BY <3>2 DEF Mixed, HasGno, HasOther
        <4> QED
          BY <2>2, <4>1 DEF AnteHandle
      <3> QED
        BY <3>1, <3>2
    <2>3. CASE RunMsg
      BY <1>2, <2>3 DEF RunMsg, GoesOn, EndsTx
    <2>4. CASE FinishTx
      BY <1>2, <2>4 DEF FinishTx
    <2>5. CASE HttpGet \/ GrpcCall \/ Serve
      BY <1>2, <2>5 DEF HttpGet, GrpcCall, Serve, txVars
    <2>6. CASE TakeReply \/ Restart
      BY <1>2, <2>6 DEF TakeReply, Restart, Forget
    <2>7. CASE UNCHANGED vars
      BY <1>2, <2>7 DEF vars, txVars
    <2> QED
      BY <1>2, <2>1, <2>2, <2>3, <2>4, <2>5, <2>6, <2>7 DEF Next
  <1> QED
    BY <1>1, <1>2, PTL DEF Spec

-----------------------------------------------------------------------------
(* Who pays. *)

(* A transaction that is executed has the meter of its own limit all along *)
(* and has been charged for all work done for it.  Within the limit it     *)
(* stays until a charge beyond it ends it, or until the panic of such a    *)
(* charge is lost.                                                         *)
LimitInv ==
    /\ stage \in {"ante", "msgs"} => outcome = "pending"
    /\ tx # NoTx /\ tx.mode # "Simulate" /\ outcome # "refused" =>
        /\ ~meter.infinite /\ meter.limit = tx.limit
        /\ meter.used = spent
        /\ spent > tx.limit => outcome \in {"out of gas", "failed"} \/ dropped

(* The meter's invariant survives every step, given the types. *)
LEMMA LimitStep ==
    ASSUME TypeOK, LimitInv, [Next]_vars
    PROVE  LimitInv'
  <1>1. CASE SubmitTx
    <2>1. PICK t \in Txs, accepted \in BOOLEAN :
            LET m == ConsumeGas(IF t.mode = "Simulate" THEN NewInfiniteGasMeter
                                ELSE NewGasMeter(t.limit), AnteCost)
            IN /\ tx' = t /\ meter' = m /\ spent' = AnteCost
               /\ IF accepted /\ ~OutOfGas(m)
                  THEN stage' = "ante" /\ outcome' = "pending"
                  ELSE stage' = "done" /\ outcome' = "refused"
      BY <1>1 DEF SubmitTx
    <2>2. t.limit \in Nat /\ AnteCost \in Nat
      BY GasAssumption DEF Txs
    <2>3. SUFFICES ASSUME t.mode # "Simulate", outcome' # "refused"
                   PROVE  /\ ~meter'.infinite /\ meter'.limit = t.limit
                          /\ AnteCost <= t.limit /\ meter'.used = AnteCost
      <3>1. AnteCost <= t.limit => ~(AnteCost > t.limit)
        BY <2>2
      <3> QED
        BY <2>1, <3>1 DEF LimitInv
    <2>4. /\ meter' = ConsumeGas(NewGasMeter(t.limit), AnteCost)
          /\ ~OutOfGas(meter')
      BY <2>1, <2>3
    <2>5. /\ ~meter'.infinite /\ meter'.limit = t.limit
          /\ meter'.used = 0 + AnteCost
      BY <2>2, <2>4 DEF ConsumeGas, NewGasMeter
    <2> QED
      BY <2>2, <2>4, <2>5 DEF OutOfGas
  <1>2. CASE AnteHandle
    <2>1. tx' = tx /\ spent' = spent /\ dropped' = dropped
      BY <1>2 DEF AnteHandle
    <2>2. outcome' = "refused" \/ meter' = AnteMeter(tx, meter)
      BY <1>2 DEF AnteHandle
    <2>3. outcome' \in {"refused", "accepted", outcome} /\ outcome = "pending"
      BY <1>2 DEF AnteHandle, LimitInv
    <2>4. tx.mode # "Simulate" => AnteMeter(tx, meter) = meter
      BY DEF AnteMeter
    <2>5. stage = "ante" /\ ((stage' = "msgs" /\ outcome' = outcome) \/ stage' = "done")
      BY <1>2 DEF AnteHandle
    <2> QED
      BY <2>1, <2>2, <2>3, <2>4, <2>5 DEF LimitInv
  <1>3. CASE RunMsg
    <2>1. PICK gas \in Nat : MessageStep(gas)
      BY <1>3, MessageSteps
    <2>2. /\ meter'.used = meter.used + gas /\ spent' = spent + gas /\ tx' = tx
          /\ meter'.limit = meter.limit /\ meter'.infinite = meter.infinite
      BY <2>1, MeterTypes DEF TypeOK, MessageStep
    <2>3. meter.used \in Nat /\ meter.limit \in Nat /\ spent \in Nat
      BY DEF TypeOK, Meters
    <2>4. outcome = "pending" /\ stage = "msgs"
      BY <1>3, MessageSteps DEF LimitInv
    <2>5. CASE stage' = "done" /\ outcome' \in {"failed", "out of gas"}
      BY <2>2, <2>4, <2>5 DEF LimitInv
    <2>6. CASE stage' = stage /\ outcome' = outcome
      <3>1. SUFFICES ASSUME tx # NoTx, tx.mode # "Simulate", spent' > tx.limit
                     PROVE  dropped'
        BY <2>2, <2>4, <2>6 DEF LimitInv
      <3>2. ~meter.infinite /\ meter.limit = tx.limit /\ meter.used = spent
        BY <2>4, <3>1 DEF LimitInv
      <3>3. OutOfGas(meter')
        BY <2>2, <3>1, <3>2 DEF OutOfGas
      <3>4. dropped' \/ (~(gas > 0) /\ dropped' = dropped)
        BY <2>1, <2>4, <2>6, <3>3 DEF MessageStep
      <3>5. CASE ~(gas > 0)
        <4>1. spent' = spent
          BY <2>2, <2>3, <3>5
        <4>2. dropped
          BY <2>4, <3>1, <4>1 DEF LimitInv
        <4> QED
          BY <2>1, <3>4, <4>2 DEF MessageStep
      <3> QED
        BY <3>4, <3>5
    <2> QED
      BY <2>1, <2>5, <2>6 DEF MessageStep
  <1>4. CASE FinishTx
    BY <1>4 DEF FinishTx, LimitInv
  <1>5. CASE HttpGet \/ GrpcCall \/ Serve
    BY <1>5 DEF HttpGet, GrpcCall, Serve, txVars, LimitInv
  <1>6. CASE TakeReply \/ Restart
    BY <1>6 DEF TakeReply, Restart, Forget, LimitInv
  <1>7. CASE UNCHANGED vars
    BY <1>7 DEF vars, txVars, LimitInv
  <1> QED
    BY <1>1, <1>2, <1>3, <1>4, <1>5, <1>6, <1>7 DEF Next

(* Whatever the messages of a transaction and wherever they fail, its      *)
(* meter shows the work done for it, and beyond its own limit it goes on   *)
(* only behind an AddPackage that panicked and reported success.           *)
THEOREM LimitHolds == Spec => []WithinOwnLimit
  <1>1. Init => LimitInv
    BY DEF Init, LimitInv
  <1>2. LimitInv => WithinOwnLimit
    BY DEF LimitInv, WithinOwnLimit
  <1> QED
    BY <1>1, <1>2, LimitStep, RequestTypes, PTL DEF Spec

-----------------------------------------------------------------------------
(* What a simulation reports. *)

(* g[i] is what the first i messages cost. *)
Sums(msgs, g) ==
    /\ g \in [0 .. Len(msgs) -> Nat]
    /\ g[0] = 0
    /\ \A i \in 1 .. Len(msgs) : g[i] = g[i - 1] + Cost[msgs[i]]

Owed(msgs) == CHOOSE g : Sums(msgs, g)

LEMMA LeastElement ==
    ASSUME NEW T \in SUBSET Nat, T # {}
    PROVE  \E m \in T : \A y \in T : m <= y
  <1>1. \E m \in T : \A y \in T : ~ (<<y, m>> \in OpToRel(<, Nat))
    BY WFMin, NatLessThanWellFounded
  <1>2. PICK m \in T : \A y \in T : ~ (<<y, m>> \in OpToRel(<, Nat))
    BY <1>1
  <1>3. ASSUME NEW y \in T PROVE m <= y
    <2>1. m \in Nat /\ y \in Nat /\ <<y, m>> \in Nat \X Nat
      OBVIOUS
    <2>2. ~ (y < m)
      BY <1>2, <2>1 DEF OpToRel
    <2> QED
      BY <2>1, <2>2
  <1> QED
    BY <1>3

(* Every list of messages has such sums: the shortest prefix without them  *)
(* would have them from the prefix before it.                              *)
LEMMA OwedSums ==
    ASSUME NEW msgs \in Seq(MsgTypes)
    PROVE  Sums(msgs, Owed(msgs))
  <1> DEFINE n == Len(msgs)
             Has(k) == \E g \in [0 .. k -> Nat] :
                         g[0] = 0 /\ \A i \in 1 .. k : g[i] = g[i - 1] + Cost[msgs[i]]
             Lacking == {k \in 0 .. n : ~Has(k)}
  <1>1. n \in Nat /\ \A i \in 1 .. n : Cost[msgs[i]] \in Nat
    BY GasAssumption
  <1>2. Lacking = {}
    <2>1. SUFFICES ASSUME Lacking # {} PROVE FALSE
      OBVIOUS
    <2>2. Lacking \in SUBSET Nat
      BY <1>1
    <2>3. PICK k \in Lacking : \A l \in Lacking : k <= l
      BY <2>1, <2>2, LeastElement
    <2>4. k \in 0 .. n /\ ~Has(k) /\ \A l \in 0 .. n : ~Has(l) => k <= l
      BY <2>3
    <2>5. Has(0)
      <3> DEFINE zero == [i \in 0 .. 0 |-> 0]
      <3>1. zero \in [0 .. 0 -> Nat] /\ zero[0] = 0
        OBVIOUS
      <3> HIDE DEF zero
      <3> QED
        BY <3>1
    <2> HIDE DEF Has, Lacking
    <2>6. k \in Nat /\ k # 0 /\ k - 1 \in 0 .. n /\ ~(k <= k - 1)
      <3>1. k # 0
        BY <2>4, <2>5
      <3> QED
        BY <1>1, <2>4, <3>1
    <2>7. Has(k - 1)
      BY <2>4, <2>6
    <2> USE DEF Has
    <2>8. PICK g \in [0 .. k - 1 -> Nat] :
            g[0] = 0 /\ \A i \in 1 .. k - 1 : g[i] = g[i - 1] + Cost[msgs[i]]
      BY <2>7
    <2> DEFINE h == [i \in 0 .. k |-> IF i = k THEN g[k - 1] + Cost[msgs[k]] ELSE g[i]]
    <2>9. k \in 1 .. n /\ Cost[msgs[k]] \in Nat /\ g[k - 1] \in Nat
      BY <1>1, <2>4, <2>6, <2>8
    <2>10. \A i \in 0 .. k : i # k => g[i] \in Nat
      BY <2>6, <2>8
    <2>11. h \in [0 .. k -> Nat]
      BY <2>9, <2>10
    <2>12. h[k] = g[k - 1] + Cost[msgs[k]] /\ \A i \in 0 .. k : i # k => h[i] = g[i]
      BY <2>6
    <2>13. h[0] = 0
      BY <2>6, <2>8
    <2> HIDE DEF h
    <2>14. ASSUME NEW i \in 1 .. k
           PROVE  h[i] = h[i - 1] + Cost[msgs[i]]
      <3>1. i - 1 \in 0 .. k /\ i - 1 # k /\ i \in 0 .. k
        BY <2>6
      <3>2. h[i - 1] = g[i - 1]
        BY <2>12, <3>1
      <3>3. CASE i = k
        BY <2>12, <3>2, <3>3
      <3>4. CASE i # k
        <4>1. i \in 1 .. k - 1
          BY <2>6, <3>4
        <4>2. h[i] = g[i]
          BY <2>12, <3>1, <3>4
        <4> QED
          BY <2>8, <3>2, <4>1, <4>2
      <3> QED
        BY <3>3, <3>4
    <2> QED
      BY <2>4, <2>11, <2>13, <2>14
  <1>3. Has(n)
    BY <1>1, <1>2
  <1>4. \E g : Sums(msgs, g)
    BY <1>3 DEF Sums
  <1> QED
    BY <1>4 DEF Owed

(* A message adds its cost to what is owed, and the whole list costs no    *)
(* less than any of its prefixes: the longest prefix that would cost more  *)
(* is shorter than one that costs more still.                              *)
LEMMA OwedGrows ==
    ASSUME NEW msgs \in Seq(MsgTypes)
    PROVE  /\ \A i \in 0 .. Len(msgs) : Owed(msgs)[i] \in Nat
           /\ Owed(msgs)[0] = 0
           /\ \A i \in 1 .. Len(msgs) :
                Cost[msgs[i]] \in Nat /\ Owed(msgs)[i] = Owed(msgs)[i - 1] + Cost[msgs[i]]
           /\ \A i \in 0 .. Len(msgs) : Owed(msgs)[i] <= Owed(msgs)[Len(msgs)]
  <1> DEFINE n == Len(msgs)
             g == Owed(msgs)
             More == {k \in 0 .. n : ~(g[n - k] <= g[n])}
  <1>1. n \in Nat /\ \A i \in 1 .. n : Cost[msgs[i]] \in Nat
    BY GasAssumption
  <1>2. /\ g \in [0 .. n -> Nat] /\ g[0] = 0
        /\ \A i \in 1 .. n : g[i] = g[i - 1] + Cost[msgs[i]]
    BY OwedSums DEF Sums
  <1> HIDE DEF n, g
  <1>3. More = {}
    <2>1. SUFFICES ASSUME More # {} PROVE FALSE
      OBVIOUS
    <2>2. More \in SUBSET Nat
      BY <1>1
    <2>3. PICK k \in More : \A l \in More : k <= l
      BY <2>1, <2>2, LeastElement
    <2>4. k \in 0 .. n /\ ~(g[n - k] <= g[n])
      BY <2>3
    <2>5. k # 0
      <3>1. g[n] \in Nat /\ n - 0 = n
        BY <1>1, <1>2
      <3> QED
        BY <2>4, <3>1
    <2>6. k - 1 \in 0 .. n /\ n - (k - 1) \in 1 .. n /\ (n - (k - 1)) - 1 = n - k
      BY <1>1, <2>4, <2>5
    <2>7. g[n - (k - 1)] <= g[n]
      <3>1. k - 1 \notin More
        BY <1>1, <2>3, <2>4, SMTT(30)
      <3> QED
        BY <2>6, <3>1
    <2>8. g[n - (k - 1)] = g[n - k] + Cost[msgs[n - (k - 1)]]
      BY <1>2, <2>6
    <2>9. g[n - k] \in Nat /\ g[n] \in Nat /\ Cost[msgs[n - (k - 1)]] \in Nat
      BY <1>1, <1>2, <2>4, <2>6
    <2> QED
      BY <2>4, <2>7, <2>8, <2>9
  <1>4. ASSUME NEW i \in 0 .. n PROVE g[i] <= g[n]
    <2>1. n - i \in 0 .. n /\ n - (n - i) = i
      BY <1>1
    <2>2. n - i \notin More
      BY <1>3
    <2> QED
      BY <2>1, <2>2
  <1>5. \A i \in 0 .. n : g[i] \in Nat
    BY <1>2
  <1> QED
    BY <1>1, <1>2, <1>4, <1>5 DEF n, g

(* What a transaction's meter shows before its messages, and what of it is *)
(* in the report of a simulation.                                          *)
Reported(msgs) == IF HasGno(msgs) THEN 0 ELSE AnteCost
Charged(t) == IF t.mode = "Simulate" THEN Reported(t.msgs) ELSE AnteCost

(* The meter shows what the messages executed so far cost, or less where a *)
(* lost panic cut one short; so a simulation without such a panic reports  *)
(* what all of them cost, and no delivery is charged more.                 *)
RunInv ==
    LET done == Len(tx.msgs) - Len(todo)
        owed == Charged(tx) + Owed(tx.msgs)[done]
    IN  stage = "msgs" =>
          /\ done \in 0 .. Len(tx.msgs)
          /\ \A i \in 1 .. Len(todo) : todo[i] = tx.msgs[done + i]
          /\ meter.used <= owed
          /\ ~dropped => meter.used = owed

NotOvercharged ==
    tx.mode = "Finalize" /\ outcome # "refused" =>
        meter.used <= AnteCost + Owed(tx.msgs)[Len(tx.msgs)]

EstimateInv ==
    /\ stage = "ante" => meter.used = AnteCost /\ ~dropped
    /\ RunInv
    /\ estimate # NoEstimate =>
         /\ estimate.msgs \in Seq(MsgTypes)
         /\ estimate.whole =>
              estimate.gas = Reported(estimate.msgs) + Owed(estimate.msgs)[Len(estimate.msgs)]
    /\ NotOvercharged

(* The first message to run finds the meter as the decorators left it.     *)
LEMMA AnteRuns ==
    ASSUME TypeOK, LimitInv, EstimateInv, AnteHandle
    PROVE  RunInv'
  <1>1. SUFFICES ASSUME stage' = "msgs" PROVE RunInv'
    BY DEF RunInv
  <1>2. meter' = AnteMeter(tx, meter) /\ todo' = tx.msgs /\ tx' = tx /\ stage = "ante"
    BY <1>1 DEF AnteHandle
  <1>3. tx.msgs \in Seq(MsgTypes)
    BY TxMsgs DEF TypeOK
  <1>4. Len(tx.msgs) \in Nat /\ Owed(tx.msgs)[0] = 0
    BY <1>3, OwedGrows
  <1>5. meter'.used = Charged(tx)
    <2>1. meter.used = AnteCost
      BY <1>2 DEF EstimateInv
    <2>2. NewInfiniteGasMeter.used = 0
      BY DEF NewInfiniteGasMeter
    <2> QED
      BY <1>2, <2>1, <2>2 DEF AnteMeter, Charged, Reported
  <1>6. Charged(tx) \in Nat
    BY GasAssumption DEF Charged, Reported
  <1>7. Len(tx.msgs) - Len(tx.msgs) = 0 /\ 0 \in 0 .. Len(tx.msgs)
    BY <1>4
  <1>8. \A i \in 1 .. Len(tx.msgs) : tx.msgs[i] = tx.msgs[0 + i]
    BY <1>4
  <1>9. Charged(tx) + 0 = Charged(tx) /\ Charged(tx) <= Charged(tx)
    BY <1>6
  <1> QED
    BY <1>2, <1>4, <1>5, <1>7, <1>8, <1>9 DEF RunInv

(* A message that runs brings the meter to what is owed up to it at most;  *)
(* so it does not come to more than what all of them cost.                 *)
LEMMA MessageRuns ==
    ASSUME TypeOK, LimitInv, EstimateInv, RunMsg
    PROVE  RunInv' /\ NotOvercharged'
  <1> DEFINE n == Len(tx.msgs)
             done == n - Len(todo)
             c == Cost[Head(todo)]
             g == Owed(tx.msgs)
  <1>1. tx.msgs \in Seq(MsgTypes) /\ todo \in Seq(MsgTypes) /\ todo # <<>> /\ stage = "msgs"
    BY TxMsgs DEF TypeOK, RunMsg
  <1>2. /\ n \in Nat /\ Len(todo) \in Nat /\ Len(todo) > 0
        /\ Head(todo) = todo[1]
        /\ Tail(todo) \in Seq(MsgTypes) /\ Len(Tail(todo)) = Len(todo) - 1
        /\ \A i \in 1 .. Len(Tail(todo)) : Tail(todo)[i] = todo[i + 1]
    BY <1>1, HeadTailProperties
  <1>3. /\ done \in 0 .. n
        /\ \A i \in 1 .. Len(todo) : todo[i] = tx.msgs[done + i]
        /\ meter.used <= Charged(tx) + g[done]
        /\ ~dropped => meter.used = Charged(tx) + g[done]
    BY <1>1 DEF EstimateInv, RunInv
  <1>4. done + 1 \in 1 .. n /\ (done + 1) - 1 = done
    BY <1>2, <1>3
  <1>5. Head(todo) = tx.msgs[done + 1]
    BY <1>2, <1>3
  <1>6. c \in Nat /\ g[done + 1] = g[done] + c /\ g[done] \in Nat
    BY <1>1, <1>3, <1>4, <1>5, OwedGrows
  <1>7. PICK gas \in 0 .. c : gas \in Nat /\ MessageStep(gas)
    BY MessageSteps
  <1>8. meter'.used = meter.used + gas /\ tx' = tx /\ meter.used \in Nat
    BY <1>7, MeterTypes DEF TypeOK, Meters, MessageStep
  <1>9. Charged(tx) \in Nat /\ AnteCost \in Nat
    BY GasAssumption DEF Charged, Reported
  <1>10. meter'.used <= Charged(tx) + g[done + 1]
    <2> HIDE DEF c, g, done
    <2> QED
      BY <1>3, <1>6, <1>7, <1>8, <1>9
  <1>11. RunInv'
    <2>1. SUFFICES ASSUME stage' = "msgs" PROVE RunInv'
      BY DEF RunInv
    <2>2. todo' = Tail(todo) /\ (dropped' \/ (gas = c /\ dropped' = dropped))
      BY <1>7, <2>1 DEF MessageStep
    <2>3. n - Len(todo') = done + 1 /\ done + 1 \in 0 .. n
      BY <1>2, <1>4, <2>2
    <2>4. ASSUME NEW i \in 1 .. Len(todo')
          PROVE  todo'[i] = tx.msgs[(done + 1) + i]
      <3>1. i + 1 \in 1 .. Len(todo) /\ done + (i + 1) = (done + 1) + i
        <4>1. Len(todo') = Len(todo) - 1
          BY <1>2, <2>2
        <4>2. i \in Int /\ done \in Int
          BY <1>3
        <4> HIDE DEF done
        <4> QED
          BY <1>2, <2>4, <4>1, <4>2
      <3>2. todo'[i] = todo[i + 1]
        BY <1>2, <2>2
      <3> QED
        BY <1>3, <3>1, <3>2
    <2>5. ~dropped' => meter'.used = Charged(tx) + g[done + 1]
      <3>1. SUFFICES ASSUME ~dropped' PROVE meter'.used = Charged(tx) + g[done + 1]
        OBVIOUS
      <3>2. gas = c /\ meter.used = Charged(tx) + g[done]
        BY <1>3, <2>2, <3>1
      <3> HIDE DEF c, g, done
      <3> QED
        BY <1>6, <1>8, <1>9, <3>2
    <2> QED
      BY <1>8, <1>10, <2>3, <2>4, <2>5 DEF RunInv
  <1>12. NotOvercharged'
    <2>1. SUFFICES ASSUME tx.mode = "Finalize" PROVE meter'.used <= AnteCost + g[n]
      BY <1>8 DEF NotOvercharged
    <2>2. Charged(tx) = AnteCost
      BY <2>1 DEF Charged
    <2>3. g[done + 1] <= g[n] /\ g[done + 1] \in Nat /\ g[n] \in Nat
      <3>1. done + 1 \in 0 .. n /\ n \in 0 .. n
        BY <1>2, <1>4
      <3> QED
        BY <1>1, <3>1, OwedGrows
    <2> HIDE DEF c, g, done, n
    <2> QED
      BY <1>7, <1>8, <1>9, <1>10, <2>2, <2>3
  <1> QED
    BY <1>11, <1>12

(* No transaction is charged less than nothing: what the decorators charge *)
(* is within what it owes.                                                 *)
LEMMA AnteIsOwed ==
    ASSUME NEW msgs \in Seq(MsgTypes)
    PROVE  AnteCost \in Nat /\ AnteCost <= AnteCost + Owed(msgs)[Len(msgs)]
  <1>1. Owed(msgs)[Len(msgs)] \in Nat
    BY OwedGrows
  <1> QED
    BY <1>1, GasAssumption

(* The estimate's invariant survives every step. *)
LEMMA EstimateStep ==
    ASSUME TypeOK, LimitInv, EstimateInv, [Next]_vars
    PROVE  EstimateInv'
  <1>1. CASE SubmitTx
    <2>1. /\ stage' \in {"ante", "done"} /\ dropped' = FALSE
          /\ estimate' = estimate
      BY <1>1 DEF SubmitTx
    <2>2. meter'.used = AnteCost
      <3>1. PICK t \in Txs :
              meter' = ConsumeGas(IF t.mode = "Simulate" THEN NewInfiniteGasMeter
                                  ELSE NewGasMeter(t.limit), AnteCost)
        BY <1>1 DEF SubmitTx
      <3>2. t.limit \in Nat /\ AnteCost \in Nat
        BY GasAssumption DEF Txs
      <3> QED
        BY <3>1, <3>2 DEF ConsumeGas, NewInfiniteGasMeter, NewGasMeter
    <2>3. tx' \in Txs
      BY <1>1 DEF SubmitTx
    <2>4. NotOvercharged'
      <3>1. tx'.msgs \in Seq(MsgTypes)
        BY <2>3, TxMsgs
      <3> QED
        BY <2>2, <3>1, AnteIsOwed DEF NotOvercharged
    <2> QED
      BY <2>1, <2>2, <2>4 DEF EstimateInv, RunInv
  <1>2. CASE AnteHandle
    <2>1. RunInv'
      BY <1>2, AnteRuns
    <2>2. stage = "ante" /\ tx' = tx /\ (outcome' = "refused" \/ meter' = AnteMeter(tx, meter))
      BY <1>2 DEF AnteHandle
    <2>3. stage' \in {"done", "msgs"} /\ estimate' = estimate
      BY <1>2 DEF AnteHandle
    <2>4. NotOvercharged'
      <3>1. SUFFICES ASSUME tx.mode = "Finalize", outcome' # "refused"
                     PROVE  meter'.used <= AnteCost + Owed(tx.msgs)[Len(tx.msgs)]
        BY <2>2 DEF NotOvercharged
      <3>2. meter'.used = AnteCost
        BY <2>2, <3>1 DEF AnteMeter, EstimateInv
      <3>3. tx.msgs \in Seq(MsgTypes)
        BY TxMsgs DEF TypeOK
      <3> QED
        BY <3>2, <3>3, AnteIsOwed
    <2> QED
      BY <2>1, <2>3, <2>4 DEF EstimateInv
  <1>3. CASE RunMsg
    <2>1. stage' \in {"done", "msgs"} /\ estimate' = estimate
      BY <1>3 DEF RunMsg, GoesOn, EndsTx
    <2> QED
      BY <1>3, <2>1, MessageRuns DEF EstimateInv
  <1>4. CASE FinishTx
    <2>1. /\ stage = "msgs" /\ todo = <<>> /\ stage' = "done" /\ outcome' = "ok"
          /\ estimate' = IF tx.mode = "Simulate"
                         THEN [msgs |-> tx.msgs, gas |-> meter.used, whole |-> ~dropped]
                         ELSE estimate
          /\ tx' = tx /\ meter' = meter
      BY <1>4 DEF FinishTx
    <2>2. tx.msgs \in Seq(MsgTypes) /\ Len(tx.msgs) \in Nat
      <3>1. tx.msgs \in Seq(MsgTypes)
        BY TxMsgs DEF TypeOK
      <3> QED
        BY <3>1
    <2>3. Len(tx.msgs) - Len(todo) = Len(tx.msgs)
      BY <2>1, <2>2
    <2>4. ~dropped => meter.used = Charged(tx) + Owed(tx.msgs)[Len(tx.msgs)]
      BY <2>1, <2>3 DEF EstimateInv, RunInv
    <2>7. NotOvercharged'
      BY <2>1 DEF EstimateInv, NotOvercharged, LimitInv
    <2>5. CASE tx.mode = "Simulate"
      <3>1. /\ estimate'.msgs = tx.msgs /\ estimate'.gas = meter.used
            /\ estimate'.whole = ~dropped
        BY <2>1, <2>5
      <3> QED
        BY <2>1, <2>2, <2>4, <2>5, <2>7, <3>1 DEF EstimateInv, RunInv, Charged
    <2>6. CASE tx.mode # "Simulate"
      BY <2>1, <2>6, <2>7 DEF EstimateInv, RunInv
    <2> QED
      BY <2>5, <2>6
  <1>5. CASE HttpGet \/ GrpcCall \/ Serve
    <2>1. stage' \in {"done", "query"} /\ UNCHANGED <<txVars, estimate>>
      BY <1>5 DEF HttpGet, GrpcCall, Serve
    <2> QED
      BY <2>1 DEF EstimateInv, RunInv, NotOvercharged, txVars
  <1>6. CASE TakeReply \/ Restart
    BY <1>6 DEF TakeReply, Restart, Forget, NoTx, EstimateInv, RunInv, NotOvercharged
  <1>7. CASE UNCHANGED vars
    BY <1>7 DEF vars, txVars, EstimateInv, RunInv, NotOvercharged
  <1> QED
    BY <1>1, <1>2, <1>3, <1>4, <1>5, <1>6, <1>7 DEF Next

(* The gas that a simulation reported pays for the delivery of the same    *)
(* messages, once a client that sends Gno messages adds what the           *)
(* decorators charge (ante.go gives their simulation a meter of its own).  *)
THEOREM EstimatesSuffice == Spec => []EstimateSuffices
  <1>1. Init => EstimateInv
    BY DEF Init, NoTx, EstimateInv, RunInv, NotOvercharged
  <1>2. ASSUME TypeOK, LimitInv, EstimateInv
        PROVE  EstimateSuffices
    <2>1. SUFFICES ASSUME tx.mode = "Finalize", OutOfGas(meter), outcome # "refused",
                          estimate.msgs = tx.msgs, estimate.whole
                   PROVE  tx.limit < estimate.gas + (IF HasGno(tx.msgs) THEN AnteCost ELSE 0)
      BY DEF EstimateSuffices
    <2>2. estimate # NoEstimate
      <3>1. tx \in Txs
        <4>1. NoTx.mode = "Check"
          BY DEF NoTx
        <4>2. tx \in Txs \union {NoTx}
          BY <1>2 DEF TypeOK
        <4> QED
          BY <2>1, <4>1, <4>2
      <3>2. tx.msgs # <<>>
        <4>1. PICK k \in 1 .. MaxMsgs : tx.msgs \in [1 .. k -> MsgTypes]
          BY <3>1 DEF Txs
        <4>2. 1 \in DOMAIN tx.msgs
          BY <4>1, GasAssumption
        <4> QED
          BY <4>2
      <3> QED
        <4>1. NoEstimate.msgs = <<>>
          BY DEF NoEstimate
        <4> QED
          BY <2>1, <3>2, <4>1
    <2>3. /\ estimate.gas = Reported(tx.msgs) + Owed(tx.msgs)[Len(tx.msgs)]
          /\ meter.used <= AnteCost + Owed(tx.msgs)[Len(tx.msgs)]
          /\ tx.msgs \in Seq(MsgTypes)
      BY <1>2, <2>1, <2>2 DEF EstimateInv, NotOvercharged
    <2>6. meter.used > tx.limit /\ meter.used \in Nat /\ tx.limit \in Nat
      <3>1. tx # NoTx
        BY <2>1 DEF NoTx
      <3>2. meter.limit = tx.limit
        BY <1>2, <2>1, <3>1 DEF LimitInv
      <3> QED
        BY <1>2, <2>1, <3>2 DEF OutOfGas, TypeOK, Meters
    <2>4. Owed(tx.msgs)[Len(tx.msgs)] \in Nat
      BY <2>3, OwedGrows
    <2>5. AnteCost \in Nat
      BY GasAssumption
    <2> QED
      BY <2>3, <2>4, <2>5, <2>6 DEF Reported
  <1>3. Spec => []LimitInv
    <2>1. Init => LimitInv
      BY DEF Init, LimitInv
    <2> QED
      BY <2>1, LimitStep, RequestTypes, PTL DEF Spec
  <1> QED
    BY <1>1, <1>2, <1>3, EstimateStep, RequestTypes, PTL DEF Spec

-----------------------------------------------------------------------------
(* Queries. *)

GoodQuery(r) ==
    r.method \in Methods /\ r.expr \in Exprs \union {""} /\ r.max_gas \in 0 .. Word - 1

(* The fields of a request. *)
QueryFields == {"method", "pkg_path", "expr", "max_gas", "args"}

(* The router gives every method but Params its path. *)
LEMMA RoutedPath ==
    ASSUME NEW url \in Urls, url.method # "Params"
    PROVE  "pkg_path" \in DOMAIN url.params
  <1>1. url.params \in {[pkg_path |-> p] : p \in Paths \union {""}}
    BY DEF Urls
  <1>2. PICK p \in Paths \union {""} : url.params = [pkg_path |-> p]
    BY <1>1
  <1>3. DOMAIN [pkg_path |-> p] = {"pkg_path"}
    OBVIOUS
  <1> QED
    BY <1>2, <1>3

(* A request that takes only its path from the URL is what the URL means.  *)
LEMMA PathMeans ==
    ASSUME NEW url \in Urls, NEW m, url.method = m, m \in {"Info", "RealmStorage"}
    PROVE  FromPath(m, url) = Meant(url)
  <1>1. "pkg_path" \in DOMAIN url.params
    BY RoutedPath
  <1> QED
    BY <1>1 DEF FromPath, Meant, Request

(* A request that takes its form too is what the URL means, since the      *)
(* filter keeps the form from replacing what the path gave.                *)
LEMMA FormMeans ==
    ASSUME NEW url \in Urls, NEW m, url.method = m, m \in {"Eval", "Render"},
           FromForm(FromPath(m, url), url) # Refused
    PROVE  FromForm(FromPath(m, url), url) = Meant(url)
  <1> DEFINE r == FromPath(m, url)
             filled == (FormFields[m] \ Filter) \intersect DOMAIN url.form
             q == [f \in QueryFields |-> IF f \in filled THEN url.form[f] ELSE r[f]]
  <1>1. "pkg_path" \in DOMAIN url.params
    BY RoutedPath
  <1>2. r = [method |-> m, pkg_path |-> url.params["pkg_path"], expr |-> "",
             max_gas |-> 0, args |-> <<>>]
    BY <1>1 DEF FromPath, Request
  <1> HIDE DEF r
  <1>3. r.method = m /\ DOMAIN r = QueryFields
    BY <1>2 DEF QueryFields
  <1>4. FromForm(r, url) = q
    <2>1. FromForm(r, url) # Refused
      BY DEF r
    <2> QED
      BY <1>3, <2>1 DEF FromForm
  <1>5. /\ m = "Eval" => filled = {"expr", "max_gas"} \intersect DOMAIN url.form
        /\ m = "Render" => filled = {"args"} \intersect DOMAIN url.form
    BY DEF FormFields, Filter
  <1>6. DOMAIN Meant(url) = QueryFields
    BY DEF Meant, QueryFields
  <1>7. ASSUME NEW f \in QueryFields
        PROVE  q[f] = Meant(url)[f]
    <2>1. CASE f = "method"
      BY <1>2, <1>5, <2>1 DEF QueryFields, Meant
    <2>2. CASE f = "pkg_path"
      BY <1>2, <1>5, <2>2 DEF QueryFields, Meant
    <2>3. CASE f = "expr"
      BY <1>2, <1>5, <2>3 DEF QueryFields, Meant
    <2>4. CASE f = "max_gas"
      BY <1>2, <1>5, <2>4 DEF QueryFields, Meant
    <2>5. CASE f = "args"
      BY <1>2, <1>5, <2>5 DEF QueryFields, Meant
    <2> QED
      BY <2>1, <2>2, <2>3, <2>4, <2>5 DEF QueryFields
  <1>8. q = [f \in QueryFields |-> Meant(url)[f]]
    BY <1>7
  <1>9. Meant(url) = [f \in QueryFields |-> Meant(url)[f]]
    BY <1>6 DEF Meant
  <1> QED
    BY <1>4, <1>8, <1>9 DEF r

(* What the gateway does not refuse is what the URL means. *)
LEMMA GatewayMeans ==
    ASSUME NEW url \in Urls, GatewayRequest(url) # Refused
    PROVE  GatewayRequest(url) = Meant(url) /\ GoodQuery(Meant(url))
  <1>1. url.method \in Methods
    BY DEF Urls, Methods
  <1>2. GoodQuery(Meant(url))
    <2>1. url.form \in Forms
      BY DEF Urls
    <2>2. 0 \in 0 .. Word - 1
      BY GasAssumption
    <2> QED
      BY <1>1, <2>1, <2>2, FormAssumption DEF GoodQuery, Meant
  <1>3. CASE url.method = "Params"
    BY <1>2, <1>3 DEF GatewayRequest, ParamsRequest, Meant, Request
  <1>4. CASE url.method = "Info"
    BY <1>4, PathMeans, <1>2 DEF GatewayRequest, InfoRequest
  <1>5. CASE url.method = "RealmStorage"
    BY <1>5, PathMeans, <1>2 DEF GatewayRequest, RealmStorageRequest
  <1>6. CASE url.method = "Eval"
    BY <1>6, FormMeans, <1>2 DEF GatewayRequest, EvalRequest
  <1>7. CASE url.method = "Render"
    BY <1>7, FormMeans, <1>2 DEF GatewayRequest, RenderRequest
  <1> QED
    BY <1>1, <1>2, <1>3, <1>4, <1>5, <1>6, <1>7 DEF Methods

(* Until it is answered a query has no answer, and what the server works   *)
(* on is what was asked.                                                   *)
QueryInv ==
    /\ stage \in {"idle", "ante", "msgs"} => asked = NoQuery
    /\ stage # "done" => reply = NoReply
    /\ stage = "query" => query = asked /\ GoodQuery(asked)
    /\ AnswersWhatWasAsked
    /\ EvalIsPaidFor

(* Serving a query answers it, and pays for it. *)
LEMMA ServeStep ==
    ASSUME QueryInv, Serve
    PROVE  AnswersWhatWasAsked' /\ EvalIsPaidFor'
  <1>1. /\ query = asked /\ GoodQuery(asked) /\ asked' = asked
        /\ IF EmptyPath(asked) THEN reply' = Answer("InvalidArgument", <<>>)
           ELSE reply' \in Answers(asked)
    BY DEF Serve, QueryInv
  <1>2. CASE EmptyPath(asked)
    <2>1. reply'.code = "InvalidArgument"
      BY <1>1, <1>2 DEF Answer
    <2> QED
      BY <2>1 DEF AnswersWhatWasAsked, EvalIsPaidFor
  <1>3. CASE ~EmptyPath(asked) /\ asked.method = "Params"
    BY <1>1, <1>3 DEF AnswersWhatWasAsked, EvalIsPaidFor
  <1>4. CASE ~EmptyPath(asked) /\ asked.method \in {"Info", "RealmStorage"}
    <2>1. reply' = Answer(IF asked.pkg_path \in Packages THEN "ok" ELSE "error", <<asked.pkg_path>>)
      BY <1>1, <1>4 DEF Answers, InfoQuery, RealmStorageQuery
    <2>2. reply'.code = "ok" => reply'.value = <<asked.pkg_path>>
      BY <2>1 DEF Answer
    <2> QED
      BY <1>1, <1>4, <2>2 DEF AnswersWhatWasAsked, EvalIsPaidFor
  <1>5. CASE ~EmptyPath(asked) /\ asked.method = "Render"
    <2>1. reply' = Answer(EvalUnder(VMCap, asked.pkg_path, "Render", RenderNeed),
                          <<asked.pkg_path, asked.args>>)
      BY <1>1, <1>5 DEF Answers, RenderQuery
    <2>2. reply'.code = "ok" => reply'.value = <<asked.pkg_path, asked.args>>
      BY <2>1 DEF Answer
    <2> QED
      BY <1>1, <1>5, <2>2 DEF AnswersWhatWasAsked, EvalIsPaidFor
  <1>6. CASE ~EmptyPath(asked) /\ asked.method = "Eval" /\ asked.expr = ""
    <2>1. reply' = Answer("InvalidArgument", <<>>)
      BY <1>1, <1>6 DEF Answers, EvalQuery
    <2>2. reply'.code = "InvalidArgument"
      BY <2>1 DEF Answer
    <2> QED
      BY <2>2 DEF AnswersWhatWasAsked, EvalIsPaidFor
  <1>7. CASE ~EmptyPath(asked) /\ asked.method = "Eval" /\ asked.expr # ""
    <2> DEFINE cap == IF asked.max_gas > 0 /\ asked.max_gas < VMCap THEN asked.max_gas ELSE VMCap
               p == asked.pkg_path
               e == asked.expr
    <2>1. cap \in Nat /\ EvalLimit(asked) = cap
      <3>0. asked.max_gas \in 0 .. Word - 1
        BY <1>1 DEF GoodQuery
      <3>2. VMCap \in Nat /\ Word \in Nat /\ 2 * VMCap < Word
        BY GasAssumption
      <3>1. asked.max_gas \in Nat
        BY <3>0, <3>2
      <3>3. asked.max_gas < VMCap => 2 * asked.max_gas < Word
        BY <3>1, <3>2
      <3> QED
        BY <3>1, <3>2, <3>3 DEF EvalLimit, Int64
    <2>2. e \in Exprs
      BY <1>1, <1>7 DEF GoodQuery
    <2>3. reply' = Answer(EvalUnder(cap, p, e, Need[e]), <<p, e>>)
      BY <1>1, <1>7, <2>1 DEF Answers, EvalQuery
    <2>4. /\ reply'.code = EvalUnder(cap, p, e, Need[e])
          /\ reply'.code = "ok" => reply'.value = <<p, e>>
      BY <2>3 DEF Answer
    <2>5. AnswersWhatWasAsked'
      <3>1. <<p, e>>[1] = p /\ <<p, e>>[2] = e
        OBVIOUS
      <3> QED
        BY <1>1, <1>7, <2>4, <3>1 DEF AnswersWhatWasAsked
    <2>6. Need[e] \in Nat /\ (p \in Packages => Load[p] \in Nat)
      BY <2>2, GasAssumption
    <2> HIDE DEF cap, p, e
    <2>7. CASE p \notin Packages
      <3>1. EvalUnder(cap, p, e, Need[e]) = "error"
        <4>1. ~(cap < 0) /\ cap >= 0
          BY <2>1
        <4> QED
          BY <2>7, <4>1 DEF EvalUnder
      <3> QED
        BY <1>1, <2>4, <2>5, <2>7, <3>1 DEF EvalIsPaidFor, p
    <2>8. CASE p \in Packages
      <3>1. EvalUnder(cap, p, e, Need[e]) =
              IF Load[p] > cap THEN "panic"
              ELSE IF Load[p] + Need[e] > cap \/ e \in Panicking THEN "error" ELSE "ok"
        <4>1. ~(cap < 0) /\ cap >= 0
          BY <2>1
        <4> QED
          BY <2>8, <4>1 DEF EvalUnder
      <3>2. reply'.code = "ok" => Load[p] + Need[e] <= cap
        BY <2>1, <2>4, <2>6, <2>8, <3>1
      <3>3. reply'.code = "error" /\ e \notin Panicking => Load[p] + Need[e] > cap
        BY <2>4, <3>1
      <3>4. reply'.code = "panic" => Load[p] > cap
        BY <2>4, <3>1
      <3>5. EvalIsPaidFor'
        BY <1>1, <2>2, <2>8, <3>2, <3>3, <3>4 DEF EvalIsPaidFor, cap, p, e
      <3> QED
        BY <2>5, <3>5
    <2> QED
      BY <2>7, <2>8
  <1> QED
    BY <1>1, <1>2, <1>3, <1>4, <1>5, <1>6, <1>7 DEF GoodQuery, Methods

(* Every request a gRPC client may send has fields that fit. *)
LEMMA GrpcGood ==
    ASSUME NEW r \in GrpcRequests
    PROVE  GoodQuery(r)
  <1>1. 0 \in 0 .. Word - 1 /\ MaxGases \subseteq 0 .. Word - 1
    BY GasAssumption
  <1>2. CASE r = Request("Params")
    BY <1>1, <1>2 DEF Request, GoodQuery, Methods
  <1>3. CASE r # Request("Params")
    BY <1>1, <1>3 DEF GrpcRequests, GoodQuery, Methods
  <1> QED
    BY <1>2, <1>3

(* The queries' invariant survives every step. *)
LEMMA QueryStep ==
    ASSUME QueryInv, [Next]_vars
    PROVE  QueryInv'
  <1>0. NoQuery.method # "Eval" /\ NoReply.code = "none"
    BY DEF NoQuery, NoReply, Request
  <1>1. CASE SubmitTx
    <2>1. stage = "idle" /\ stage' \in {"ante", "done"} /\ UNCHANGED queryVars
      BY <1>1 DEF SubmitTx
    <2>2. asked' = NoQuery /\ reply' = NoReply
      BY <2>1 DEF QueryInv, queryVars
    <2>3. AnswersWhatWasAsked' /\ EvalIsPaidFor'
      BY <1>0, <2>2 DEF AnswersWhatWasAsked, EvalIsPaidFor
    <2> QED
      BY <2>1, <2>2, <2>3 DEF QueryInv
  <1>2. CASE AnteHandle \/ RunMsg \/ FinishTx
    <2>1. /\ stage \in {"ante", "msgs"} /\ stage' \in {"ante", "msgs", "done"}
          /\ UNCHANGED queryVars
      BY <1>2 DEF AnteHandle, RunMsg, GoesOn, EndsTx, FinishTx
    <2>2. asked' = NoQuery /\ reply' = NoReply
      BY <2>1 DEF QueryInv, queryVars
    <2>3. AnswersWhatWasAsked' /\ EvalIsPaidFor'
      BY <1>0, <2>2 DEF AnswersWhatWasAsked, EvalIsPaidFor
    <2> QED
      BY <2>1, <2>2, <2>3 DEF QueryInv
  <1>3. CASE HttpGet
    <2>1. PICK url \in Urls :
            /\ asked' = Meant(url) /\ query' = GatewayRequest(url)
            /\ IF GatewayRequest(url) = Refused
               THEN stage' = "done" /\ reply' = [code |-> "InvalidArgument", value |-> <<>>]
               ELSE stage' = "query" /\ reply' = NoReply
      BY <1>3 DEF HttpGet
    <2>2. reply'.code \in {"InvalidArgument", "none"}
      BY <2>1 DEF NoReply
    <2>3. AnswersWhatWasAsked' /\ EvalIsPaidFor'
      BY <2>2 DEF AnswersWhatWasAsked, EvalIsPaidFor
    <2>4. stage' = "query" => query' = asked' /\ GoodQuery(asked')
      BY <2>1, GatewayMeans
    <2> QED
      BY <2>1, <2>3, <2>4 DEF QueryInv
  <1>4. CASE GrpcCall
    <2>1. /\ stage' = "query" /\ reply' = NoReply /\ query' = asked'
          /\ asked' \in GrpcRequests
      BY <1>4 DEF GrpcCall
    <2>2. reply'.code = "none"
      BY <2>1 DEF NoReply
    <2> QED
      BY <2>1, <2>2, GrpcGood DEF QueryInv, AnswersWhatWasAsked, EvalIsPaidFor
  <1>5. CASE Serve
    <2>1. stage' = "done"
      BY <1>5 DEF Serve
    <2> QED
      BY <1>5, <2>1, ServeStep DEF QueryInv
  <1>6. CASE TakeReply \/ Restart
    <2>1. stage' = "idle" /\ asked' = NoQuery /\ reply' = NoReply
      BY <1>6 DEF TakeReply, Restart, Forget
    <2>2. reply'.code = "none"
      BY <2>1 DEF NoReply
    <2> QED
      BY <2>1, <2>2 DEF QueryInv, AnswersWhatWasAsked, EvalIsPaidFor
  <1>7. CASE UNCHANGED vars
    BY <1>7 DEF vars, queryVars, QueryInv, AnswersWhatWasAsked, EvalIsPaidFor
  <1> QED
    BY <1>1, <1>2, <1>3, <1>4, <1>5, <1>6, <1>7 DEF Next

LEMMA QueriesHold == Spec => []QueryInv
  <1>1. Init => QueryInv
    <2> HAVE Init
    <2>1. /\ stage = "idle" /\ asked = NoQuery /\ reply = NoReply
      BY DEF Init
    <2>2. reply.code = "none"
      BY <2>1 DEF NoReply
    <2> QED
      BY <2>1, <2>2 DEF QueryInv, AnswersWhatWasAsked, EvalIsPaidFor
  <1> QED
    BY <1>1, QueryStep, PTL DEF Spec

(* An answer is to the query that its client meant, whether it came        *)
(* through the gateway (query.pb.gw.go) or by gRPC.                        *)
THEOREM AnswersFit == Spec => []AnswersWhatWasAsked
  <1>1. QueryInv => AnswersWhatWasAsked
    BY DEF QueryInv
  <1> QED
    BY <1>1, QueriesHold, PTL

(* An evaluation is answered exactly when the limit that the client chose, *)
(* cut to the VM's own, pays for it (query_eval.go, EvalLimit).            *)
THEOREM EvalsFit == Spec => []EvalIsPaidFor
  <1>1. QueryInv => EvalIsPaidFor
    BY DEF QueryInv
  <1> QED
    BY <1>1, QueriesHold, PTL
=============================================================================
