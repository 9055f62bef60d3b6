------------------------- MODULE GnovmKeeperProofs -------------------------
(***************************************************************************)
(* Theorems about GnovmKeeper for every set of requests and packages.      *)
(***************************************************************************)
EXTENDS GnovmKeeper, TLAPS

(* A VM exists while somebody loads it. *)
LoadingHasVM == \A r \in Reqs : pc[r] = "loading" => vmKeeper # NoReq

TypeInv == TypeOK /\ LoadingHasVM

LEMMA InstalledType ==
    ASSUME TypeOK, NEW v \in Views
    PROVE  Installed(v) \subseteq Pkgs
<1>1. \A r \in v.wrote : msg[r].kind = "AddPackage" => msg[r].pkg \in Pkgs
  BY SMTT(30) DEF Views, TypeOK, Messages, QueryMessage
<1> QED
  BY <1>1, PkgAssumption DEF Installed

LEMMA ViewUpdates ==
    ASSUME NEW v \in Views, NEW r \in Reqs
    PROVE  /\ [v EXCEPT !.paid = @ \cup {r}] \in Views
           /\ [v EXCEPT !.wrote = @ \cup {r}] \in Views
           /\ [v EXCEPT !.vmp = r] \in Views
           /\ [v EXCEPT !.modp = r] \in Views
  BY DEF Views

LEMMA ChargeType ==
    ASSUME TypeOK, NEW c \in Contexts, NEW r \in Reqs \cup {NoReq}
    PROVE  Charge(c, r) \in [Reqs -> SUBSET (Reqs \cup {NoReq})]
  BY DEF Charge, TypeOK, Contexts

LEMMA ContextTypes ==
    ASSUME NEW r \in Reqs
    PROVE  OwnCtx(r) \in Contexts /\ InitCtx(r) \in Contexts /\ RestoredCtx(r) \in Contexts
  BY DEF OwnCtx, InitCtx, RestoredCtx, Contexts

(* What a write through the shared context does to the branches. *)
LEMMA WriteThroughType ==
    ASSUME TypeOK,
           NEW v, sdkCtx.owner \in Reqs => v \in Views
    PROVE  WriteThrough(sdkCtx, v) \in [Reqs -> Views]
  BY DEF WriteThrough, TypeOK

LEMMA GenesisViewType == GenesisView \in Views
  BY DEF GenesisView, Views

LEMMA TypeInit == Init => TypeInv
<1> SUFFICES ASSUME Init PROVE TypeInv
  OBVIOUS
<1>1. msg \in [Reqs -> Messages \cup {QueryMessage}]
  BY DEF Init
<1>2. /\ committed \in Views /\ block \in Views /\ history \subseteq Views
      /\ inBlock \subseteq Txs /\ branch \in [Reqs -> Views]
  BY GenesisViewType DEF Init
<1>3. sdkCtx \in Contexts
  BY DEF Init, ZeroCtx, Contexts
<1>4. /\ pc \in [Reqs -> Locations]
      /\ \A r \in Reqs : pc[r] = "idle"
  BY DEF Init, Locations
<1>5. /\ did \in [Reqs -> SUBSET {"pay", "write"}]
      /\ outcome \in [Reqs -> {"none", "ok", "err", "panic"}]
      /\ reply \in [Reqs -> {"none", "ok", "nil", "err"}]
      /\ meter \in [Reqs -> SUBSET (Reqs \cup {NoReq})]
      /\ vmInitialized \in BOOLEAN
      /\ vmKeeper \in Reqs \cup {NoReq}
      /\ loaded \subseteq Reqs
      /\ memory \in [Reqs -> SUBSET Pkgs]
      /\ txVM \in [Reqs -> Reqs \cup {NoReq}]
      /\ overlay \in [Reqs -> SUBSET Pkgs]
  BY DEF Init
<1> QED
  BY <1>1, <1>2, <1>3, <1>4, <1>5 DEF TypeInv, TypeOK, LoadingHasVM

LEMMA TypeNext == TypeInv /\ [Next]_vars => TypeInv'
<1> SUFFICES ASSUME TypeInv, [Next]_vars PROVE TypeInv'
  OBVIOUS
<1> USE DEF TypeInv
<1>1. ASSUME NEW r \in Reqs, NEW v \in Views, Start(r, v) PROVE TypeInv'
  BY <1>1 DEF Start, Goto, TypeOK, LoadingHasVM, Locations, chainVars, vmVars
<1>2. ASSUME NEW r \in Reqs, DeliverTx(r) PROVE TypeInv'
  BY <1>1, <1>2 DEF DeliverTx, TypeOK
<1>3. ASSUME NEW r \in Reqs, Simulate(r) PROVE TypeInv'
  BY <1>1, <1>3 DEF Simulate, TypeOK
<1>4. ASSUME NEW r \in Reqs, ServeQuery(r) PROVE TypeInv'
  BY <1>1, <1>4 DEF ServeQuery, TypeOK
<1>5. ASSUME NEW r \in Reqs, Refuse(r) PROVE TypeInv'
  BY <1>5 DEF Refuse, Answer, Goto, TypeOK, LoadingHasVM, Locations, chainVars, vmVars
<1>6. ASSUME NEW r \in Reqs, SetContext(r) PROVE TypeInv'
  BY <1>6, ContextTypes
  DEF SetContext, Goto, TypeOK, LoadingHasVM, Locations, chainVars, reqVars
<1>7. ASSUME NEW r \in Reqs, CheckInitialized(r) PROVE TypeInv'
  BY <1>7 DEF CheckInitialized, TypeOK, LoadingHasVM, Locations, chainVars, vmVars, reqVars
<1>unmetered. ASSUME NEW r \in Reqs, SetInitContext(r) PROVE TypeInv'
  BY <1>unmetered, ContextTypes
  DEF SetInitContext, Goto, TypeOK, LoadingHasVM, Locations, chainVars, reqVars
<1>8. ASSUME NEW r \in Reqs, NewVM(r) PROVE TypeInv'
  BY <1>8, ReqAssumption
  DEF NewVM, Goto, TypeOK, LoadingHasVM, Locations, chainVars, reqVars
<1>9. ASSUME NEW r \in Reqs, LoadVM(r) PROVE TypeInv'
  <2>1. Installed(branch[r]) \in SUBSET Pkgs
    BY InstalledType DEF TypeOK
  <2>2. meter' \in [Reqs -> SUBSET (Reqs \cup {NoReq})]
    BY <1>9, ChargeType, ContextTypes DEF LoadVM
  <2>3. vmKeeper \in Reqs
    BY <1>9 DEF LoadVM, Goto, LoadingHasVM, TypeOK
  <2> QED
    BY <1>9, <2>1, <2>2, <2>3, ContextTypes
    DEF LoadVM, Goto, TypeOK, LoadingHasVM, Locations, chainVars
<1>10. ASSUME NEW r \in Reqs, BeginTransaction(r) PROVE TypeInv'
  BY <1>10 DEF BeginTransaction, Goto, TypeOK, LoadingHasVM, Locations, chainVars, vmVars
<1>11. ASSUME NEW r \in Reqs, StopBeforeVM(r) PROVE TypeInv'
  BY <1>11 DEF StopBeforeVM, Answer, Goto, TypeOK, LoadingHasVM, Locations, chainVars, vmVars
<1>12. ASSUME NEW r \in Reqs, Pay(r) PROVE TypeInv'
  <2>1. branch' \in [Reqs -> Views]
    BY <1>12, ViewUpdates, WriteThroughType DEF Pay, TypeOK
  <2>2. meter' \in [Reqs -> SUBSET (Reqs \cup {NoReq})]
    BY <1>12, ChargeType DEF Pay, TypeOK
  <2> QED
    BY <1>12, <2>1, <2>2 DEF Pay, TypeOK, LoadingHasVM, chainVars, vmVars
<1>13. ASSUME NEW r \in Reqs, Write(r) PROVE TypeInv'
  <2>1. branch' \in [Reqs -> Views]
    <3>1. branch' = [branch EXCEPT ![r] = [branch[r] EXCEPT !.wrote = @ \cup {r}]]
      BY <1>13 DEF Write, TypeOK
    <3> QED
      BY <3>1, ViewUpdates DEF TypeOK
  <2>2. meter' \in [Reqs -> SUBSET (Reqs \cup {NoReq})]
    BY <1>13, ChargeType, ContextTypes DEF Write
  <2>3. overlay' \in [Reqs -> SUBSET Pkgs]
    BY <1>13 DEF Write, TypeOK, Messages, QueryMessage
  <2> QED
    BY <1>13, <2>1, <2>2, <2>3 DEF Write, TypeOK, LoadingHasVM, chainVars, vmVars
<1>14. ASSUME NEW r \in Reqs, VMReturn(r) PROVE TypeInv'
  <2> PICK out \in {"ok", "err", "panic"} :
        /\ Answer(r, out, HandlerReply(msg[r].kind, out))
        /\ memory' = CommitTransaction(r, out)
    BY <1>14 DEF VMReturn
  <2>1. HandlerReply(msg[r].kind, out) \in {"ok", "nil", "err"}
    BY DEF HandlerReply
  <2>2. memory' \in [Reqs -> SUBSET Pkgs]
    BY DEF CommitTransaction, TypeOK
  <2> QED
    BY <1>14, <2>1, <2>2
    DEF VMReturn, Answer, Goto, TypeOK, LoadingHasVM, Locations, chainVars
<1>query. ASSUME NEW r \in Reqs, QueryReturn(r) PROVE TypeInv'
  BY <1>query DEF QueryReturn, Answer, Goto, TypeOK, LoadingHasVM, Locations, chainVars, vmVars
<1>15. ASSUME NEW r \in Reqs, SetVMParams(r) PROVE TypeInv'
  <2>1. WriteThrough(sdkCtx, [branch[sdkCtx.owner] EXCEPT !.vmp = r]) \in [Reqs -> Views]
    BY ViewUpdates, WriteThroughType DEF TypeOK
  <2>2. Charge(sdkCtx, r) \in [Reqs -> SUBSET (Reqs \cup {NoReq})]
    BY ChargeType DEF TypeOK
  <2> QED
    BY <1>15, <2>1, <2>2, SMTT(30)
    DEF SetVMParams, Answer, Goto, TypeOK, LoadingHasVM, Locations, chainVars, vmVars
<1>16. ASSUME NEW r \in Reqs, SetModuleParams(r) PROVE TypeInv'
  <2>1. [branch EXCEPT ![r].modp = r] \in [Reqs -> Views]
    <3>1. [branch EXCEPT ![r].modp = r] = [branch EXCEPT ![r] = [branch[r] EXCEPT !.modp = r]]
      BY DEF TypeOK
    <3> QED
      BY <3>1, ViewUpdates DEF TypeOK
  <2>2. Charge(OwnCtx(r), r) \in [Reqs -> SUBSET (Reqs \cup {NoReq})]
    BY ChargeType, ContextTypes
  <2> QED
    BY <1>16, <2>1, <2>2
    DEF SetModuleParams, Answer, Goto, TypeOK, LoadingHasVM, Locations, chainVars, vmVars
<1>17. ASSUME NEW r \in Reqs, Dispose(r) PROVE TypeInv'
  BY <1>17, GenesisViewType
  DEF Dispose, NextBlock, Answer, Goto, TypeOK, LoadingHasVM, Locations, vmVars
<1>18. ASSUME CommitBlock PROVE TypeInv'
  BY <1>18 DEF CommitBlock, TypeOK, LoadingHasVM, vmVars, reqVars
<1>19. ASSUME NEW R, Forget(R)
       PROVE  /\ pc' \in [Reqs -> Locations]
              /\ branch' \in [Reqs -> Views]
              /\ did' \in [Reqs -> SUBSET {"pay", "write"}]
              /\ outcome' \in [Reqs -> {"none", "ok", "err", "panic"}]
              /\ reply' \in [Reqs -> {"none", "ok", "nil", "err"}]
              /\ meter' \in [Reqs -> SUBSET (Reqs \cup {NoReq})]
              /\ txVM' \in [Reqs -> Reqs \cup {NoReq}]
              /\ overlay' \in [Reqs -> SUBSET Pkgs]
              /\ \A r \in Reqs : pc'[r] = "loading" => pc[r] = "loading" /\ r \notin R
  BY <1>19, GenesisViewType DEF Forget, TypeOK, Locations
<1>20. ASSUME AbortBlock PROVE TypeInv'
  BY <1>20, <1>19 DEF AbortBlock, TypeOK, LoadingHasVM, vmVars
<1>21. ASSUME Restart PROVE TypeInv'
  <2>1. \A r \in Reqs : pc'[r] # "loading"
    BY <1>21, <1>19 DEF Restart, LostByRestart, Active
  <2> QED
    BY <1>21, <1>19, <2>1 DEF Restart, TypeOK, LoadingHasVM, ZeroCtx, Contexts
<1>22. CASE UNCHANGED vars
  BY <1>22 DEF vars, chainVars, vmVars, reqVars, TypeOK, LoadingHasVM
<1> QED
  BY <1>2, <1>3, <1>4, <1>5, <1>6, <1>7, <1>8, <1>9, <1>10, <1>11, <1>12, <1>13,
     <1>14, <1>query, <1>unmetered, <1>15, <1>16, <1>17, <1>18, <1>20, <1>21, <1>22
  DEF Next, Handle

(* Every variable of the keeper keeps its type. *)
THEOREM TypeCorrect == Spec => []TypeOK
<1>1. TypeInv => TypeOK
  BY DEF TypeInv
<1> QED
  BY TypeInit, TypeNext, <1>1, PTL DEF Spec

(* What all handler steps between the start of a request and its disposal  *)
(* have in common.                                                         *)
HandlerStep(r) ==
    /\ UNCHANGED <<msg, chainVars>>
    /\ Active(r) /\ Active(r)'
    /\ \A q \in Reqs \ {r} : pc'[q] = pc[q] /\ reply'[q] = reply[q]
    /\ \A q \in Reqs : branch'[q].wrote \subseteq branch[q].wrote \cup
                                       (IF q = r THEN {r} ELSE {})
    /\ \A q \in Reqs : branch[q].wrote \subseteq branch'[q].wrote

LEMMA WriteThroughKeepsWrites ==
    ASSUME TypeOK, NEW v,
           sdkCtx.owner \in Reqs => v.wrote = branch[sdkCtx.owner].wrote
    PROVE  \A q \in Reqs : WriteThrough(sdkCtx, v)[q].wrote = branch[q].wrote
  BY DEF WriteThrough, TypeOK

LEMMA HandlerSteps ==
    ASSUME TypeOK, NEW r \in Reqs,
           \/ Refuse(r) \/ Pay(r) \/ Write(r) \/ SetContext(r) \/ CheckInitialized(r)
           \/ SetInitContext(r) \/ NewVM(r) \/ LoadVM(r) \/ BeginTransaction(r)
           \/ StopBeforeVM(r)
           \/ VMReturn(r) \/ QueryReturn(r) \/ SetVMParams(r) \/ SetModuleParams(r)
    PROVE  HandlerStep(r)
<1> USE DEF HandlerStep, TypeOK, Active, Goto, Answer
<1>1. CASE Refuse(r)
  BY <1>1 DEF Refuse
<1>2. CASE Pay(r)
  <2>1. \A q \in Reqs : branch'[q].wrote = branch[q].wrote
    BY <1>2, WriteThroughKeepsWrites DEF Pay, Views
  <2> QED
    BY <1>2, <2>1 DEF Pay
<1>3. CASE Write(r)
  BY <1>3 DEF Write, Views
<1>4. CASE SetContext(r)
  BY <1>4 DEF SetContext, reqVars
<1>5. CASE CheckInitialized(r)
  BY <1>5 DEF CheckInitialized, reqVars
<1>unmetered. CASE SetInitContext(r)
  BY <1>unmetered DEF SetInitContext, reqVars
<1>6. CASE NewVM(r)
  BY <1>6 DEF NewVM, reqVars
<1>7. CASE LoadVM(r)
  BY <1>7 DEF LoadVM
<1>8. CASE BeginTransaction(r)
  BY <1>8 DEF BeginTransaction
<1>9. CASE StopBeforeVM(r)
  BY <1>9 DEF StopBeforeVM
<1>10. CASE VMReturn(r)
  BY <1>10 DEF VMReturn
<1>query. CASE QueryReturn(r)
  BY <1>query DEF QueryReturn
<1>11. CASE SetVMParams(r)
  <2>1. \A q \in Reqs : branch'[q].wrote = branch[q].wrote
    <3>1. CASE UNCHANGED branch
      BY <3>1
    <3>2. CASE branch' = WriteThrough(sdkCtx, [branch[sdkCtx.owner] EXCEPT !.vmp = r])
      BY <3>2, WriteThroughKeepsWrites DEF Views
    <3> QED
      BY <1>11, <3>1, <3>2 DEF SetVMParams
  <2> QED
    BY <1>11, <2>1 DEF SetVMParams
<1>12. CASE SetModuleParams(r)
  <2>1. \A q \in Reqs : branch'[q].wrote = branch[q].wrote
    <3>1. CASE UNCHANGED branch
      BY <3>1
    <3>2. CASE branch' = [branch EXCEPT ![r].modp = r]
      BY <3>2 DEF Views
    <3> QED
      BY <1>12, <3>1, <3>2 DEF SetModuleParams
  <2> QED
    BY <1>12, <2>1 DEF SetModuleParams
<1> QED
  BY <1>1, <1>2, <1>3, <1>4, <1>5, <1>unmetered, <1>6, <1>7, <1>8, <1>9, <1>10, <1>query,
     <1>11, <1>12

-----------------------------------------------------------------------------
(* Package-store writes. *)

WritesInv ==
    /\ WritesFromSuccessfulTxs
    /\ \A t, u \in Txs : Active(t) /\ Active(u) => t = u
    /\ \A t \in Txs : Active(t) => branch[t].wrote \subseteq Succeeded \cup {t}

LEMMA WritesInit == Init => WritesInv
  BY DEF Init, GenesisView, WritesInv, WritesFromSuccessfulTxs, Active, Reqs

LEMMA HandlerStepKeepsSucceeded ==
    ASSUME TypeOK, NEW r \in Reqs, HandlerStep(r)
    PROVE  Succeeded' = Succeeded
  BY DEF HandlerStep, Succeeded, Applied, Active, Reqs, TypeOK

LEMMA WritesNext == TypeOK /\ WritesInv /\ [Next]_vars => WritesInv'
<1> SUFFICES ASSUME TypeOK, WritesInv, [Next]_vars PROVE WritesInv'
  OBVIOUS
<1>1. ASSUME NEW r \in Reqs, HandlerStep(r) PROVE WritesInv'
  <2>1. Succeeded' = Succeeded
    BY <1>1, HandlerStepKeepsSucceeded
  <2>2. \A q \in Reqs : Active(q)' <=> Active(q)
    BY <1>1 DEF HandlerStep, Active
  <2>3. WritesFromSuccessfulTxs'
    BY <1>1, <2>1, <2>2
    DEF HandlerStep, WritesInv, WritesFromSuccessfulTxs, Settled, Succeeded, chainVars
  <2> QED
    BY <1>1, <2>1, <2>2, <2>3 DEF WritesInv, HandlerStep, Reqs
<1>2. ASSUME NEW r \in Reqs, NEW v, Start(r, v),
             r \in Txs => (v = block /\ \A u \in Txs : ~Active(u))
      PROVE  WritesInv'
  <2>1. Succeeded' = Succeeded
    BY <1>2 DEF Start, Goto, Succeeded, Applied, TypeOK
  <2>2. WritesFromSuccessfulTxs'
    BY <1>2, <2>1
    DEF Start, Goto, WritesInv, WritesFromSuccessfulTxs, Settled, Succeeded, chainVars
  <2>3. \A t \in Txs : Active(t)' => (IF t = r THEN branch'[t] = block
                                      ELSE Active(t) /\ branch'[t] = branch[t])
    BY <1>2 DEF Start, Goto, Active, TypeOK, Reqs
  <2> QED
    BY <1>2, <2>1, <2>2, <2>3 DEF WritesInv, WritesFromSuccessfulTxs
<1>3. ASSUME NEW r \in Reqs, DeliverTx(r) PROVE WritesInv'
  BY <1>2, <1>3 DEF DeliverTx
<1>4. ASSUME NEW r \in Reqs, Simulate(r) PROVE WritesInv'
  BY <1>2, <1>4, ReqAssumption DEF Simulate
<1>5. ASSUME NEW r \in Reqs, ServeQuery(r) PROVE WritesInv'
  BY <1>2, <1>5, ReqAssumption DEF ServeQuery
<1>6. ASSUME NEW r \in Reqs, Dispose(r) PROVE WritesInv'
  <2>1. /\ pc[r] = "replied" /\ pc' = [pc EXCEPT ![r] = "done"]
        /\ msg' = msg /\ committed' = committed
        /\ block' = IF Applied(r) THEN branch[r] ELSE block
        /\ inBlock' = IF r \in Txs THEN inBlock \cup {r} ELSE inBlock
        /\ branch' = [branch EXCEPT ![r] = GenesisView]
        /\ \A q \in Txs : reply'[q] = reply[q]
    BY <1>6, ReqAssumption DEF Dispose, NextBlock, Goto, Answer, TypeOK, Reqs
  <2>2. Succeeded' = Succeeded \cup (IF Applied(r) THEN {r} ELSE {})
    BY <2>1 DEF Succeeded, Applied, TypeOK, Reqs
  <2>3. r \notin Succeeded
    BY <2>1 DEF Succeeded
  <2>4. block'.wrote \subseteq Succeeded'
    BY <2>1, <2>2 DEF WritesInv, WritesFromSuccessfulTxs, Applied, Active
  <2>5. committed'.wrote \subseteq {t \in Succeeded' : Settled(t)'}
    BY <2>1, <2>2, <2>3 DEF WritesInv, WritesFromSuccessfulTxs, Settled, TypeOK, Succeeded
  <2>6. \A t \in Txs : Active(t)' => Active(t) /\ t # r /\ branch'[t] = branch[t]
    BY <2>1 DEF Active, TypeOK, Reqs
  <2> QED
    BY <2>2, <2>4, <2>5, <2>6 DEF WritesInv, WritesFromSuccessfulTxs
<1>7. ASSUME CommitBlock PROVE WritesInv'
  <2>1. Succeeded' = Succeeded
    BY <1>7 DEF CommitBlock, Succeeded, Applied, reqVars
  <2> QED
    BY <1>7, <2>1
    DEF CommitBlock, WritesInv, WritesFromSuccessfulTxs, Settled, Active, Succeeded, reqVars
<1>8. ASSUME NEW R, Forget(R), block' = committed, committed' = committed,
             msg' = msg, inBlock' = {}, inBlock \subseteq R,
             R \subseteq inBlock \cup {r \in Reqs : Active(r)},
             \A t \in Txs : Active(t) => t \in R
      PROVE  WritesInv'
  <2>1. \A t \in Txs : ~Active(t)'
    BY <1>8 DEF Forget, Active, Reqs
  <2>2. \A t \in Succeeded : t \notin inBlock => t \in Succeeded' /\ pc'[t] = "done"
    BY <1>8 DEF Forget, Succeeded, Applied, Active, Reqs
  <2> QED
    BY <1>8, <2>1, <2>2 DEF WritesInv, WritesFromSuccessfulTxs, Settled, Succeeded
<1>9. ASSUME AbortBlock PROVE WritesInv'
  BY <1>9, <1>8 DEF AbortBlock
<1>10. ASSUME Restart PROVE WritesInv'
  BY <1>10, <1>8 DEF Restart, LostByRestart, Reqs
<1>11. CASE UNCHANGED vars
  BY <1>11
  DEF vars, chainVars, reqVars, WritesInv, WritesFromSuccessfulTxs, Settled, Succeeded,
      Applied, Active
<1> QED
  BY <1>1, <1>3, <1>4, <1>5, <1>6, <1>7, <1>9, <1>10, <1>11, HandlerSteps
  DEF Next, Handle

(* However requests overlap, fail, panic, restart or are dropped, package- *)
(* store writes reach the chain only from successful transactions.         *)
THEOREM WritesAreIsolated == Spec => []WritesFromSuccessfulTxs
<1>1. TypeInv => TypeOK
  BY DEF TypeInv
<1>2. WritesInv => WritesFromSuccessfulTxs
  BY DEF WritesInv
<1> QED
  BY TypeInit, TypeNext, WritesInit, WritesNext, <1>1, <1>2, PTL DEF Spec

(* Building the VM is charged to no request's meter, however requests      *)
(* overlap: every node reports the same gas for the same transaction.      *)
THEOREM InitIsNeverCharged == Spec => []InitNotCharged
<1> DEFINE Inv == TypeInv /\ InitNotCharged
<1>1. Init => Inv
  BY TypeInit DEF Init, InitNotCharged
<1>2. Inv /\ [Next]_vars => Inv'
  <2> SUFFICES ASSUME Inv, [Next]_vars PROVE InitNotCharged'
    BY TypeNext
  <2> USE DEF InitNotCharged, TypeInv
  <2>1. ASSUME NEW r \in Reqs, NEW c \in Contexts, meter' = Charge(c, r)
        PROVE  InitNotCharged'
    BY <2>1, ReqAssumption DEF Charge, Contexts, TypeOK
  <2>2. ASSUME NEW r \in Reqs, Refuse(r) \/ SetContext(r) \/ CheckInitialized(r)
                               \/ SetInitContext(r) \/ NewVM(r) \/ BeginTransaction(r)
                               \/ StopBeforeVM(r) \/ VMReturn(r) \/ QueryReturn(r)
        PROVE  InitNotCharged'
    BY <2>2 DEF Refuse, SetContext, CheckInitialized, SetInitContext, NewVM, BeginTransaction,
                StopBeforeVM, VMReturn, QueryReturn, reqVars
  <2>3. ASSUME NEW r \in Reqs, DeliverTx(r) \/ Simulate(r) \/ ServeQuery(r)
        PROVE  InitNotCharged'
    BY <2>3 DEF DeliverTx, Simulate, ServeQuery, Start
  <2>4. ASSUME NEW r \in Reqs, LoadVM(r) PROVE InitNotCharged'
    BY <2>4 DEF LoadVM, Charge, InitCtx
  <2>5. ASSUME NEW r \in Reqs, Pay(r) PROVE InitNotCharged'
    BY <2>1, <2>5 DEF Pay, TypeOK
  <2>6. ASSUME NEW r \in Reqs, Write(r) PROVE InitNotCharged'
    BY <2>1, <2>6, ContextTypes DEF Write
  <2>7. ASSUME NEW r \in Reqs, SetVMParams(r) PROVE InitNotCharged'
    BY <2>1, <2>7 DEF SetVMParams, TypeOK
  <2>8. ASSUME NEW r \in Reqs, SetModuleParams(r) PROVE InitNotCharged'
    BY <2>1, <2>8, ContextTypes DEF SetModuleParams
  <2>9. ASSUME NEW r \in Reqs, Dispose(r) PROVE InitNotCharged'
    BY <2>9 DEF Dispose, TypeOK
  <2>10. CASE CommitBlock
    BY <2>10 DEF CommitBlock, reqVars
  <2>11. CASE AbortBlock
    BY <2>11 DEF AbortBlock, Forget
  <2>12. CASE Restart
    BY <2>12 DEF Restart, Forget
  <2>13. CASE UNCHANGED vars
    BY <2>13 DEF vars, reqVars
  <2> QED
    BY <2>2, <2>3, <2>4, <2>5, <2>6, <2>7, <2>8, <2>9, <2>10, <2>11, <2>12, <2>13
    DEF Next, Handle
<1>3. Inv => InitNotCharged
  OBVIOUS
<1> QED
  BY <1>1, <1>2, <1>3, PTL DEF Spec

-----------------------------------------------------------------------------
(* Settled transactions. *)

(* What a settled transaction wrote is the same in the committed state, in *)
(* the block's state and in the branch of the transaction in progress.     *)
FinalInv ==
    /\ \A t \in Txs : Settled(t) => (t \in block.wrote <=> t \in committed.wrote)
    /\ \A u, t \in Txs :
         Active(u) /\ Settled(t) => (t \in branch[u].wrote <=> t \in block.wrote)

LEMMA FinalInit == Init => FinalInv
  BY DEF Init, FinalInv, Settled, Reqs

LEMMA FinalNext ==
    ASSUME TypeOK, WritesInv, FinalInv, [Next]_vars
    PROVE  /\ FinalInv'
           /\ \A t \in Txs : Settled(t) =>
                /\ Settled(t)' /\ reply'[t] = reply[t]
                /\ t \in committed'.wrote <=> t \in committed.wrote
<1> DEFINE Kept == \A t \in Txs : Settled(t) =>
                     /\ Settled(t)' /\ reply'[t] = reply[t]
                     /\ t \in committed'.wrote <=> t \in committed.wrote
<1>0. Txs \subseteq Reqs
  BY DEF Reqs
<1>1. ASSUME NEW r \in Reqs, HandlerStep(r) PROVE FinalInv' /\ Kept
  <2>1. /\ committed' = committed /\ block' = block /\ inBlock' = inBlock
        /\ \A q \in Reqs : Active(q)' <=> Active(q)
        /\ \A q \in Reqs : ~Active(q) => pc'[q] = pc[q] /\ reply'[q] = reply[q]
    BY <1>1 DEF HandlerStep, Active, chainVars
  <2>2. \A t \in Txs : (Settled(t)' <=> Settled(t)) /\ (Settled(t) => reply'[t] = reply[t])
    BY <1>0, <2>1 DEF Settled, Active
  <2>3. \A u, t \in Txs : Settled(t) => (t \in branch'[u].wrote <=> t \in branch[u].wrote)
    BY <1>0, <1>1 DEF HandlerStep, Settled, Active
  <2> QED
    BY <1>0, <2>1, <2>2, <2>3 DEF FinalInv
<1>2. ASSUME NEW r \in Reqs, NEW v, Start(r, v), r \in Txs => v = block
      PROVE  FinalInv' /\ Kept
  <2>1. /\ committed' = committed /\ block' = block /\ inBlock' = inBlock /\ reply' = reply
        /\ pc[r] = "idle"
        /\ \A q \in Reqs : IF q = r THEN pc'[q] = "entered" /\ branch'[q] = v
                           ELSE pc'[q] = pc[q] /\ branch'[q] = branch[q]
    BY <1>2 DEF Start, Goto, chainVars, TypeOK
  <2>2. \A t \in Txs : Settled(t)' <=> Settled(t)
    BY <1>0, <2>1 DEF Settled
  <2>3. \A u \in Txs : Active(u)' => branch'[u] = block \/ (Active(u) /\ branch'[u] = branch[u])
    BY <1>0, <1>2, <2>1 DEF Active
  <2> QED
    BY <2>1, <2>2, <2>3 DEF FinalInv
<1>3. ASSUME NEW r \in Reqs, DeliverTx(r) \/ Simulate(r) \/ ServeQuery(r)
      PROVE  FinalInv' /\ Kept
  BY <1>2, <1>3, ReqAssumption DEF DeliverTx, Simulate, ServeQuery
<1>4. ASSUME NEW r \in Reqs, Dispose(r) PROVE FinalInv' /\ Kept
  <2>1. /\ pc[r] = "replied" /\ pc' = [pc EXCEPT ![r] = "done"]
        /\ committed' = committed
        /\ block' = IF Applied(r) THEN branch[r] ELSE block
        /\ inBlock' = IF r \in Txs THEN inBlock \cup {r} ELSE inBlock
        /\ \A q \in Txs : reply'[q] = reply[q]
    BY <1>4, ReqAssumption DEF Dispose, NextBlock, Goto, Answer, TypeOK, Reqs
  <2>2. branch' = [branch EXCEPT ![r] = GenesisView]
    BY <1>4 DEF Dispose
  <2>3. \A t \in Txs : Settled(t)' <=> Settled(t)
    BY <1>0, <2>1 DEF Settled, TypeOK
  <2>4. \A t \in Txs : Settled(t) => (t \in block'.wrote <=> t \in block.wrote)
    BY <2>1 DEF Applied, FinalInv, Active
  <2>5. \A u \in Txs : Active(u)' => Active(u) /\ u # r /\ branch'[u] = branch[u]
    BY <1>0, <2>1, <2>2 DEF Active, TypeOK
  <2> QED
    BY <2>1, <2>3, <2>4, <2>5 DEF FinalInv
<1>5. CASE CommitBlock
  <2>1. /\ committed' = block /\ block' = block /\ inBlock' = {} /\ pc' = pc /\ reply' = reply
        /\ \A t \in Txs : ~Active(t)'
    BY <1>5 DEF CommitBlock, reqVars, Active
  <2> QED
    BY <2>1 DEF FinalInv, Settled
<1>6. ASSUME NEW R, Forget(R), block' = committed, committed' = committed, inBlock' = {},
             inBlock \subseteq R, R \subseteq inBlock \cup {r \in Reqs : Active(r)},
             \A t \in Txs : Active(t) => t \in R
      PROVE  FinalInv' /\ Kept
  <2>1. \A t \in Txs : ~Active(t)'
    BY <1>0, <1>6 DEF Forget, Active
  <2>2. \A t \in Txs : Settled(t) => Settled(t)' /\ reply'[t] = reply[t]
    BY <1>0, <1>6 DEF Forget, Settled, Active
  <2> QED
    BY <1>6, <2>1, <2>2 DEF FinalInv
<1>7. CASE AbortBlock
  BY <1>6, <1>7 DEF AbortBlock
<1>8. CASE Restart
  BY <1>6, <1>8 DEF Restart, LostByRestart, Reqs
<1>9. CASE UNCHANGED vars
  BY <1>9 DEF vars, chainVars, reqVars, FinalInv, Settled, Active
<1> QED
  BY <1>1, <1>3, <1>4, <1>5, <1>7, <1>8, <1>9, HandlerSteps DEF Next, Handle

(* What a committed transaction wrote, and the answer it got, stay as they *)
(* are through overlapping requests, restarts and abandoned proposals.     *)
THEOREM SettledStaysFinal == Spec => SettledIsFinal
<1> DEFINE Inv == TypeOK /\ WritesInv /\ FinalInv
<1>1. TypeInv => TypeOK
  BY DEF TypeInv
<1>2. Inv /\ [Next]_vars =>
        [\A t \in Txs : Settled(t) =>
           /\ Settled(t)'
           /\ reply'[t] = reply[t]
           /\ t \in committed'.wrote <=> t \in committed.wrote]_vars
  BY FinalNext
<1>3. Inv /\ [Next]_vars => FinalInv'
  BY FinalNext
<1> QED
  BY TypeInit, TypeNext, WritesInit, WritesNext, FinalInit, <1>1, <1>2, <1>3, PTL
  DEF Spec, SettledIsFinal

-----------------------------------------------------------------------------
(* Panics of the VM. *)

(* A request has no outcome before its handler ran, and one whose VM       *)
(* panicked has an error, or the nil of Run that cannot be encoded.        *)
PanicInv ==
    \A r \in Reqs :
      /\ pc[r] \in {"idle", "entered"} => outcome[r] = "none"
      /\ outcome[r] = "panic" => ~Applied(r)

LEMMA PanicNext ==
    ASSUME "AddPackage" \notin MayPanic, TypeOK, PanicInv, [Next]_vars
    PROVE  PanicInv'
<1> USE DEF PanicInv, TypeOK, Applied, Goto, Answer
<1>1. ASSUME NEW r \in Reqs, DeliverTx(r) \/ Simulate(r) \/ ServeQuery(r) PROVE PanicInv'
  BY <1>1 DEF DeliverTx, Simulate, ServeQuery, Start
<1>2. ASSUME NEW r \in Reqs, Refuse(r) PROVE PanicInv'
  BY <1>2 DEF Refuse
<1>3. ASSUME NEW r \in Reqs, Pay(r) \/ Write(r) \/ SetContext(r) \/ CheckInitialized(r)
                             \/ SetInitContext(r) \/ NewVM(r) \/ LoadVM(r)
                             \/ BeginTransaction(r)
      PROVE  PanicInv'
  BY <1>3 DEF Pay, Write, SetContext, CheckInitialized, SetInitContext, NewVM, LoadVM,
              BeginTransaction, reqVars
<1>4. ASSUME NEW r \in Reqs, StopBeforeVM(r) PROVE PanicInv'
  BY <1>4 DEF StopBeforeVM
<1>5. ASSUME NEW r \in Reqs, VMReturn(r) PROVE PanicInv'
  BY <1>5 DEF VMReturn, HandlerReply, Panics
<1>6. ASSUME NEW r \in Reqs, QueryReturn(r) PROVE PanicInv'
  BY <1>6 DEF QueryReturn
<1>7. ASSUME NEW r \in Reqs, SetVMParams(r) PROVE PanicInv'
  BY <1>7 DEF SetVMParams
<1>8. ASSUME NEW r \in Reqs, SetModuleParams(r) PROVE PanicInv'
  BY <1>8 DEF SetModuleParams
<1>9. ASSUME NEW r \in Reqs, Dispose(r) PROVE PanicInv'
  BY <1>9 DEF Dispose
<1>10. CASE CommitBlock
  BY <1>10 DEF CommitBlock, reqVars
<1>11. CASE AbortBlock
  BY <1>11 DEF AbortBlock, Forget
<1>12. CASE Restart
  BY <1>12 DEF Restart, Forget
<1>13. CASE UNCHANGED vars
  BY <1>13 DEF vars, reqVars
<1> QED
  BY <1>1, <1>2, <1>3, <1>4, <1>5, <1>6, <1>7, <1>8, <1>9, <1>10, <1>11, <1>12, <1>13
  DEF Next, Handle

(* As long as only calls and runs panic, no message during which the VM    *)
(* panicked is applied, however requests overlap: Call returns the error   *)
(* that its recover assigns, and the nil of Run cannot be encoded.         *)
THEOREM PanicsAreNotApplied ==
    ASSUME "AddPackage" \notin MayPanic
    PROVE  Spec => []PanicNeverApplied
<1>1. Init => PanicInv
  BY DEF Init, PanicInv
<1>2. TypeInv => TypeOK
  BY DEF TypeInv
<1>3. TypeOK /\ PanicInv /\ [Next]_vars => PanicInv'
  BY PanicNext
<1>4. PanicInv => PanicNeverApplied
  BY DEF PanicInv, PanicNeverApplied, Succeeded, Reqs
<1> QED
  BY TypeInit, TypeNext, <1>1, <1>2, <1>3, <1>4, PTL DEF Spec

-----------------------------------------------------------------------------
(* When requests do not overlap, the shared context belongs to the request *)
(* that is being handled.                                                  *)

SerialInv ==
    /\ \A q, r \in Reqs : Active(q) /\ Active(r) => q = r
    /\ \A r \in Reqs :
         /\ pc[r] \in {"ctxSet", "ready", "running", "paramsHalf"} => sdkCtx = OwnCtx(r)
         /\ pc[r] \notin {"replied", "done"} => reply[r] = "none"

LEMMA SerialInit == Init => SerialInv
  BY DEF Init, SerialInv, Active

LEMMA SerialNext ==
    ASSUME Overlap = FALSE
    PROVE  TypeOK /\ SerialInv /\ [Next]_vars => SerialInv'
<1> SUFFICES ASSUME TypeOK, SerialInv, [Next]_vars PROVE SerialInv'
  OBVIOUS
<1> USE DEF SerialInv, Active, Goto, Answer, TypeOK
<1>1. ASSUME NEW r \in Reqs, DeliverTx(r) \/ Simulate(r) \/ ServeQuery(r) PROVE SerialInv'
  BY <1>1 DEF DeliverTx, Simulate, ServeQuery, MayStart, Start, vmVars
<1>2. ASSUME NEW r \in Reqs, Refuse(r) PROVE SerialInv'
  BY <1>2 DEF Refuse, vmVars
<1>3. ASSUME NEW r \in Reqs, SetContext(r) PROVE SerialInv'
  BY <1>3 DEF SetContext, reqVars
<1>4. ASSUME NEW r \in Reqs, CheckInitialized(r) PROVE SerialInv'
  BY <1>4 DEF CheckInitialized, vmVars, reqVars
<1>unmetered. ASSUME NEW r \in Reqs, SetInitContext(r) PROVE SerialInv'
  BY <1>unmetered DEF SetInitContext, reqVars
<1>5. ASSUME NEW r \in Reqs, NewVM(r) PROVE SerialInv'
  BY <1>5 DEF NewVM, reqVars
<1>6. ASSUME NEW r \in Reqs, LoadVM(r) PROVE SerialInv'
  BY <1>6 DEF LoadVM, RestoredCtx
<1>7. ASSUME NEW r \in Reqs, BeginTransaction(r) PROVE SerialInv'
  BY <1>7 DEF BeginTransaction, vmVars
<1>8. ASSUME NEW r \in Reqs, StopBeforeVM(r) PROVE SerialInv'
  BY <1>8 DEF StopBeforeVM, vmVars
<1>9. ASSUME NEW r \in Reqs, Pay(r) PROVE SerialInv'
  BY <1>9 DEF Pay, vmVars
<1>10. ASSUME NEW r \in Reqs, Write(r) PROVE SerialInv'
  BY <1>10 DEF Write, vmVars
<1>11. ASSUME NEW r \in Reqs, VMReturn(r) PROVE SerialInv'
  BY <1>11 DEF VMReturn
<1>query. ASSUME NEW r \in Reqs, QueryReturn(r) PROVE SerialInv'
  BY <1>query DEF QueryReturn, vmVars
<1>12. ASSUME NEW r \in Reqs, SetVMParams(r) PROVE SerialInv'
  BY <1>12 DEF SetVMParams, vmVars
<1>13. ASSUME NEW r \in Reqs, SetModuleParams(r) PROVE SerialInv'
  BY <1>13 DEF SetModuleParams, vmVars
<1>14. ASSUME NEW r \in Reqs, Dispose(r) PROVE SerialInv'
  BY <1>14 DEF Dispose, vmVars
<1>15. CASE CommitBlock
  BY <1>15 DEF CommitBlock, vmVars, reqVars
<1>16. CASE AbortBlock
  BY <1>16 DEF AbortBlock, Forget, vmVars
<1>17. CASE Restart
  BY <1>17 DEF Restart, LostByRestart, Forget
<1>18. CASE UNCHANGED vars
  BY <1>18 DEF vars, vmVars, reqVars
<1> QED
  BY <1>1, <1>2, <1>3, <1>4, <1>5, <1>6, <1>7, <1>8, <1>9, <1>10, <1>11, <1>query,
     <1>unmetered, <1>12, <1>13, <1>14, <1>15, <1>16, <1>17, <1>18 DEF Next, Handle

(* When requests do not overlap, a request builds a VM only while there is *)
(* none.                                                                   *)
BuildInv == \A r \in Reqs : pc[r] \in {"building", "unmetered", "loading"} => ~vmInitialized

LEMMA BuildNext ==
    ASSUME TypeOK, SerialInv, BuildInv, [Next]_vars
    PROVE  BuildInv'
<1> USE DEF BuildInv, Goto, TypeOK
<1>1. ASSUME NEW r \in Reqs, DeliverTx(r) \/ Simulate(r) \/ ServeQuery(r) PROVE BuildInv'
  BY <1>1 DEF DeliverTx, Simulate, ServeQuery, Start, vmVars
<1>2. ASSUME NEW r \in Reqs, Refuse(r) \/ BeginTransaction(r) \/ StopBeforeVM(r) \/ Pay(r)
                             \/ Write(r) \/ QueryReturn(r) \/ SetVMParams(r)
                             \/ SetModuleParams(r) \/ Dispose(r)
      PROVE  BuildInv'
  BY <1>2 DEF Refuse, BeginTransaction, StopBeforeVM, Pay, Write, QueryReturn, SetVMParams,
              SetModuleParams, Dispose, vmVars
<1>3. ASSUME NEW r \in Reqs, SetContext(r) \/ VMReturn(r) PROVE BuildInv'
  BY <1>3 DEF SetContext, VMReturn
<1>4. ASSUME NEW r \in Reqs, CheckInitialized(r) PROVE BuildInv'
  BY <1>4 DEF CheckInitialized, NeedsVM, vmVars
<1>unmetered. ASSUME NEW r \in Reqs, SetInitContext(r) PROVE BuildInv'
  BY <1>unmetered DEF SetInitContext
<1>5. ASSUME NEW r \in Reqs, NewVM(r) PROVE BuildInv'
  BY <1>5 DEF NewVM
<1>6. ASSUME NEW r \in Reqs, LoadVM(r) PROVE BuildInv'
  BY <1>6 DEF LoadVM, SerialInv, Active
<1>7. CASE CommitBlock
  BY <1>7 DEF CommitBlock, vmVars
<1>8. CASE AbortBlock
  BY <1>8 DEF AbortBlock, Forget, vmVars
<1>9. CASE Restart
  BY <1>9 DEF Restart
<1>10. CASE UNCHANGED vars
  BY <1>10 DEF vars, vmVars
<1> QED
  BY <1>1, <1>2, <1>3, <1>4, <1>unmetered, <1>5, <1>6, <1>7, <1>8, <1>9, <1>10
  DEF Next, Handle

(* Coins and parameters: what the chain holds of them, and what the branch *)
(* of the transaction being delivered adds.                                *)
ChainFlow(v) ==
    /\ v.paid \subseteq Succeeded
    /\ v.vmp \in Succeeded \cup {NoReq}
    /\ v.vmp = v.modp

BranchFlow(t) ==
    /\ branch[t].paid \subseteq Succeeded \cup {t}
    /\ branch[t].vmp \in Succeeded \cup {NoReq, t}
    /\ IF pc[t] = "paramsHalf" THEN branch[t].vmp = t
       ELSE reply[t] # "err" => branch[t].vmp = branch[t].modp

FlowInv ==
    /\ ChainFlow(block) /\ ChainFlow(committed)
    /\ committed.paid \cap inBlock = {} /\ committed.vmp \notin inBlock
    /\ \A t \in Txs : Active(t) => BranchFlow(t)

LEMMA FlowInit == Init => FlowInv
  BY ReqAssumption DEF Init, GenesisView, FlowInv, ChainFlow, Active, Reqs

(* A step of r's handler touches no branch but r's.                        *)
FlowStep(r) ==
    /\ HandlerStep(r)
    /\ \A q \in Reqs \ {r} : branch'[q] = branch[q]
    /\ BranchFlow(r) => BranchFlow(r)'

LEMMA FlowSteps ==
    ASSUME TypeOK, SerialInv, NEW r \in Reqs,
           \/ Refuse(r) \/ Pay(r) \/ Write(r) \/ SetContext(r) \/ CheckInitialized(r)
           \/ SetInitContext(r) \/ NewVM(r) \/ LoadVM(r) \/ BeginTransaction(r)
           \/ StopBeforeVM(r)
           \/ VMReturn(r) \/ QueryReturn(r) \/ SetVMParams(r) \/ SetModuleParams(r)
    PROVE  FlowStep(r)
<1>1. HandlerStep(r)
  BY HandlerSteps
<1>2. Succeeded' = Succeeded
  BY <1>1, HandlerStepKeepsSucceeded
<1>3. branch[r] \in Views
  BY DEF TypeOK
<1> USE <1>1, <1>2, <1>3 DEF FlowStep, BranchFlow, TypeOK, Goto, Answer
<1>4. CASE Pay(r)
  <2>1. branch' = [branch EXCEPT ![r] = [branch[r] EXCEPT !.paid = @ \cup {r}]]
    <3>1. sdkCtx.owner = r /\ Active(r)
      BY <1>4 DEF Pay, SerialInv, OwnCtx, Active
    <3>2. branch' = WriteThrough(sdkCtx, [branch[sdkCtx.owner] EXCEPT !.paid = @ \cup {r}])
      BY <1>4 DEF Pay
    <3> QED
      BY <3>1, <3>2 DEF WriteThrough
  <2>2. pc' = pc /\ reply' = reply
    BY <1>4 DEF Pay
  <2> QED
    BY <2>1, <2>2 DEF Views
<1>5. CASE SetVMParams(r)
  <2>1. CASE pc'[r] = "paramsHalf"
    <3>1. branch' = [branch EXCEPT ![r] = [branch[r] EXCEPT !.vmp = r]]
      BY <1>5, <2>1 DEF SetVMParams, WriteThrough, SerialInv, OwnCtx, Active
    <3> QED
      BY <2>1, <3>1 DEF Views
  <2>2. CASE pc'[r] # "paramsHalf"
    <3>1. branch' = branch /\ reply'[r] = "err"
      BY <1>5, <2>2 DEF SetVMParams
    <3> QED
      BY <2>2, <3>1
  <2> QED
    BY <2>1, <2>2
<1>6. CASE SetModuleParams(r)
  <2>1. pc[r] = "paramsHalf" /\ pc'[r] = "replied"
    BY <1>6 DEF SetModuleParams
  <2>2. CASE reply'[r] = "err"
    BY <1>6, <2>1, <2>2 DEF SetModuleParams, Views
  <2>3. CASE reply'[r] # "err"
    <3>1. branch' = [branch EXCEPT ![r] = [branch[r] EXCEPT !.modp = r]]
      BY <1>6, <2>3 DEF SetModuleParams
    <3> QED
      BY <2>1, <3>1 DEF Views
  <2> QED
    BY <2>2, <2>3
<1>7. CASE Write(r)
  <2>1. branch' = [branch EXCEPT ![r] = [branch[r] EXCEPT !.wrote = @ \cup {r}]]
    BY <1>7 DEF Write
  <2>2. pc' = pc /\ reply' = reply
    BY <1>7 DEF Write
  <2> QED
    BY <2>1, <2>2 DEF Views
<1>8. CASE Refuse(r)
  BY <1>8 DEF Refuse, SerialInv
<1>9. CASE SetContext(r)
  BY <1>9 DEF SetContext, reqVars
<1>10. CASE CheckInitialized(r)
  BY <1>10 DEF CheckInitialized, reqVars
<1>unmetered. CASE SetInitContext(r)
  BY <1>unmetered DEF SetInitContext, reqVars
<1>11. CASE NewVM(r)
  BY <1>11 DEF NewVM, reqVars
<1>12. CASE LoadVM(r)
  BY <1>12 DEF LoadVM
<1>13. CASE BeginTransaction(r)
  BY <1>13 DEF BeginTransaction
<1>14. CASE StopBeforeVM(r)
  BY <1>14 DEF StopBeforeVM, SerialInv
<1>15. CASE VMReturn(r)
  BY <1>15 DEF VMReturn, SerialInv
<1>query. CASE QueryReturn(r)
  BY <1>query DEF QueryReturn, SerialInv
<1> QED
  BY <1>query, <1>unmetered, <1>4, <1>5, <1>6, <1>7, <1>8, <1>9, <1>10, <1>11, <1>12, <1>13, <1>14, <1>15

LEMMA FlowNext == TypeOK /\ SerialInv /\ FlowInv /\ [Next]_vars => FlowInv'
<1> SUFFICES ASSUME TypeOK, SerialInv, FlowInv, [Next]_vars PROVE FlowInv'
  OBVIOUS
<1>1. ASSUME NEW r \in Reqs, FlowStep(r) PROVE FlowInv'
  <2>1. Succeeded' = Succeeded
    BY <1>1, HandlerStepKeepsSucceeded DEF FlowStep
  <2>2. /\ UNCHANGED <<block, committed, inBlock>>
        /\ \A q \in Reqs : Active(q)' <=> Active(q)
        /\ \A q \in Reqs \ {r} : pc'[q] = pc[q] /\ reply'[q] = reply[q]
                                 /\ branch'[q] = branch[q]
        /\ BranchFlow(r) => BranchFlow(r)'
    BY <1>1 DEF FlowStep, HandlerStep, Active, chainVars
  <2>3. \A t \in Txs : Active(t)' => BranchFlow(t)'
    <3> TAKE t \in Txs
    <3>1. CASE t = r
      BY <2>2, <3>1 DEF FlowInv
    <3>2. CASE t # r
      BY <2>1, <2>2, <3>2 DEF FlowInv, BranchFlow, Reqs
    <3> QED
      BY <3>1, <3>2
  <2> QED
    BY <2>1, <2>2, <2>3 DEF FlowInv, ChainFlow
<1>2. ASSUME NEW r \in Reqs, NEW v, Start(r, v), r \in Txs => v = block
      PROVE  FlowInv'
  <2>1. Succeeded' = Succeeded
    BY <1>2 DEF Start, Goto, Succeeded, Applied, TypeOK
  <2>2. /\ UNCHANGED <<block, committed, inBlock, reply>>
        /\ pc[r] = "idle" /\ pc' = [pc EXCEPT ![r] = "entered"]
        /\ branch' = [branch EXCEPT ![r] = v]
    BY <1>2 DEF Start, Goto, chainVars
  <2>3. ASSUME NEW t \in Txs, Active(t)' PROVE BranchFlow(t)'
    <3>1. CASE t = r
      BY <1>2, <2>1, <2>2, <3>1 DEF FlowInv, ChainFlow, BranchFlow, TypeOK
    <3>2. CASE t # r
      BY <2>1, <2>2, <2>3, <3>2 DEF FlowInv, BranchFlow, Active, TypeOK, Reqs
    <3> QED
      BY <3>1, <3>2
  <2> QED
    BY <2>1, <2>2, <2>3 DEF FlowInv, ChainFlow
<1>3. ASSUME NEW r \in Reqs, DeliverTx(r) \/ Simulate(r) \/ ServeQuery(r) PROVE FlowInv'
  BY <1>2, <1>3, ReqAssumption DEF DeliverTx, Simulate, ServeQuery
<1>4. ASSUME NEW r \in Reqs, Dispose(r) PROVE FlowInv'
  <2>1. /\ pc[r] = "replied" /\ pc' = [pc EXCEPT ![r] = "done"]
        /\ msg' = msg /\ committed' = committed
        /\ block' = IF Applied(r) THEN branch[r] ELSE block
        /\ inBlock' = IF r \in Txs THEN inBlock \cup {r} ELSE inBlock
        /\ branch' = [branch EXCEPT ![r] = GenesisView]
        /\ \A q \in Txs : reply'[q] = reply[q]
    BY <1>4, ReqAssumption DEF Dispose, NextBlock, Goto, Answer, TypeOK, Reqs
  <2>2. Succeeded' = Succeeded \cup (IF Applied(r) THEN {r} ELSE {})
    BY <2>1 DEF Succeeded, Applied, TypeOK, Reqs
  <2>3. r \notin Succeeded /\ r # NoReq
    BY <2>1, ReqAssumption DEF Succeeded
  <2>4. ChainFlow(block)'
    BY <2>1, <2>2 DEF FlowInv, ChainFlow, BranchFlow, Applied, Active
  <2>5. ChainFlow(committed)' /\ committed'.paid \cap inBlock' = {} /\ committed'.vmp \notin inBlock'
    BY <2>1, <2>2, <2>3 DEF FlowInv, ChainFlow
  <2>6. \A t \in Txs : ~Active(t)'
    BY <2>1 DEF SerialInv, Active, TypeOK, Reqs
  <2> QED
    BY <2>4, <2>5, <2>6 DEF FlowInv, ChainFlow
<1>5. CASE CommitBlock
  <2>1. Succeeded' = Succeeded
    BY <1>5 DEF CommitBlock, Succeeded, Applied, reqVars
  <2> QED
    BY <1>5, <2>1 DEF CommitBlock, FlowInv, ChainFlow, Active
<1>6. ASSUME NEW R, Forget(R), block' = committed, committed' = committed,
             msg' = msg, inBlock' = {},
             R \subseteq inBlock \cup {r \in Reqs : Active(r)},
             \A t \in Txs : Active(t) => t \in R
      PROVE  FlowInv'
  <2>1. \A t \in Txs : ~Active(t)'
    BY <1>6 DEF Forget, Active, Reqs
  <2>2. \A t \in Succeeded : t \notin inBlock => t \in Succeeded'
    BY <1>6 DEF Forget, Succeeded, Applied, Active, Reqs
  <2> QED
    BY <1>6, <2>1, <2>2 DEF FlowInv, ChainFlow
<1>7. CASE AbortBlock
  BY <1>7, <1>6 DEF AbortBlock
<1>8. CASE Restart
  BY <1>8, <1>6 DEF Restart, LostByRestart, Reqs
<1>9. CASE UNCHANGED vars
  BY <1>9
  DEF vars, chainVars, reqVars, FlowInv, ChainFlow, BranchFlow, Succeeded, Applied, Active
<1> QED
  BY <1>1, <1>3, <1>4, <1>5, <1>7, <1>8, <1>9, FlowSteps DEF Next, Handle

(* Served one at a time, requests leave on the chain no coin transfer and  *)
(* no parameter but those of successful transactions.                      *)
THEOREM SerialQueriesLeaveNoTrace ==
    ASSUME Overlap = FALSE
    PROVE  Spec => []QueriesLeaveNoTrace
<1>1. TypeInv => TypeOK
  BY DEF TypeInv
<1>2. FlowInv => QueriesLeaveNoTrace
  BY DEF FlowInv, ChainFlow, QueriesLeaveNoTrace
<1>3. TypeOK /\ SerialInv /\ [Next]_vars => SerialInv'
  BY SerialNext
<1> QED
  BY TypeInit, TypeNext, SerialInit, FlowInit, FlowNext, <1>1, <1>2, <1>3, PTL DEF Spec

(* Served one at a time, UpdateParams keeps both copies of the parameters  *)
(* equal on the chain, through restarts and dropped proposals.             *)
THEOREM SerialParamsInSync ==
    ASSUME Overlap = FALSE
    PROVE  Spec => []ParamsInSync
<1>1. TypeInv => TypeOK
  BY DEF TypeInv
<1>2. FlowInv => ParamsInSync
  BY DEF FlowInv, ChainFlow, ParamsInSync
<1>3. TypeOK /\ SerialInv /\ [Next]_vars => SerialInv'
  BY SerialNext
<1> QED
  BY TypeInit, TypeNext, SerialInit, FlowInit, FlowNext, <1>1, <1>2, <1>3, PTL DEF Spec

(* Served one at a time, requests pay for their own work, for all their    *)
(* coin transfers, and for nobody else's.                                  *)
THEOREM SerialOwnMeterOnly ==
    ASSUME Overlap = FALSE
    PROVE  Spec => []OwnMeterOnly
<1>1. Init => OwnMeterOnly
  BY DEF Init, OwnMeterOnly
<1>2. TypeOK /\ SerialInv /\ OwnMeterOnly /\ [Next]_vars => OwnMeterOnly'
  <2> SUFFICES ASSUME TypeOK, SerialInv, OwnMeterOnly, [Next]_vars PROVE OwnMeterOnly'
    OBVIOUS
  <2> USE DEF OwnMeterOnly, TypeOK
  <2>1. ASSUME NEW r \in Reqs,
               meter' = Charge(OwnCtx(r), r),
               \A q \in Reqs \ {r} : did'[q] = did[q]
        PROVE  OwnMeterOnly'
    BY <2>1 DEF Charge, OwnCtx
  <2>2. ASSUME NEW r \in Reqs, pc[r] \in {"running", "paramsHalf"} PROVE sdkCtx = OwnCtx(r)
    BY <2>2 DEF SerialInv
  <2>3. ASSUME NEW r \in Reqs, Pay(r) PROVE OwnMeterOnly'
    BY <2>1, <2>2, <2>3 DEF Pay
  <2>4. ASSUME NEW r \in Reqs, Write(r) PROVE OwnMeterOnly'
    BY <2>1, <2>4 DEF Write
  <2>5. ASSUME NEW r \in Reqs, SetVMParams(r) PROVE OwnMeterOnly'
    BY <2>1, <2>2, <2>5 DEF SetVMParams, Goto
  <2>6. ASSUME NEW r \in Reqs, SetModuleParams(r) PROVE OwnMeterOnly'
    BY <2>1, <2>6 DEF SetModuleParams
  <2>7. ASSUME NEW r \in Reqs, Refuse(r) \/ SetContext(r) \/ CheckInitialized(r)
                               \/ SetInitContext(r) \/ NewVM(r) \/ BeginTransaction(r)
                               \/ StopBeforeVM(r) \/ VMReturn(r) \/ QueryReturn(r)
        PROVE  OwnMeterOnly'
    BY <2>7 DEF Refuse, SetContext, CheckInitialized, SetInitContext, NewVM, BeginTransaction,
                StopBeforeVM, VMReturn, QueryReturn, reqVars
  <2>8. ASSUME NEW r \in Reqs, DeliverTx(r) \/ Simulate(r) \/ ServeQuery(r)
        PROVE  OwnMeterOnly'
    BY <2>8 DEF DeliverTx, Simulate, ServeQuery, Start
  <2>9. ASSUME NEW r \in Reqs, LoadVM(r) PROVE OwnMeterOnly'
    BY <2>9 DEF LoadVM, Charge, InitCtx
  <2>10. ASSUME NEW r \in Reqs, Dispose(r) PROVE OwnMeterOnly'
    BY <2>10 DEF Dispose
  <2>11. CASE CommitBlock
    BY <2>11 DEF CommitBlock, reqVars
  <2>12. CASE AbortBlock
    BY <2>12 DEF AbortBlock, Forget
  <2>13. CASE Restart
    BY <2>13 DEF Restart, Forget
  <2>14. CASE UNCHANGED vars
    BY <2>14 DEF vars, reqVars
  <2> QED
    BY <2>3, <2>4, <2>5, <2>6, <2>7, <2>8, <2>9, <2>10, <2>11, <2>12, <2>13, <2>14
    DEF Next, Handle
<1>3. TypeInv => TypeOK
  BY DEF TypeInv
<1>4. TypeOK /\ SerialInv /\ [Next]_vars => SerialInv'
  BY SerialNext
<1> QED
  BY TypeInit, TypeNext, SerialInit, <1>1, <1>2, <1>3, <1>4, PTL DEF Spec

-----------------------------------------------------------------------------
(* The keeper, serving its requests one at a time, implements the atomic   *)
(* messages of AtomicMessages, and its VM knows every package of the chain.*)


(* What the transaction being delivered has made of the block's state.     *)
Delivered(t) ==
    LET wrote  == "write" \in did[t] /\ msg[t].kind \in VMKinds
        params == "write" \in did[t] /\ msg[t].kind = "UpdateParams"
    IN  /\ branch[t].wrote = block.wrote \cup (IF wrote THEN {t} ELSE {})
        /\ branch[t].paid = block.paid \cup (IF "pay" \in did[t] THEN {t} ELSE {})
        /\ branch[t].vmp = IF params THEN t ELSE block.vmp
        /\ branch[t].modp = IF params /\ reply[t] = "ok" THEN t ELSE block.modp

DeliveryOf(t) ==
    /\ Delivered(t)
    /\ pc[t] \in {"entered", "ctxSet", "building", "unmetered", "loading", "ready"} => did[t] = {}
    /\ pc[t] = "paramsHalf" => msg[t].kind = "UpdateParams" /\ "write" \in did[t]
    /\ "pay" \in did[t] => msg[t].kind # "UpdateParams"
    /\ msg[t].kind = "AddPackage" =>
         /\ "write" \in did[t] => msg[t].pkg \notin Installed(block)
         /\ reply[t] = "ok" => "write" \in did[t]
         /\ reply[t] # "nil"
    /\ msg[t].kind = "Call" /\ reply[t] = "ok" => msg[t].pkg \in Installed(block)

DeliveryInv == \A t \in Txs : IF Active(t) THEN DeliveryOf(t) ELSE did[t] = {}

LEMMA DeliveryInit == Init => DeliveryInv
  BY DEF Init, DeliveryInv, Active, Reqs

(* A message's kind is one of five, and VMKinds are three of them.         *)
LEMMA MessageKinds ==
    ASSUME TypeOK, NEW t \in Reqs
    PROVE  /\ msg[t].kind \in VMKinds \/ msg[t].kind \in {"UpdateParams", "Query"}
           /\ msg[t].kind \in VMKinds <=> msg[t].kind \in {"AddPackage", "Call", "Run"}
  BY DEF TypeOK, Messages, QueryMessage, VMKinds

(* A transaction that stores no package leaves the packages as they were.  *)
LEMMA DeliveredPackages ==
    ASSUME TypeOK, NEW t \in Txs, Delivered(t),
           msg[t].kind # "AddPackage" \/ "write" \notin did[t]
    PROVE  Installed(branch[t]) = Installed(block)
  BY DEF Delivered, Installed, VMKinds

LEMMA DeliverySteps ==
    ASSUME "AddPackage" \notin MayPanic,
           TypeOK, SerialInv, DeliveryInv, NEW r \in Txs, r \in Reqs,
           \/ Refuse(r) \/ Pay(r) \/ Write(r) \/ SetContext(r) \/ CheckInitialized(r)
           \/ SetInitContext(r) \/ NewVM(r) \/ LoadVM(r) \/ BeginTransaction(r)
           \/ StopBeforeVM(r)
           \/ VMReturn(r) \/ QueryReturn(r) \/ SetVMParams(r) \/ SetModuleParams(r)
    PROVE  DeliveryOf(r)'
<1>1. HandlerStep(r)
  BY HandlerSteps
<1>2. /\ msg' = msg /\ block' = block /\ Installed(block)' = Installed(block)
      /\ DeliveryOf(r)
  BY <1>1 DEF HandlerStep, chainVars, DeliveryInv, Installed
<1>3. branch[r] \in Views /\ block \in Views /\ pc[r] \in Locations
  BY DEF TypeOK
<1>4. pc[r] \notin {"replied", "done"} => reply[r] = "none"
  BY DEF SerialInv
<1>kept. ASSUME branch' = branch, did' = did, reply' = reply,
                pc'[r] \in {"entered", "ctxSet", "building", "unmetered", "loading", "ready"} => did[r] = {},
                pc'[r] # "paramsHalf" \/ pc'[r] = pc[r]
         PROVE  DeliveryOf(r)'
  BY <1>2, <1>kept DEF DeliveryOf, Delivered
<1> USE DEF TypeOK, Goto, Answer
<1>5. CASE Refuse(r)
  <2>1. did'[r] = {} /\ did[r] = {} /\ branch' = branch /\ pc'[r] = "replied"
    BY <1>2, <1>5 DEF Refuse, DeliveryOf
  <2>2. reply'[r] = "err" \/ (reply'[r] = "ok" /\ msg[r].kind = "UpdateParams")
    BY <1>5 DEF Refuse
  <2> QED
    BY <1>2, <1>4, <2>1, <2>2 DEF DeliveryOf, Delivered
<1>6. CASE SetContext(r)
  BY <1>2, <1>6, <1>kept DEF SetContext, reqVars, DeliveryOf
<1>7. CASE CheckInitialized(r)
  BY <1>2, <1>7, <1>kept DEF CheckInitialized, reqVars, DeliveryOf
<1>unmetered. CASE SetInitContext(r)
  BY <1>2, <1>unmetered, <1>kept DEF SetInitContext, reqVars, DeliveryOf
<1>8. CASE NewVM(r)
  BY <1>2, <1>8, <1>kept DEF NewVM, reqVars, DeliveryOf
<1>9. CASE LoadVM(r)
  BY <1>2, <1>9, <1>kept DEF LoadVM, DeliveryOf
<1>10. CASE BeginTransaction(r)
  BY <1>2, <1>10, <1>kept DEF BeginTransaction, DeliveryOf
<1>11. CASE StopBeforeVM(r)
  <2>1. did'[r] = did[r] /\ did[r] = {} /\ branch' = branch /\ pc'[r] = "replied"
        /\ reply'[r] = "err"
    BY <1>2, <1>11 DEF StopBeforeVM, DeliveryOf
  <2> QED
    BY <1>2, <1>4, <2>1 DEF DeliveryOf, Delivered
<1>12. CASE Pay(r)
  <2>1. sdkCtx.owner = r /\ Active(r)
    BY <1>12 DEF Pay, SerialInv, OwnCtx, Active
  <2>2. branch' = [branch EXCEPT ![r] = [branch[r] EXCEPT !.paid = @ \cup {r}]]
    BY <1>12, <2>1 DEF Pay, WriteThrough
  <2>3. did'[r] = did[r] \cup {"pay"} /\ pc'[r] = "running" /\ reply' = reply
        /\ msg[r].kind # "UpdateParams"
    BY <1>12 DEF Pay
  <2>4. Delivered(r)'
    BY <1>2, <1>3, <2>2, <2>3 DEF DeliveryOf, Delivered, Views
  <2> QED
    BY <1>2, <1>4, <2>3, <2>4 DEF DeliveryOf
<1>13. CASE Write(r)
  <2>1. branch' = [branch EXCEPT ![r] = [branch[r] EXCEPT !.wrote = @ \cup {r}]]
    BY <1>13 DEF Write
  <2>2. did'[r] = did[r] \cup {"write"} /\ pc' = pc /\ pc[r] = "running" /\ reply' = reply
        /\ msg[r].kind \in VMKinds /\ msg[r].kind # "UpdateParams" /\ "write" \notin did[r]
    BY <1>13 DEF Write, VMKinds
  <2>3. Delivered(r)'
    BY <1>2, <1>3, <2>1, <2>2 DEF DeliveryOf, Delivered, Views
  <2>4. msg[r].kind = "AddPackage" => msg[r].pkg \notin Installed(block)
    <3>1. Installed(branch[r]) = Installed(block)
      BY <1>2, <2>2, DeliveredPackages DEF DeliveryOf
    <3> QED
      BY <1>13, <3>1 DEF Write
  <2> QED
    BY <1>2, <1>4, <2>2, <2>3, <2>4 DEF DeliveryOf
<1>14. CASE VMReturn(r)
  <2> PICK out \in {"ok", "err", "panic"} :
        /\ out = "ok" => EndsOk(r)
        /\ out = "panic" => Panics(r)
        /\ Answer(r, out, HandlerReply(msg[r].kind, out))
    BY <1>14 DEF VMReturn
  <2>1. branch' = branch /\ did' = did /\ pc'[r] = "replied" /\ msg[r].kind # "UpdateParams"
        /\ reply'[r] = HandlerReply(msg[r].kind, out)
    BY <1>14 DEF VMReturn, VMKinds
  <2>2. Delivered(r)'
    BY <1>2, <2>1 DEF DeliveryOf, Delivered
  <2>3. msg[r].kind = "AddPackage" =>
          (reply'[r] = "ok" => "write" \in did[r]) /\ reply'[r] # "nil"
    BY <2>1 DEF HandlerReply, EndsOk, Panics
  <2>4. msg[r].kind = "Call" /\ reply'[r] = "ok" => msg[r].pkg \in Installed(block)
    <3> HAVE msg[r].kind = "Call" /\ reply'[r] = "ok"
    <3>1. Usable(r)
      BY <2>1 DEF HandlerReply, EndsOk
    <3>2. Installed(branch[r]) = Installed(block)
      BY <1>2, DeliveredPackages DEF DeliveryOf
    <3> QED
      BY <3>1, <3>2 DEF Usable
  <2> QED
    BY <1>2, <2>1, <2>2, <2>3, <2>4 DEF DeliveryOf
<1>15. CASE QueryReturn(r)
  <2>1. branch' = branch /\ did' = did /\ pc'[r] = "replied" /\ msg[r].kind = "Query"
    BY <1>15 DEF QueryReturn
  <2> QED
    BY <1>2, <2>1 DEF DeliveryOf, Delivered
<1>16. CASE SetVMParams(r)
  <2>1. msg[r].kind = "UpdateParams" /\ msg[r].kind \notin VMKinds
    BY <1>16 DEF SetVMParams, VMKinds
  <2>2. CASE pc'[r] = "paramsHalf"
    <3>1. branch' = [branch EXCEPT ![r] = [branch[r] EXCEPT !.vmp = r]]
      BY <1>16, <2>2 DEF SetVMParams, WriteThrough, SerialInv, OwnCtx, Active
    <3>2. did'[r] = did[r] \cup {"write"} /\ pc[r] = "running" /\ reply' = reply
      BY <1>16, <2>2 DEF SetVMParams
    <3>3. Delivered(r)'
      BY <1>2, <1>3, <1>4, <2>1, <3>1, <3>2 DEF DeliveryOf, Delivered, Views
    <3> QED
      BY <1>2, <2>1, <2>2, <3>2, <3>3 DEF DeliveryOf
  <2>3. CASE pc'[r] # "paramsHalf"
    <3>1. branch' = branch /\ did' = did /\ reply'[r] = "err" /\ pc'[r] = "replied"
          /\ pc[r] = "running"
      BY <1>16, <2>3 DEF SetVMParams
    <3>2. Delivered(r)'
      BY <1>2, <1>4, <3>1 DEF DeliveryOf, Delivered
    <3> QED
      BY <1>2, <2>1, <3>1, <3>2 DEF DeliveryOf
  <2> QED
    BY <2>2, <2>3
<1>17. CASE SetModuleParams(r)
  <2>1. did' = did /\ pc[r] = "paramsHalf" /\ pc'[r] = "replied"
        /\ msg[r].kind = "UpdateParams" /\ "write" \in did[r] /\ reply[r] = "none"
    BY <1>2, <1>4, <1>17 DEF SetModuleParams, DeliveryOf
  <2>2. \/ branch' = [branch EXCEPT ![r] = [branch[r] EXCEPT !.modp = r]] /\ reply'[r] = "ok"
        \/ branch' = branch /\ reply'[r] = "err"
    BY <1>17 DEF SetModuleParams
  <2>3. Delivered(r)'
    <3>1. CASE reply'[r] = "ok"
      <4>1. branch'[r] = [branch[r] EXCEPT !.modp = r]
        BY <2>2, <3>1
      <4> QED
        BY <1>2, <1>3, <2>1, <3>1, <4>1 DEF DeliveryOf, Delivered, Views
    <3>2. CASE reply'[r] = "err"
      BY <1>2, <2>1, <2>2, <3>2 DEF DeliveryOf, Delivered
    <3> QED
      BY <2>2, <3>1, <3>2
  <2> QED
    BY <1>2, <2>1, <2>3 DEF DeliveryOf
<1> QED
  BY <1>5, <1>6, <1>7, <1>unmetered, <1>8, <1>9, <1>10, <1>11, <1>12, <1>13, <1>14, <1>15,
     <1>16, <1>17

LEMMA DeliveryNext ==
    ASSUME "AddPackage" \notin MayPanic,
           TypeOK, SerialInv, SerialInv', WritesInv, DeliveryInv, [Next]_vars
    PROVE  DeliveryInv'
<1>0. Txs \subseteq Reqs
  BY DEF Reqs
<1>1. ASSUME NEW r \in Reqs,
             \/ Refuse(r) \/ Pay(r) \/ Write(r) \/ SetContext(r) \/ CheckInitialized(r)
             \/ SetInitContext(r) \/ NewVM(r) \/ LoadVM(r) \/ BeginTransaction(r)
             \/ StopBeforeVM(r)
             \/ VMReturn(r) \/ QueryReturn(r) \/ SetVMParams(r) \/ SetModuleParams(r)
      PROVE  DeliveryInv'
  <2>1. HandlerStep(r)
    BY <1>1, HandlerSteps
  <2>2. \A t \in Txs : Active(t)' => t = r /\ DeliveryOf(r)'
    BY <1>0, <1>1, <2>1, DeliverySteps DEF HandlerStep, SerialInv, Active
  <2>3. \A t \in Txs : ~Active(t)' => t # r /\ ~Active(t) /\ did'[t] = did[t]
    <3>1. \A t \in Txs : ~Active(t)' => t # r /\ ~Active(t)
      BY <1>0, <2>1 DEF HandlerStep, Active
    <3>2. \A q \in Reqs \ {r} : did'[q] = did[q]
      BY <1>1
      DEF Refuse, Pay, Write, SetContext, CheckInitialized, SetInitContext, NewVM, LoadVM,
          BeginTransaction, StopBeforeVM, VMReturn, QueryReturn, SetVMParams, SetModuleParams, reqVars, TypeOK
    <3> QED
      BY <1>0, <3>1, <3>2
  <2> QED
    BY <2>2, <2>3 DEF DeliveryInv
<1>2. ASSUME NEW r \in Reqs, NEW v, Start(r, v), r \in Txs => v = block
      PROVE  DeliveryInv'
  <2>1. /\ msg' = msg /\ block' = block /\ did' = did /\ reply' = reply
        /\ pc[r] = "idle" /\ pc' = [pc EXCEPT ![r] = "entered"]
        /\ branch' = [branch EXCEPT ![r] = v]
    BY <1>2 DEF Start, Goto, chainVars
  <2>2. Active(r)' /\ ~Active(r)
    BY <2>1 DEF Active, TypeOK
  <2>3. \A t \in Txs : Active(t)' => t = r
    BY <1>0, <2>2 DEF SerialInv
  <2>4. \A t \in Txs : ~Active(t)' => ~Active(t)
    BY <1>0, <2>1 DEF Active, TypeOK
  <2>5. r \in Txs => DeliveryOf(r)'
    BY <1>2, <2>1, <2>2 DEF DeliveryInv, DeliveryOf, Delivered, SerialInv, TypeOK
  <2> QED
    BY <2>1, <2>3, <2>4, <2>5 DEF DeliveryInv
<1>3. ASSUME NEW r \in Reqs, DeliverTx(r) \/ Simulate(r) \/ ServeQuery(r)
      PROVE  DeliveryInv'
  BY <1>2, <1>3, ReqAssumption DEF DeliverTx, Simulate, ServeQuery
<1>4. ASSUME NEW r \in Reqs, Dispose(r) PROVE DeliveryInv'
  <2>1. pc[r] = "replied" /\ pc' = [pc EXCEPT ![r] = "done"] /\ did' = [did EXCEPT ![r] = {}]
    BY <1>4 DEF Dispose, Goto
  <2>2. \A t \in Txs : ~Active(t)' /\ (t # r => ~Active(t))
    BY <1>0, <2>1 DEF SerialInv, Active, TypeOK
  <2> QED
    BY <1>0, <2>1, <2>2 DEF DeliveryInv, TypeOK
<1>5. CASE CommitBlock
  BY <1>5 DEF CommitBlock, DeliveryInv, Active, reqVars
<1>6. ASSUME NEW R, Forget(R), \A t \in Txs : Active(t) => t \in R
      PROVE  DeliveryInv'
  BY <1>0, <1>6 DEF Forget, DeliveryInv, Active
<1>7. CASE AbortBlock
  BY <1>6, <1>7 DEF AbortBlock
<1>8. CASE Restart
  BY <1>0, <1>6, <1>8 DEF Restart, LostByRestart
<1>9. CASE UNCHANGED vars
  BY <1>9
  DEF vars, chainVars, reqVars, DeliveryInv, DeliveryOf, Delivered, Installed, Active
<1> QED
  BY <1>1, <1>3, <1>4, <1>5, <1>7, <1>8, <1>9 DEF Next, Handle

-----------------------------------------------------------------------------
(* The step that disposes of a request: one abstract step, or none.        *)

LEMMA PresentIsInstalled ==
    ASSUME NEW v
    PROVE  Atomic!Present(v) = Installed(v)
  BY DEF Atomic!Present, Installed

LEMMA EffectsOfAddPackage ==
    ASSUME NEW t \in Txs, NEW v \in Views, NEW w,
           msg[t].kind = "AddPackage", msg[t].pkg \notin Installed(v),
           \/ w = [v EXCEPT !.wrote = @ \cup {t}]
           \/ w = [[v EXCEPT !.paid = @ \cup {t}] EXCEPT !.wrote = @ \cup {t}]
    PROVE  w \in Atomic!Effects(t, v)
  BY PresentIsInstalled DEF Atomic!Effects

LEMMA EffectsOfCallAndRun ==
    ASSUME NEW t \in Txs, NEW v \in Views, NEW w,
           \/ msg[t].kind = "Run"
           \/ msg[t].kind = "Call" /\ msg[t].pkg \in Installed(v),
           \/ w = [v EXCEPT !.wrote = @ \cup {t}]
           \/ w = [v EXCEPT !.paid = @ \cup {t}]
           \/ w = [[v EXCEPT !.paid = @ \cup {t}] EXCEPT !.wrote = @ \cup {t}]
    PROVE  w \in Atomic!Effects(t, v)
  BY PresentIsInstalled DEF Atomic!Effects

LEMMA EffectsOfUpdateParams ==
    ASSUME NEW t \in Txs, NEW v \in Views, NEW w,
           msg[t].kind = "UpdateParams", w = [v EXCEPT !.vmp = t, !.modp = t]
    PROVE  w \in Atomic!Effects(t, v)
  BY DEF Atomic!Effects

(* Views are equal when their four parts are.                              *)
LEMMA ViewParts ==
    ASSUME NEW v \in Views, NEW w \in Views,
           v.wrote = w.wrote, v.paid = w.paid, v.vmp = w.vmp, v.modp = w.modp
    PROVE  v = w
  BY DEF Views

(* Messages never change, and no transaction carries a query.              *)
MessageInv == \A t \in Txs : msg[t].kind # "Query"

LEMMA MessageInit == Init => MessageInv
  BY ReqAssumption DEF Init, MessageInv, Messages, QueryMessage, Reqs

LEMMA MessagesStay ==
    ASSUME [Next]_vars
    PROVE  msg' = msg
<1>1. ASSUME NEW r \in Reqs, DeliverTx(r) \/ Simulate(r) \/ ServeQuery(r) PROVE msg' = msg
  BY <1>1 DEF DeliverTx, Simulate, ServeQuery, Start
<1>2. ASSUME NEW r \in Reqs,
             \/ Refuse(r) \/ Pay(r) \/ Write(r) \/ SetContext(r) \/ CheckInitialized(r)
             \/ SetInitContext(r) \/ NewVM(r) \/ LoadVM(r) \/ BeginTransaction(r)
             \/ StopBeforeVM(r)
             \/ VMReturn(r) \/ QueryReturn(r) \/ SetVMParams(r) \/ SetModuleParams(r)
             \/ Dispose(r)
      PROVE  msg' = msg
  BY <1>2
  DEF Refuse, Pay, Write, SetContext, CheckInitialized, SetInitContext, NewVM, LoadVM,
      BeginTransaction, StopBeforeVM, VMReturn, QueryReturn, SetVMParams, SetModuleParams, Dispose
<1>3. CASE CommitBlock \/ AbortBlock \/ Restart
  BY <1>3 DEF CommitBlock, AbortBlock, Restart
<1>4. CASE UNCHANGED vars
  BY <1>4 DEF vars
<1> QED
  BY <1>1, <1>2, <1>3, <1>4 DEF Next, Handle

LEMMA DisposeRefines ==
    ASSUME TypeOK, WritesInv, FlowInv, DeliveryInv, MessageInv, NEW r \in Reqs, Dispose(r)
    PROVE  (r \in Txs /\ Atomic!Apply(r)) \/ UNCHANGED <<msg, block, committed>>
<1>1. /\ pc[r] = "replied" /\ msg' = msg /\ committed' = committed
      /\ block' = IF Applied(r) THEN branch[r] ELSE block
  BY DEF Dispose, Goto, NextBlock
<1>2. CASE ~Applied(r)
  BY <1>1, <1>2
<1>3. CASE Applied(r)
  <2>1. r \in Txs /\ Active(r) /\ DeliveryOf(r) /\ Delivered(r) /\ block' = branch[r]
    BY <1>1, <1>3 DEF Applied, Active, DeliveryInv, DeliveryOf
  <2>2. reply[r] = "ok"
    BY <1>3, <2>1 DEF Applied, DeliveryOf
  <2>3. r \notin block.wrote \cup block.paid
    BY <1>1 DEF WritesInv, WritesFromSuccessfulTxs, FlowInv, ChainFlow, Succeeded
  <2>4. block \in Views /\ branch[r] \in Views /\ did[r] \subseteq {"pay", "write"}
    BY DEF TypeOK
  <2> DEFINE wrote  == [block EXCEPT !.wrote = @ \cup {r}]
             paid   == [block EXCEPT !.paid = @ \cup {r}]
             both   == [paid EXCEPT !.wrote = @ \cup {r}]
             params == [block EXCEPT !.vmp = r, !.modp = r]
  <2>5. /\ wrote \in Views /\ wrote.wrote = block.wrote \cup {r} /\ wrote.paid = block.paid
        /\ wrote.vmp = block.vmp /\ wrote.modp = block.modp
        /\ paid \in Views /\ paid.paid = block.paid \cup {r} /\ paid.wrote = block.wrote
        /\ paid.vmp = block.vmp /\ paid.modp = block.modp
        /\ params \in Views /\ params.wrote = block.wrote /\ params.paid = block.paid
        /\ params.vmp = r /\ params.modp = r
    BY <2>4 DEF Views
  <2>6. /\ both \in Views /\ both.wrote = block.wrote \cup {r} /\ both.paid = block.paid \cup {r}
        /\ both.vmp = block.vmp /\ both.modp = block.modp
    BY <2>4, <2>5 DEF Views
  <2> HIDE DEF wrote, paid, both, params
  <2>7. CASE did[r] = {}
    <3>1. branch[r] = block
      BY <2>1, <2>4, <2>7, ViewParts, ZenonT(60) DEF Delivered
    <3> QED
      BY <1>1, <2>1, <3>1
  <2>8. CASE did[r] # {}
    <3>1. msg[r].kind \in {"AddPackage", "Call", "Run", "UpdateParams"}
      BY <2>1, MessageKinds DEF MessageInv, VMKinds
    <3>2. CASE msg[r].kind = "UpdateParams"
      <4>1. "write" \in did[r]
        BY <2>1, <2>4, <2>8, <3>2 DEF DeliveryOf
      <4>2. branch[r] = params
        <5>1. /\ branch[r].wrote = block.wrote /\ branch[r].paid = block.paid
              /\ branch[r].vmp = r /\ branch[r].modp = r
          BY <2>1, <2>2, <3>2, <4>1 DEF Delivered, VMKinds, DeliveryOf
        <5> QED
          BY <2>4, <2>5, <5>1, ViewParts
      <4>3. branch[r] \in Atomic!Effects(r, block)
        BY <2>1, <2>4, <3>2, <4>2, EffectsOfUpdateParams DEF params
      <4> QED
        BY <1>1, <2>1, <2>3, <4>3 DEF Atomic!Apply
    <3>3. CASE msg[r].kind \in VMKinds
      <4>0. branch[r].vmp = block.vmp /\ branch[r].modp = block.modp /\ msg[r].kind \in VMKinds
        <5>1. msg[r].kind # "UpdateParams"
          BY <3>3 DEF VMKinds
        <5> QED
          BY <2>1, <3>3, <5>1 DEF Delivered
      <4>1. \/ branch[r] = wrote /\ did[r] = {"write"}
            \/ branch[r] = paid /\ did[r] = {"pay"}
            \/ branch[r] = both /\ did[r] = {"pay", "write"}
        <5>1. CASE did[r] = {"write"}
          <6>1. branch[r].wrote = block.wrote \cup {r} /\ branch[r].paid = block.paid
            BY <2>1, <4>0, <5>1 DEF Delivered
          <6> QED
            BY <2>4, <2>5, <4>0, <5>1, <6>1, ViewParts, ZenonT(60)
        <5>2. CASE did[r] = {"pay"}
          <6>1. "write" \notin did[r] /\ "pay" \in did[r]
            BY <5>2
          <6>2. branch[r].wrote = block.wrote /\ branch[r].paid = block.paid \cup {r}
            BY <2>1, <6>1 DEF Delivered
          <6>3. branch[r] = paid
            BY <2>4, <2>5, <4>0, <6>2, ViewParts
          <6> QED
            BY <5>2, <6>3
        <5>3. CASE did[r] = {"pay", "write"}
          <6>1. branch[r].wrote = block.wrote \cup {r} /\ branch[r].paid = block.paid \cup {r}
            BY <2>1, <4>0, <5>3 DEF Delivered
          <6> QED
            BY <2>4, <2>6, <4>0, <5>3, <6>1, ViewParts, ZenonT(60)
        <5> QED
          BY <2>4, <2>8, <5>1, <5>2, <5>3
      <4>2. branch[r] \in Atomic!Effects(r, block)
        <5>1. CASE msg[r].kind = "AddPackage"
          <6>1. "write" \in did[r] /\ msg[r].pkg \notin Installed(block)
            BY <2>1, <2>2, <5>1 DEF DeliveryOf
          <6>2. branch[r] = wrote \/ branch[r] = both
            BY <4>1, <6>1
          <6> QED
            BY <2>1, <2>4, <5>1, <6>1, <6>2, EffectsOfAddPackage DEF wrote, both, paid
        <5>2. CASE msg[r].kind \in {"Call", "Run"}
          <6>1. msg[r].kind = "Call" => msg[r].pkg \in Installed(block)
            BY <2>1, <2>2 DEF DeliveryOf
          <6> QED
            BY <2>1, <2>4, <4>1, <5>2, <6>1, EffectsOfCallAndRun DEF wrote, both, paid
        <5> QED
          BY <3>3, <5>1, <5>2 DEF VMKinds
      <4> QED
        BY <1>1, <2>1, <2>3, <4>2 DEF Atomic!Apply
    <3> QED
      BY <3>1, <3>2, <3>3 DEF VMKinds
  <2> QED
    BY <2>7, <2>8
<1> QED
  BY <1>2, <1>3

(* Every step of the keeper is a step of the atomic messages, or none.     *)
LEMMA StepRefines ==
    ASSUME TypeOK, SerialInv, WritesInv, FlowInv, DeliveryInv, MessageInv, [Next]_vars
    PROVE  [Atomic!AbsNext]_(Atomic!absVars)
<1>1. CASE UNCHANGED <<msg, block, committed>>
  BY <1>1 DEF Atomic!absVars
<1>2. ASSUME NEW r \in Reqs, DeliverTx(r) \/ Simulate(r) \/ ServeQuery(r)
      PROVE  UNCHANGED <<msg, block, committed>>
  BY <1>2 DEF DeliverTx, Simulate, ServeQuery, Start, chainVars
<1>3. ASSUME NEW r \in Reqs,
             \/ Refuse(r) \/ Pay(r) \/ Write(r) \/ SetContext(r) \/ CheckInitialized(r)
             \/ SetInitContext(r) \/ NewVM(r) \/ LoadVM(r) \/ BeginTransaction(r)
             \/ StopBeforeVM(r)
             \/ VMReturn(r) \/ QueryReturn(r) \/ SetVMParams(r) \/ SetModuleParams(r)
      PROVE  UNCHANGED <<msg, block, committed>>
  BY <1>3, HandlerSteps DEF HandlerStep, chainVars
<1>4. ASSUME NEW r \in Reqs, Dispose(r) PROVE [Atomic!AbsNext]_(Atomic!absVars)
  BY <1>1, <1>4, DisposeRefines DEF Atomic!AbsNext
<1>5. CASE CommitBlock
  BY <1>5 DEF CommitBlock, Atomic!AbsNext, Atomic!Commit
<1>6. CASE AbortBlock \/ Restart
  BY <1>6 DEF AbortBlock, Restart, Atomic!AbsNext, Atomic!Lose
<1>7. CASE UNCHANGED vars
  BY <1>1, <1>7 DEF vars, chainVars
<1> QED
  BY <1>1, <1>2, <1>3, <1>4, <1>5, <1>6, <1>7 DEF Next, Handle

(* Served one at a time, and as long as AddPackage does not panic into the *)
(* handler, requests take effect on the chain as AtomicMessages allows: a  *)
(* transaction at once and as a whole, whatever order the VM, the bank and *)
(* the two halves of UpdateParams come in; simulations and queries never;  *)
(* restarts and dropped proposals return to the committed state.           *)
THEOREM SerialImplementsAtomicMessages ==
    ASSUME Overlap = FALSE, "AddPackage" \notin MayPanic
    PROVE  Spec => ImplementsAtomicMessages
<1> DEFINE Inv == TypeOK /\ SerialInv /\ WritesInv /\ FlowInv /\ DeliveryInv /\ MessageInv
<1>1. Init => Atomic!AbsInit
  BY DEF Init, GenesisView, Atomic!AbsInit
<1>2. TypeInv => TypeOK
  BY DEF TypeInv
<1>3. TypeOK /\ SerialInv /\ [Next]_vars => SerialInv'
  BY SerialNext
<1>4. Inv /\ SerialInv' /\ [Next]_vars => DeliveryInv'
  BY DeliveryNext
<1>5. MessageInv /\ [Next]_vars => MessageInv'
  BY MessagesStay DEF MessageInv
<1>6. Inv /\ [Next]_vars => [Atomic!AbsNext]_(Atomic!absVars)
  BY StepRefines
<1> QED
  BY TypeInit, TypeNext, SerialInit, WritesInit, WritesNext, FlowInit, FlowNext, DeliveryInit,
     MessageInit, <1>1, <1>2, <1>3, <1>4, <1>5, <1>6, PTL
  DEF Spec, ImplementsAtomicMessages, Atomic!AbsSpec

-----------------------------------------------------------------------------
(* The memory of the VM.                                                   *)

(* The VM in use holds every package of the block's state and of the       *)
(* committed one; before it is built the block has stored none.  A VM is   *)
(* built from a branch that lacks no package of the block, and what the    *)
(* transaction in progress stores is in its transaction store, then in the *)
(* VM's memory.                                                            *)
MemoryInv ==
    /\ loaded # {} => vmInitialized
    /\ ~vmInitialized => block.wrote = committed.wrote
    /\ vmInitialized =>
         /\ vmKeeper \in Reqs
         /\ Installed(block) \cup Installed(committed) \subseteq memory[vmKeeper]
    /\ \A r \in Reqs : Active(r) =>
         /\ ~vmInitialized => block.wrote \subseteq branch[r].wrote
         /\ pc[r] \in {"running", "paramsHalf"} => vmInitialized /\ txVM[r] = vmKeeper
    /\ \A t \in Txs : Active(t) /\ "write" \in did[t] =>
         /\ vmInitialized
         /\ msg[t].kind = "AddPackage" =>
              /\ pc[t] = "running" => msg[t].pkg \in overlay[t]
              /\ reply[t] = "ok" => msg[t].pkg \in memory[vmKeeper]

LEMMA MemoryInit == Init => MemoryInv
  BY DEF Init, MemoryInv, Active, Reqs

(* More writes, more packages.                                             *)
LEMMA InstalledGrows ==
    ASSUME NEW v, NEW w, v.wrote \subseteq w.wrote
    PROVE  Installed(v) \subseteq Installed(w)
  BY DEF Installed

(* The steps of a handler, on the state the memory depends on.             *)
LEMMA MemorySteps ==
    ASSUME TypeOK, SerialInv, BuildInv, DeliveryInv, MemoryInv, LoadingHasVM,
           NEW r \in Reqs,
           \/ Refuse(r) \/ Pay(r) \/ Write(r) \/ SetContext(r) \/ CheckInitialized(r)
           \/ SetInitContext(r) \/ NewVM(r) \/ LoadVM(r) \/ BeginTransaction(r)
           \/ StopBeforeVM(r)
           \/ VMReturn(r) \/ QueryReturn(r) \/ SetVMParams(r) \/ SetModuleParams(r)
    PROVE  MemoryInv'
<1>0. Txs \subseteq Reqs
  BY DEF Reqs
<1>1. HandlerStep(r)
  BY HandlerSteps
<1>2. /\ msg' = msg /\ block' = block /\ committed' = committed
      /\ Installed(block)' = Installed(block) /\ Installed(committed)' = Installed(committed)
      /\ Active(r) /\ Active(r)'
      /\ \A q \in Reqs : Active(q)' => q = r
      /\ \A q \in Reqs : branch[q].wrote \subseteq branch'[q].wrote
  BY <1>1 DEF HandlerStep, chainVars, SerialInv, Active, Installed
<1>3. pc[r] \in Locations /\ (pc[r] \notin {"replied", "done"} => reply[r] = "none")
  BY DEF SerialInv, TypeOK
(* It is enough to look at the request that steps. *)
<1>4. ASSUME vmInitialized' => vmKeeper' \in Reqs
                   /\ Installed(block) \cup Installed(committed) \subseteq memory'[vmKeeper'],
             loaded' # {} => vmInitialized',
             ~vmInitialized' => ~vmInitialized,
             pc'[r] \in {"running", "paramsHalf"} => vmInitialized' /\ txVM'[r] = vmKeeper',
             r \in Txs /\ "write" \in did'[r] =>
               /\ vmInitialized'
               /\ msg[r].kind = "AddPackage" =>
                    /\ pc'[r] = "running" => msg[r].pkg \in overlay'[r]
                    /\ reply'[r] = "ok" => msg[r].pkg \in memory'[vmKeeper']
      PROVE  MemoryInv'
  <2>1. ~vmInitialized' => block'.wrote = committed'.wrote
    BY <1>2, <1>4 DEF MemoryInv
  <2>2. ASSUME NEW q \in Reqs, Active(q)'
        PROVE  /\ ~vmInitialized' => block'.wrote \subseteq branch'[q].wrote
               /\ pc'[q] \in {"running", "paramsHalf"} => vmInitialized' /\ txVM'[q] = vmKeeper'
    BY <1>2, <1>4, <2>2 DEF MemoryInv
  <2>3. ASSUME NEW t \in Txs, Active(t)', "write" \in did'[t]
        PROVE  /\ vmInitialized'
               /\ msg'[t].kind = "AddPackage" =>
                    /\ pc'[t] = "running" => msg'[t].pkg \in overlay'[t]
                    /\ reply'[t] = "ok" => msg'[t].pkg \in memory'[vmKeeper']
    BY <1>0, <1>2, <1>4, <2>3
  <2> QED
    BY <1>2, <1>4, <2>1, <2>2, <2>3 DEF MemoryInv
<1> USE DEF TypeOK, Goto, Answer
(* The steps that leave the VM and the request's work alone. *)
<1>5. ASSUME UNCHANGED <<vmInitialized, vmKeeper, loaded, memory, overlay, did>>,
             pc'[r] \in {"running", "paramsHalf"} => vmInitialized /\ txVM'[r] = vmKeeper,
             pc'[r] = "running" => pc[r] = "running" \/ (r \in Txs => did[r] = {}),
             reply'[r] = "ok" => reply[r] = "ok" \/ "write" \notin did[r]
                                 \/ msg[r].kind # "AddPackage"
      PROVE  MemoryInv'
  BY <1>2, <1>4, <1>5 DEF MemoryInv
<1>6. ASSUME pc[r] \in {"entered", "ctxSet", "building", "unmetered", "loading", "ready"}, r \in Txs
      PROVE  did[r] = {}
  BY <1>2, <1>6 DEF DeliveryInv, DeliveryOf
<1>7. CASE Refuse(r)
  <2>1. reply'[r] = "ok" => msg[r].kind # "AddPackage"
    BY <1>7 DEF Refuse
  <2> QED
    BY <1>5, <1>7, <2>1 DEF Refuse, vmVars
<1>8. CASE SetContext(r)
  BY <1>5, <1>8 DEF SetContext, reqVars
<1>9. CASE CheckInitialized(r)
  BY <1>5, <1>9 DEF CheckInitialized, vmVars, reqVars
<1>unmetered. CASE SetInitContext(r)
  BY <1>5, <1>unmetered DEF SetInitContext, reqVars
<1>10. CASE NewVM(r)
  <2>1. ~vmInitialized /\ ~vmInitialized' /\ pc'[r] = "loading" /\ loaded' \subseteq loaded
        /\ did' = did
    BY <1>10 DEF NewVM, BuildInv, reqVars
  <2>2. loaded' = {}
    BY <2>1 DEF MemoryInv
  <2>3. r \in Txs => did[r] = {}
    BY <1>6, <1>10 DEF NewVM
  <2> QED
    BY <1>4, <2>1, <2>2, <2>3
<1>11. CASE LoadVM(r)
  <2>1. ~vmInitialized /\ vmInitialized' /\ pc[r] = "loading" /\ pc'[r] = "ready" /\ did' = did
        /\ vmKeeper' = vmKeeper
    BY <1>11 DEF LoadVM, BuildInv
  <2>2. vmKeeper \in Reqs
    BY <2>1 DEF LoadingHasVM
  <2>3. memory'[vmKeeper] = Installed(branch[r])
    BY <1>11, <2>2 DEF LoadVM
  <2>4. Installed(block) \subseteq Installed(branch[r])
    BY <1>2, <2>1, InstalledGrows DEF MemoryInv
  <2>5. Installed(committed) \subseteq Installed(branch[r])
    BY <1>2, <2>1, InstalledGrows DEF MemoryInv
  <2>6. r \in Txs => did[r] = {}
    BY <1>6, <2>1
  <2> QED
    BY <1>4, <2>1, <2>2, <2>3, <2>4, <2>5, <2>6
<1>12. CASE BeginTransaction(r)
  <2>1. vmInitialized
    BY <1>12 DEF BeginTransaction, MemoryInv
  <2>2. r \in Txs => did[r] = {}
    BY <1>6, <1>12 DEF BeginTransaction
  <2> QED
    BY <1>5, <1>12, <2>1, <2>2 DEF BeginTransaction, vmVars
<1>13. CASE StopBeforeVM(r)
  BY <1>5, <1>13 DEF StopBeforeVM, vmVars
<1>14. CASE Pay(r)
  <2>1. /\ UNCHANGED <<vmInitialized, vmKeeper, loaded, memory, overlay, txVM, pc, reply>>
        /\ did' = [did EXCEPT ![r] = @ \cup {"pay"}]
    BY <1>14 DEF Pay, vmVars
  <2>2. "write" \in did'[r] => "write" \in did[r]
    BY <2>1
  <2> QED
    BY <1>0, <1>2, <1>4, <2>1, <2>2 DEF MemoryInv
<1>15. CASE Write(r)
  <2>1. /\ UNCHANGED <<vmInitialized, vmKeeper, loaded, memory, txVM, pc, reply>>
        /\ pc[r] = "running"
    BY <1>15 DEF Write, vmVars
  <2>2. msg[r].kind = "AddPackage" => msg[r].pkg \in overlay'[r]
    BY <1>15 DEF Write
  <2> QED
    BY <1>0, <1>2, <1>3, <1>4, <2>1, <2>2 DEF MemoryInv
<1>16. CASE VMReturn(r)
  <2> PICK out \in {"ok", "err", "panic"} :
        /\ Answer(r, out, HandlerReply(msg[r].kind, out))
        /\ memory' = CommitTransaction(r, out)
    BY <1>16 DEF VMReturn
  <2>1. /\ UNCHANGED <<vmInitialized, vmKeeper, loaded, did, overlay, txVM>>
        /\ pc[r] = "running" /\ pc'[r] = "replied" /\ reply'[r] = HandlerReply(msg[r].kind, out)
    BY <1>16 DEF VMReturn
  <2>2. vmInitialized /\ txVM[r] = vmKeeper /\ vmKeeper \in Reqs
    BY <1>2, <2>1 DEF MemoryInv
  <2>3. memory[vmKeeper] \subseteq memory'[vmKeeper]
    BY <2>2 DEF CommitTransaction
  <2>4. msg[r].kind = "AddPackage" /\ reply'[r] = "ok" => overlay[r] \subseteq memory'[vmKeeper]
    BY <2>1, <2>2 DEF CommitTransaction, HandlerReply
  <2>5. r \in Txs /\ "write" \in did[r] /\ msg[r].kind = "AddPackage" => msg[r].pkg \in overlay[r]
    BY <1>2, <2>1 DEF MemoryInv
  <2> QED
    BY <1>4, <2>1, <2>2, <2>3, <2>4, <2>5 DEF MemoryInv
<1>17. CASE QueryReturn(r)
  BY <1>5, <1>17 DEF QueryReturn, vmVars
<1>18. CASE SetVMParams(r)
  <2>1. /\ UNCHANGED <<vmInitialized, vmKeeper, loaded, memory, overlay, txVM>>
        /\ pc[r] = "running" /\ pc'[r] \in {"paramsHalf", "replied"}
        /\ msg[r].kind = "UpdateParams"
    BY <1>18 DEF SetVMParams, vmVars
  <2> QED
    BY <1>2, <1>4, <2>1 DEF MemoryInv
<1>19. CASE SetModuleParams(r)
  <2>1. /\ UNCHANGED <<vmInitialized, vmKeeper, loaded, memory, overlay, txVM, did>>
        /\ pc[r] = "paramsHalf" /\ pc'[r] = "replied"
    BY <1>19 DEF SetModuleParams, vmVars
  <2>2. r \in Txs => msg[r].kind = "UpdateParams"
    BY <1>2, <2>1 DEF DeliveryInv, DeliveryOf
  <2> QED
    BY <1>2, <1>4, <2>1, <2>2 DEF MemoryInv
<1> QED
  BY <1>7, <1>8, <1>9, <1>unmetered, <1>10, <1>11, <1>12, <1>13, <1>14, <1>15, <1>16, <1>17,
     <1>18, <1>19

LEMMA MemoryNext ==
    ASSUME Historical = FALSE,
           TypeInv, SerialInv, SerialInv', BuildInv, DeliveryInv, MemoryInv, [Next]_vars
    PROVE  MemoryInv'
<1>0. TypeOK /\ LoadingHasVM /\ Txs \subseteq Reqs
  BY DEF TypeInv, Reqs
<1>1. ASSUME NEW r \in Reqs, NEW v, Start(r, v), v \in {block, committed} PROVE MemoryInv'
  <2>1. /\ UNCHANGED <<msg, block, committed, did, reply, txVM, overlay>>
        /\ UNCHANGED <<vmInitialized, vmKeeper, loaded, memory>>
        /\ pc[r] = "idle" /\ pc' = [pc EXCEPT ![r] = "entered"]
        /\ branch' = [branch EXCEPT ![r] = v]
    BY <1>1 DEF Start, Goto, chainVars, vmVars
  <2>2. \A q \in Reqs : Active(q)' => q = r
    BY <1>0, <2>1 DEF SerialInv, Active, TypeOK
  <2>3. r \in Txs => did[r] = {}
    BY <2>1 DEF DeliveryInv, Active
  <2>4. Installed(block)' = Installed(block) /\ Installed(committed)' = Installed(committed)
    BY <2>1 DEF Installed
  <2> QED
    BY <1>0, <1>1, <2>1, <2>2, <2>3, <2>4 DEF MemoryInv, TypeOK
<1>2. ASSUME NEW r \in Reqs, DeliverTx(r) \/ Simulate(r) \/ ServeQuery(r) PROVE MemoryInv'
  BY <1>1, <1>2 DEF DeliverTx, Simulate, ServeQuery
<1>3. ASSUME NEW r \in Reqs,
             \/ Refuse(r) \/ Pay(r) \/ Write(r) \/ SetContext(r) \/ CheckInitialized(r)
             \/ SetInitContext(r) \/ NewVM(r) \/ LoadVM(r) \/ BeginTransaction(r)
             \/ StopBeforeVM(r)
             \/ VMReturn(r) \/ QueryReturn(r) \/ SetVMParams(r) \/ SetModuleParams(r)
      PROVE  MemoryInv'
  BY <1>0, <1>3, MemorySteps
<1>4. ASSUME NEW r \in Reqs, Dispose(r) PROVE MemoryInv'
  <2>1. /\ pc[r] = "replied" /\ pc' = [pc EXCEPT ![r] = "done"]
        /\ msg' = msg /\ committed' = committed
        /\ block' = IF Applied(r) THEN branch[r] ELSE block
        /\ UNCHANGED <<vmInitialized, vmKeeper, loaded, memory>>
    BY <1>4 DEF Dispose, Goto, NextBlock, vmVars
  <2>2. \A q \in Reqs : ~Active(q)'
    BY <1>0, <2>1 DEF SerialInv, Active, TypeOK
  <2>3. CASE ~Applied(r)
    BY <1>0, <2>1, <2>2, <2>3 DEF MemoryInv, Installed
  <2>4. CASE Applied(r)
    <3>1. r \in Txs /\ Active(r) /\ DeliveryOf(r) /\ Delivered(r) /\ block' = branch[r]
      BY <2>1, <2>4 DEF Applied, Active, DeliveryInv, DeliveryOf
    <3>2. reply[r] = "ok"
      BY <2>4, <3>1 DEF Applied, DeliveryOf
    <3>3. "write" \notin did[r] => branch[r].wrote = block.wrote
      BY <3>1 DEF Delivered
    <3>4. ~vmInitialized => block'.wrote = committed'.wrote
      BY <2>1, <3>1, <3>3 DEF MemoryInv
    <3>5. vmInitialized => Installed(branch[r]) \subseteq memory[vmKeeper]
      <4>1. CASE msg[r].kind = "AddPackage" /\ "write" \in did[r]
        <5>1. Installed(branch[r]) \subseteq Installed(block) \cup {msg[r].pkg}
          BY <3>1 DEF Delivered, Installed
        <5> QED
          BY <3>1, <3>2, <4>1, <5>1 DEF MemoryInv
      <4>2. CASE msg[r].kind # "AddPackage" \/ "write" \notin did[r]
        BY <1>0, <3>1, <4>2, DeliveredPackages DEF MemoryInv
      <4> QED
        BY <4>1, <4>2
    <3>6. Installed(block)' = Installed(branch[r]) /\ Installed(committed)' = Installed(committed)
      BY <2>1, <3>1 DEF Installed
    <3> QED
      BY <1>0, <2>1, <2>2, <3>4, <3>5, <3>6 DEF MemoryInv
  <2> QED
    BY <2>3, <2>4
<1>5. CASE CommitBlock
  <2>1. /\ UNCHANGED <<msg, block, pc, branch, did, reply, txVM, overlay>>
        /\ UNCHANGED <<vmInitialized, vmKeeper, loaded, memory>> /\ committed' = block
    BY <1>5 DEF CommitBlock, vmVars, reqVars
  <2>2. Installed(block)' = Installed(block) /\ Installed(committed)' = Installed(block)
    BY <2>1 DEF Installed
  <2> QED
    BY <2>1, <2>2 DEF MemoryInv, Active
<1>6. CASE AbortBlock
  <2>1. /\ msg' = msg /\ block' = committed /\ committed' = committed
        /\ UNCHANGED <<vmInitialized, vmKeeper, loaded, memory>>
        /\ Forget(inBlock) /\ inBlock \subseteq Txs /\ \A t \in Txs : ~Active(t)
    BY <1>0, <1>6 DEF AbortBlock, vmVars, TypeOK
  <2>2. Installed(block)' = Installed(committed) /\ Installed(committed)' = Installed(committed)
    BY <2>1 DEF Installed
  <2>3. \A q \in Reqs : Active(q)' => /\ Active(q) /\ q \notin Txs
                                     /\ pc'[q] = pc[q] /\ branch'[q] = branch[q]
                                     /\ txVM'[q] = txVM[q]
    BY <1>0, <2>1 DEF Forget, Active
  <2> QED
    BY <1>0, <2>1, <2>2, <2>3 DEF MemoryInv
<1>7. CASE Restart
  <2>1. /\ block' = committed /\ committed' = committed
        /\ vmInitialized' = FALSE /\ loaded' = {}
    BY <1>7 DEF Restart
  <2>2. \A q \in Reqs : ~Active(q)'
    BY <1>7 DEF Restart, LostByRestart, Forget, Active
  <2> QED
    BY <1>0, <2>1, <2>2 DEF MemoryInv
<1>8. CASE UNCHANGED vars
  BY <1>8 DEF vars, chainVars, vmVars, reqVars, MemoryInv, Installed, Active
<1> QED
  BY <1>2, <1>3, <1>4, <1>5, <1>6, <1>7, <1>8 DEF Next, Handle

(* Served one at a time, with no query of an earlier height to build the   *)
(* VM from and no AddPackage that panics into the handler, every package   *)
(* of the block's state is in the memory of the VM that the next message   *)
(* will use, through simulations, dropped proposals and restarts.          *)
THEOREM SerialMemoryComplete ==
    ASSUME Overlap = FALSE, Historical = FALSE, "AddPackage" \notin MayPanic
    PROVE  Spec => []MemoryComplete
<1> DEFINE Inv == TypeInv /\ SerialInv /\ WritesInv /\ BuildInv /\ DeliveryInv /\ MemoryInv
<1>1. Init => BuildInv
  BY DEF Init, BuildInv
<1>2. TypeInv => TypeOK
  BY DEF TypeInv
<1>3. TypeOK /\ SerialInv /\ [Next]_vars => SerialInv'
  BY SerialNext
<1>4. TypeOK /\ SerialInv /\ BuildInv /\ [Next]_vars => BuildInv'
  BY BuildNext
<1>5. Inv /\ SerialInv' /\ [Next]_vars => DeliveryInv'
  BY DeliveryNext DEF TypeInv
<1>6. Inv /\ SerialInv' /\ [Next]_vars => MemoryInv'
  BY MemoryNext
<1>7. MemoryInv => MemoryComplete
  BY DEF MemoryInv, MemoryComplete
<1> QED
  BY TypeInit, TypeNext, SerialInit, WritesInit, WritesNext, DeliveryInit, MemoryInit,
     <1>1, <1>2, <1>3, <1>4, <1>5, <1>6, <1>7, PTL
  DEF Spec
=============================================================================
