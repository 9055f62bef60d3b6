---------------------------- MODULE VmBankProofs ----------------------------
(***************************************************************************)
(* Theorems about VmBank for every set of accounts, width of the integers  *)
(* and bound on the supply.                                                *)
(***************************************************************************)
EXTENDS VmBank, TLAPS

(* What is recorded as spent is what was sent, and within the limit.       *)
SpentInv == TypeOK /\ spent = sent /\ sent <= limit

(* Until an operation fails, every coin minted in the branch was issued;   *)
(* between messages the branch is the chain.                               *)
SupplyInv ==
    /\ TypeOK
    /\ SupplyIsIssued
    /\ ~failed => bank.supply = bank.issued
    /\ kind = "none" => bank = chain /\ ~failed

LEMMA MoveType ==
    ASSUME NEW f \in [Accounts -> Nat], NEW from \in Accounts, NEW to \in Accounts,
           NEW n \in Nat, f[from] >= n
    PROVE  Move(f, from, to, n) \in [Accounts -> Nat]
<1> DEFINE g == [f EXCEPT ![from] = @ - n]
<1>1. g \in [Accounts -> Nat]
  OBVIOUS
<1> QED
  BY <1>1 DEF Move

LEMMA MintType ==
    ASSUME NEW b \in Banks, NEW n \in Nat
    PROVE  /\ Minted(b, n) \in Banks
           /\ Minted(b, n).token[Module] >= n
           /\ Minted(b, n).supply = b.supply + n /\ Minted(b, n).issued = b.issued
<1> DEFINE t == [b.token EXCEPT ![Module] = @ + n]
           c == [b EXCEPT !.token = t]
<1>1. t \in [Accounts -> Nat] /\ t[Module] >= n
  BY AccountAssumption DEF Banks
<1>2. /\ c \in Banks /\ c.token = t
      /\ c.supply = b.supply /\ c.issued = b.issued
  BY <1>1 DEF Banks
<1> HIDE DEF c, t
<1>3. \A d \in Banks : LET e == [d EXCEPT !.supply = @ + n]
                       IN  /\ e \in Banks /\ e.token = d.token
                           /\ e.supply = d.supply + n /\ e.issued = d.issued
  BY DEF Banks
<1>4. Minted(b, n) = [c EXCEPT !.supply = @ + n]
  BY DEF Minted, c, t, Banks
<1> QED
  BY <1>1, <1>2, <1>3, <1>4

(* Counting what was issued, or removed, changes nothing else.             *)
LEMMA CountType ==
    ASSUME NEW b \in Banks, NEW n \in Nat
    PROVE  /\ LET c == [b EXCEPT !.issued = @ + n]
              IN  c \in Banks /\ c.supply = b.supply /\ c.issued = b.issued + n
           /\ LET c == [b EXCEPT !.removed = @ + n]
              IN  c \in Banks /\ c.supply = b.supply /\ c.issued = b.issued
  BY DEF Banks

(* What one coin operation does to the branch: it fails, having minted     *)
(* perhaps, or it adds to the supply what it issues.                       *)
Operation ==
    \/ \E a \in Accounts : GetCoins(a)
    \/ \E a \in Accounts, n \in Int64 :
         AddCoins(a, n) \/ SubtractCoins(a, n) \/ RealmSend(a, n) \/ OriginSend(a, n)

BranchStep ==
    /\ bank' \in Banks
    /\ UNCHANGED <<chain, kind, limit>>
    /\ \/ failed' = TRUE
       \/ /\ UNCHANGED failed
          /\ bank'.supply - bank.supply = bank'.issued - bank.issued

LEMMA IssueStep ==
    ASSUME TypeOK, NEW a \in Accounts, NEW n \in Int64, AddCoins(a, n)
    PROVE  BranchStep /\ UNCHANGED <<spent, sent>>
<1> DEFINE minted == Minted(bank, n)
           moved  == [minted EXCEPT !.token = Move(@, Module, a, n)]
<1>0. n \in Int /\ bank \in Banks
  BY BoundAssumption DEF Int64, TypeOK
<1>1. CASE Fail(bank)
  BY <1>0, <1>1 DEF Fail, BranchStep
<1>2. CASE GoodAmount(n)
  <2>1. n \in Nat
    BY <1>0, <1>2 DEF GoodAmount
  <2>2. /\ minted \in Banks /\ minted.token[Module] >= n
        /\ minted.supply = bank.supply + n /\ minted.issued = bank.issued
    BY <1>0, <2>1, MintType
  <2>3. Move(minted.token, Module, a, n) \in [Accounts -> Nat]
    BY <2>1, <2>2, MoveType, AccountAssumption DEF Banks
  <2>4. /\ moved \in Banks
        /\ moved.supply = bank.supply + n /\ moved.issued = bank.issued
    BY <2>2, <2>3 DEF Banks
  <2>5. CASE Fail(minted) \/ Fail(moved)
    BY <2>2, <2>4, <2>5 DEF Fail, BranchStep
  <2>6. CASE Done([moved EXCEPT !.issued = @ + n])
    <3>1. /\ [moved EXCEPT !.issued = @ + n] \in Banks
          /\ [moved EXCEPT !.issued = @ + n].supply = bank.supply + n
          /\ [moved EXCEPT !.issued = @ + n].issued = bank.issued + n
      BY <2>1, <2>4, CountType
    <3>2. bank.supply \in Nat /\ bank.issued \in Nat
      BY <1>0 DEF Banks
    <3> QED
      BY <2>1, <2>6, <3>1, <3>2 DEF Done, BranchStep
  <2> QED
    BY <1>1, <1>2, <2>5, <2>6 DEF AddCoins
<1> QED
  BY <1>1, <1>2 DEF AddCoins

LEMMA RemoveStep ==
    ASSUME TypeOK, NEW a \in Accounts, NEW n \in Int64, SubtractCoins(a, n)
    PROVE  BranchStep /\ UNCHANGED <<spent, sent>>
<1> DEFINE moved == [bank EXCEPT !.token = Move(@, a, Module, n)]
<1>0. n \in Int /\ bank \in Banks
  BY BoundAssumption DEF Int64, TypeOK
<1>1. CASE Fail(bank)
  BY <1>0, <1>1 DEF Fail, BranchStep
<1>2. CASE GoodAmount(n) /\ bank.token[a] >= n
  <2>1. n \in Nat
    BY <1>0, <1>2 DEF GoodAmount
  <2>2. Move(bank.token, a, Module, n) \in [Accounts -> Nat]
    BY <1>0, <1>2, <2>1, MoveType, AccountAssumption DEF Banks
  <2>3. moved \in Banks /\ moved.supply = bank.supply /\ moved.issued = bank.issued
    BY <1>0, <2>2 DEF Banks
  <2>4. CASE Fail(moved)
    BY <2>3, <2>4 DEF Fail, BranchStep
  <2>5. CASE Done([moved EXCEPT !.removed = @ + n])
    <3>1. /\ [moved EXCEPT !.removed = @ + n] \in Banks
          /\ [moved EXCEPT !.removed = @ + n].supply = bank.supply
          /\ [moved EXCEPT !.removed = @ + n].issued = bank.issued
      BY <2>1, <2>3, CountType
    <3>2. bank.supply \in Nat /\ bank.issued \in Nat
      BY <1>0 DEF Banks
    <3> QED
      BY <2>5, <3>1, <3>2 DEF Done, BranchStep
  <2> QED
    BY <1>1, <1>2, <2>4, <2>5 DEF SubtractCoins
<1> QED
  BY <1>1, <1>2 DEF SubtractCoins

(* A transfer of either coin touches balances only.                        *)
LEMMA TransferType ==
    ASSUME TypeOK, NEW to \in Accounts, NEW n \in Nat,
           \/ /\ bank.native[Realm] >= n
              /\ bank' = [bank EXCEPT !.native = Move(@, Realm, to, n)]
           \/ /\ bank.token[Realm] >= n
              /\ bank' = [bank EXCEPT !.token = Move(@, Realm, to, n)]
    PROVE  /\ bank' \in Banks
           /\ bank'.supply - bank.supply = bank'.issued - bank.issued
<1>0. bank \in Banks
  BY DEF TypeOK
<1>1. bank.native[Realm] >= n => Move(bank.native, Realm, to, n) \in [Accounts -> Nat]
  BY <1>0, MoveType, AccountAssumption DEF Banks
<1>2. bank.token[Realm] >= n => Move(bank.token, Realm, to, n) \in [Accounts -> Nat]
  BY <1>0, MoveType, AccountAssumption DEF Banks
<1>3. /\ bank' \in Banks
      /\ bank'.supply = bank.supply /\ bank'.issued = bank.issued
  BY <1>0, <1>1, <1>2 DEF Banks
<1>4. bank.supply \in Nat /\ bank.issued \in Nat
  BY <1>0 DEF Banks
<1> QED
  BY <1>3, <1>4

LEMMA RealmSendStep ==
    ASSUME TypeOK, NEW a \in Accounts, NEW n \in Int64, RealmSend(a, n)
    PROVE  BranchStep /\ UNCHANGED <<spent, sent>>
<1>0. /\ n \in Int /\ bank \in Banks
      /\ bank.supply \in Nat /\ bank.issued \in Nat
  BY BoundAssumption DEF Int64, TypeOK, Banks
<1>1. CASE Fail(bank)
  BY <1>0, <1>1 DEF Fail, BranchStep
<1>2. CASE GoodAmount(n) /\ ~Fail(bank)
  <2>1. n \in Nat
    BY <1>0, <1>2 DEF GoodAmount
  <2>2. CASE /\ bank.native[Realm] >= n
             /\ Done([bank EXCEPT !.native = Move(@, Realm, a, n)])
    BY <1>0, <2>1, <2>2, TransferType DEF Done, BranchStep
  <2>3. CASE /\ bank.token[Realm] >= n
             /\ Done([bank EXCEPT !.token = Move(@, Realm, a, n)])
    BY <1>0, <2>1, <2>3, TransferType DEF Done, BranchStep
  <2> QED
    BY <1>2, <2>2, <2>3 DEF RealmSend
<1> QED
  BY <1>1, <1>2 DEF RealmSend

(* An origin-send either changes nothing, fails, or records what it sends. *)
LEMMA OriginSendStep ==
    ASSUME TypeOK, NEW a \in Accounts, NEW n \in Int64, OriginSend(a, n)
    PROVE  \/ UNCHANGED vars
           \/ BranchStep /\ UNCHANGED <<spent, sent>>
           \/ /\ BranchStep
              /\ n \in Nat /\ spent + n <= limit
              /\ spent' = spent + n /\ sent' = sent + n
<1>0. /\ n \in Int /\ bank \in Banks
      /\ bank.supply \in Nat /\ bank.issued \in Nat
  BY BoundAssumption DEF Int64, TypeOK, Banks
<1>1. CASE Fail(bank)
  BY <1>0, <1>1 DEF Fail, BranchStep
<1>2. CASE /\ WithinLimit(n) /\ GoodAmount(n) /\ bank.native[Realm] >= n
           /\ bank' = [bank EXCEPT !.native = Move(@, Realm, a, n)]
           /\ spent' = spent + n /\ sent' = sent + n
           /\ UNCHANGED <<chain, kind, failed, limit>>
  <2>1. n \in Nat
    BY <1>0, <1>2 DEF GoodAmount
  <2>2. BranchStep
    BY <1>0, <1>2, <2>1, TransferType DEF BranchStep
  <2> QED
    BY <1>2, <2>1, <2>2 DEF WithinLimit
<1> QED
  BY <1>1, <1>2 DEF OriginSend

LEMMA BeginStep ==
    ASSUME TypeOK, NEW k \in VMKinds, NEW n \in Int64, Begin(k, n)
    PROVE  /\ TypeOK' /\ UNCHANGED <<chain, failed>>
           /\ bank'.supply = chain.supply /\ bank'.issued = chain.issued
           /\ spent' = 0 /\ sent' = 0 /\ limit' = n /\ kind' = k
<1>1. n \in Nat /\ chain \in Banks
  BY BoundAssumption DEF Begin, Int64, TypeOK
<1>2. Move(chain.native, Caller, Realm, n) \in [Accounts -> Nat]
  BY <1>1, MoveType, AccountAssumption DEF Banks, Begin
<1>3. /\ bank' \in Banks
      /\ bank'.supply = chain.supply /\ bank'.issued = chain.issued
  BY <1>1, <1>2 DEF Begin, Banks
<1> QED
  BY <1>1, <1>3 DEF Begin, TypeOK

(* Every operation of a running message is a step on its branch; what it   *)
(* sends from the origin's coins it records, within the limit.             *)
LEMMA OperationStep ==
    ASSUME TypeOK, Operation
    PROVE  \/ UNCHANGED vars
           \/ BranchStep /\ UNCHANGED <<spent, sent>>
           \/ /\ BranchStep
              /\ \E n \in Nat : /\ spent + n <= limit
                                /\ spent' = spent + n /\ sent' = sent + n
<1>1. ASSUME NEW a \in Accounts, GetCoins(a)
      PROVE  BranchStep /\ UNCHANGED <<spent, sent>>
  BY <1>1 DEF GetCoins, Fail, BranchStep, TypeOK
<1>2. ASSUME NEW a \in Accounts, NEW n \in Int64,
             AddCoins(a, n) \/ SubtractCoins(a, n) \/ RealmSend(a, n)
      PROVE  BranchStep /\ UNCHANGED <<spent, sent>>
  BY <1>2, IssueStep, RemoveStep, RealmSendStep
<1> QED
  BY <1>1, <1>2, OriginSendStep DEF Operation

LEMMA NextSplits ==
    Next <=> (\E k \in VMKinds, n \in Int64 : Begin(k, n)) \/ Operation \/ Finish
  BY DEF Next, Operation

LEMMA FinishStep ==
    ASSUME TypeOK, Finish
    PROVE  /\ TypeOK' /\ bank' = chain' /\ kind' = "none" /\ ~failed'
           /\ spent' = 0 /\ sent' = 0 /\ limit' = 0
           /\ \/ chain' = chain
              \/ ~failed /\ chain' = bank
              \/ kind = "AddPackage" /\ kind \in MayPanic
  BY DEF Finish, Kept, TypeOK

LEMMA BranchStepType ==
    ASSUME TypeOK, BranchStep, spent' \in Nat, sent' \in Nat
    PROVE  TypeOK'
  BY DEF TypeOK, BranchStep

LEMMA OperationRuns ==
    ASSUME Operation
    PROVE  kind # "none"
<1>1. \A a \in Accounts : GetCoins(a) => CanRun
  BY DEF GetCoins
<1>2. \A a \in Accounts, n \in Int64 :
        (AddCoins(a, n) => CanRun) /\ (SubtractCoins(a, n) => CanRun)
  BY DEF AddCoins, SubtractCoins
<1>3. \A a \in Accounts, n \in Int64 :
        (RealmSend(a, n) => CanRun) /\ (OriginSend(a, n) => CanRun)
  BY DEF RealmSend, OriginSend
<1> QED
  BY <1>1, <1>2, <1>3 DEF Operation, CanRun

LEMMA Start ==
    ASSUME Init
    PROVE  TypeOK /\ chain.supply = 0 /\ chain.issued = 0
<1>1. Genesis \in Banks /\ Genesis.supply = 0 /\ Genesis.issued = 0
  BY AccountAssumption DEF Genesis, Banks
<1> QED
  BY <1>1 DEF Init, TypeOK

-----------------------------------------------------------------------------
(* X_bankerSendCoins: whatever a message does, fails at and recovers from, *)
(* its origin-send bankers send no more than came with it.                 *)
THEOREM OriginSendsWithinLimit == Spec => []OriginSendWithinLimit
<1>1. Init => SpentInv
  <2> SUFFICES ASSUME Init PROVE SpentInv
    OBVIOUS
  <2>1. TypeOK
    BY Start
  <2>2. spent = 0 /\ sent = 0 /\ limit = 0
    BY DEF Init
  <2> QED
    BY <2>1, <2>2 DEF SpentInv
<1>2. SpentInv /\ [Next]_vars => SpentInv'
  <2> SUFFICES ASSUME SpentInv, [Next]_vars PROVE SpentInv'
    OBVIOUS
  <2>0. TypeOK /\ spent = sent /\ sent <= limit
    BY DEF SpentInv
  <2>1. CASE UNCHANGED vars
    BY <2>0, <2>1 DEF vars, SpentInv, TypeOK
  <2>2. ASSUME NEW k \in VMKinds, NEW n \in Int64, Begin(k, n) PROVE SpentInv'
    <3>1. TypeOK' /\ spent' = 0 /\ sent' = 0
      BY <2>0, <2>2, BeginStep
    <3> QED
      BY <3>1 DEF SpentInv, TypeOK
  <2>3. CASE Operation
    <3>1. BranchStep => limit' = limit
      BY DEF BranchStep
    <3>2. ASSUME BranchStep, NEW n \in Nat, spent + n <= limit,
                 spent' = spent + n, sent' = sent + n
          PROVE  SpentInv'
      BY <2>0, <3>1, <3>2, BranchStepType DEF SpentInv, TypeOK
    <3>3. ASSUME BranchStep, UNCHANGED <<spent, sent>> PROVE SpentInv'
      BY <2>0, <3>1, <3>3, BranchStepType DEF SpentInv, TypeOK
    <3> QED
      BY <2>0, <2>1, <2>3, <3>2, <3>3, OperationStep
  <2>4. CASE Finish
    BY <2>0, <2>4, FinishStep DEF SpentInv, TypeOK
  <2> QED
    BY <2>1, <2>2, <2>3, <2>4, NextSplits
<1>3. SpentInv => OriginSendWithinLimit
  BY DEF SpentInv, OriginSendWithinLimit
<1> QED
  BY <1>1, <1>2, <1>3, PTL DEF Spec

(* wrapper.go, AddCoins: the realm coins in existence are those completed  *)
(* IssueCoin calls of successful messages made, as long as no panic of an  *)
(* AddPackage counts as success.                                           *)
THEOREM SupplyIsWhatWasIssued ==
    ASSUME "AddPackage" \notin MayPanic
    PROVE  Spec => []SupplyIsIssued
<1>1. Init => SupplyInv
  BY Start DEF Init, SupplyInv, SupplyIsIssued
<1>2. SupplyInv /\ [Next]_vars => SupplyInv'
  <2> SUFFICES ASSUME SupplyInv, [Next]_vars PROVE SupplyInv'
    OBVIOUS
  <2>0. /\ TypeOK /\ chain.supply = chain.issued
        /\ ~failed => bank.supply = bank.issued
        /\ kind = "none" => bank = chain /\ ~failed
    BY DEF SupplyInv, SupplyIsIssued
  <2>1. CASE UNCHANGED vars
    BY <2>0, <2>1 DEF vars, SupplyInv, SupplyIsIssued, TypeOK
  <2>2. ASSUME NEW k \in VMKinds, NEW n \in Int64, Begin(k, n) PROVE SupplyInv'
    <3>1. k # "none"
      BY DEF VMKinds
    <3> QED
      BY <2>0, <2>2, <3>1, BeginStep DEF SupplyInv, SupplyIsIssued
  <2>3. CASE Operation
    <3>1. BranchStep => UNCHANGED <<chain, kind>>
      BY DEF BranchStep
    <3>2. ASSUME BranchStep PROVE ~failed' => bank'.supply = bank'.issued
      <4>1. /\ bank.supply \in Nat /\ bank.issued \in Nat
            /\ bank'.supply \in Nat /\ bank'.issued \in Nat
        BY <2>0, <3>2 DEF BranchStep, TypeOK, Banks
      <4> QED
        BY <2>0, <3>2, <4>1 DEF BranchStep
    <3>3. ASSUME BranchStep, TypeOK' PROVE SupplyInv'
      BY <2>0, <2>3, <3>1, <3>2, <3>3, OperationRuns DEF SupplyInv, SupplyIsIssued
    <3>4. ASSUME BranchStep, UNCHANGED <<spent, sent>> PROVE TypeOK'
      BY <2>0, <3>4, BranchStepType DEF TypeOK
    <3>5. ASSUME BranchStep, NEW n \in Nat, spent' = spent + n, sent' = sent + n
          PROVE  TypeOK'
      BY <2>0, <3>5, BranchStepType DEF TypeOK
    <3> QED
      BY <2>0, <2>1, <2>3, <3>3, <3>4, <3>5, OperationStep
  <2>4. CASE Finish
    BY <2>0, <2>4, FinishStep DEF SupplyInv, SupplyIsIssued
  <2> QED
    BY <2>1, <2>2, <2>3, <2>4, NextSplits
<1>3. SupplyInv => SupplyIsIssued
  BY DEF SupplyInv
<1> QED
  BY <1>1, <1>2, <1>3, PTL DEF Spec
=============================================================================
