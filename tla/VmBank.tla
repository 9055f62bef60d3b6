------------------------------- MODULE VmBank -------------------------------
(***************************************************************************)
(* The coin operations of Gno code: the native banker functions of the     *)
(* standard library and, below them, vmBankKeeper, which carries them out  *)
(* on the SDK's bank.  One message runs at a time; its operations work on  *)
(* the message's branch of the bank and are kept or dropped at its end.    *)
(*                                                                         *)
(* The bank of the SDK and the VM's SDKBanker are not part of the          *)
(* repository; they are modelled from how it uses them.                    *)
(***************************************************************************)
EXTENDS Integers

CONSTANTS
    Accounts,      \* the accounts messages may name
    Module,        \* the gnovm module account
    Realm,         \* the realm whose code runs
    Caller,        \* the account that signs the messages
    Blocked,       \* the accounts the bank lets no module send to
    GenesisNative, \* what each account holds of the native coin at genesis
    MaxInt64,      \* the largest amount an int64 holds
    MaxSupply,     \* bound of the model: realm coins ever minted, or removed
    CanMint,       \* may the gnovm module account mint? (app_config.go)
    MayPanic       \* the messages whose VM lets a panic reach the handler

VMKinds == {"AddPackage", "Call", "Run"}

ASSUME AccountAssumption ==
    /\ Realm \in Accounts /\ Caller \in Accounts /\ Module \in Accounts
    /\ Blocked \subseteq Accounts
    /\ GenesisNative \in [Accounts -> Nat]
ASSUME BoundAssumption == MaxInt64 \in Nat /\ MaxSupply \in Nat
ASSUME FlagAssumption == CanMint \in BOOLEAN /\ MayPanic \subseteq VMKinds

(* Amounts in Gno code are int64 and may be negative. *)
Int64 == (-MaxInt64 - 1)..MaxInt64

(* The bank: who holds how much of the native coin and of the realm's own  *)
(* coin, and the supply of the realm's coin.  issued and removed count     *)
(* what completed IssueCoin and RemoveCoin calls added and took away.      *)
Banks == [native : [Accounts -> Nat], token : [Accounts -> Nat],
          supply : Nat, issued : Nat, removed : Nat]

VARIABLES
    chain,    \* the bank of the chain
    bank,     \* the bank in the branch of the message that runs
    kind,     \* its kind, or "none"
    failed,   \* has an operation failed, so that the VM gives up?
    limit,    \* ExecContext.OriginSend: the native coins sent with the message
    spent,    \* ExecContext.OriginSendSpent
    sent      \* what origin-send bankers have in fact sent

vars == <<chain, bank, kind, failed, limit, spent, sent>>

TypeOK ==
    /\ chain \in Banks /\ bank \in Banks
    /\ kind \in VMKinds \cup {"none"}
    /\ failed \in BOOLEAN
    /\ limit \in Nat /\ spent \in Nat /\ sent \in Nat

Genesis ==
    [native |-> GenesisNative, token |-> [a \in Accounts |-> 0],
     supply |-> 0, issued |-> 0, removed |-> 0]

Init ==
    /\ chain = Genesis /\ bank = Genesis
    /\ kind = "none" /\ failed = FALSE
    /\ limit = 0 /\ spent = 0 /\ sent = 0

-----------------------------------------------------------------------------
(* Conversions and the SDK's bank. *)

(* SDKCoinsFromStdCoins panics on a negative amount; the bank refuses a    *)
(* list with a zero amount.                                                *)
GoodAmount(n) == n > 0

(* StdCoinsFromSDKCoins converts all balances of an account, of every      *)
(* denomination, and panics on one that an int64 does not hold.            *)
Convertible(b, a) == b.native[a] <= MaxInt64 /\ b.token[a] <= MaxInt64

Move(f, from, to, n) ==
    LET g == [f EXCEPT ![from] = @ - n] IN [g EXCEPT ![to] = @ + n]

Minted(b, n) == [b EXCEPT !.token[Module] = @ + n, !.supply = @ + n]

(* An operation that fails makes the VM's banker panic: "Banker panics on  *)
(* errors instead of returning errors" (banker.gno).  What it did to the   *)
(* bank so far stays in the branch.                                        *)
Fail(b) == failed' = TRUE /\ bank' = b /\ UNCHANGED <<chain, kind, limit, spent, sent>>
Done(b) == bank' = b /\ UNCHANGED <<chain, kind, failed, limit, spent, sent>>

CanRun == kind # "none" /\ ~failed

-----------------------------------------------------------------------------
(* A message starts; the coins sent with it go from the caller to the realm. *)
Begin(k, n) ==
    /\ kind = "none"
    /\ n >= 0 /\ chain.native[Caller] >= n
    /\ kind' = k
    /\ bank' = [chain EXCEPT !.native = Move(@, Caller, Realm, n)]
    /\ limit' = n /\ spent' = 0 /\ sent' = 0
    /\ UNCHANGED <<chain, failed>>

(* vmBankKeeper.GetCoins, read by Gno code. *)
GetCoins(a) ==
    CanRun /\ ~Convertible(bank, a) /\ Fail(bank)

(* Faulty variant: an account the module may not send to counts as served. *)
AddCoinsUnchecked(a, n) ==
    /\ CanRun /\ bank.supply + n <= MaxSupply
    /\ \/ /\ ~GoodAmount(n) \/ ~CanMint
          /\ Fail(bank)
       \/ /\ GoodAmount(n) /\ CanMint
          /\ LET minted == Minted(bank, n)
                 moved  == [minted EXCEPT !.token = Move(@, Module, a, n)]
             IN  IF a \in Blocked THEN Done(minted)
                 ELSE Done([moved EXCEPT !.issued = @ + n])

(* vmBankKeeper.AddCoins for a realm that issues its coin.  It mints to    *)
(* the module account, sends from there, and converts the new balance;     *)
(* MintCoins panics without the permission.                                *)
AddCoins(a, n) ==
    /\ CanRun /\ bank.supply + n <= MaxSupply
    /\ \/ /\ ~GoodAmount(n) \/ ~CanMint
          /\ Fail(bank)
       \/ /\ GoodAmount(n) /\ CanMint
          /\ LET minted == Minted(bank, n)
                 moved  == [minted EXCEPT !.token = Move(@, Module, a, n)]
             IN  \/ a \in Blocked /\ Fail(minted)
                 \/ a \notin Blocked /\ ~Convertible(moved, a) /\ Fail(moved)
                 \/ /\ a \notin Blocked /\ Convertible(moved, a)
                    /\ Done([moved EXCEPT !.issued = @ + n])

(* vmBankKeeper.SubtractCoins for a realm that removes its coin: the coins *)
(* go to the module account; the balance it returns is computed from the   *)
(* one read before.                                                        *)
SubtractCoins(a, n) ==
    /\ CanRun /\ bank.removed + n <= MaxSupply
    /\ \/ /\ ~GoodAmount(n) \/ bank.token[a] < n
          /\ Fail(bank)
       \/ /\ GoodAmount(n) /\ bank.token[a] >= n
          /\ LET moved == [bank EXCEPT !.token = Move(@, a, Module, n)]
                 fits  == bank.native[a] <= MaxInt64 /\ bank.token[a] - n <= MaxInt64
             IN  \/ ~fits /\ Fail(moved)
                 \/ fits /\ Done([moved EXCEPT !.removed = @ + n])

(* vmBankKeeper.SendCoins with a realm-send banker, of either coin. *)
RealmSend(to, n) ==
    /\ CanRun
    /\ \/ /\ ~GoodAmount(n) \/ bank.native[Realm] < n
          /\ Fail(bank)
       \/ /\ GoodAmount(n) /\ bank.native[Realm] >= n
          /\ Done([bank EXCEPT !.native = Move(@, Realm, to, n)])
       \/ /\ GoodAmount(n) /\ bank.token[Realm] >= n
          /\ Done([bank EXCEPT !.token = Move(@, Realm, to, n)])

(* Faulty variant: each amount is compared with the limit on its own.      *)
WithinLimitEach(n) == n <= limit
(* X_bankerSendCoins, btOriginSend: the sum so far, which may overflow.    *)
WithinLimit(n) == spent + n <= limit

(* The limit panics in Gno code, which may recover and go on; a failure    *)
(* below it does not. What is spent is recorded after the transfer.        *)
OriginSend(to, n) ==
    /\ CanRun
    /\ \/ ~WithinLimit(n) /\ UNCHANGED vars
       \/ (~WithinLimit(n) \/ ~GoodAmount(n) \/ bank.native[Realm] < n) /\ Fail(bank)
       \/ /\ WithinLimit(n) /\ GoodAmount(n) /\ bank.native[Realm] >= n
          /\ bank' = [bank EXCEPT !.native = Move(@, Realm, to, n)]
          /\ spent' = spent + n /\ sent' = sent + n
          /\ UNCHANGED <<chain, kind, failed, limit>>

(* The message ends. One that failed is dropped, unless its panic reaches  *)
(* the handler of AddPackage, which returns no error.                      *)
Kept(b) ==
    IF failed /\ ~(kind = "AddPackage" /\ kind \in MayPanic) THEN chain ELSE b

Finish ==
    /\ kind # "none"
    /\ \/ chain' = Kept(bank)
       \* a message may also fail after its last coin operation
       \/ chain' = chain
    /\ bank' = chain'
    /\ kind' = "none" /\ failed' = FALSE
    /\ limit' = 0 /\ spent' = 0 /\ sent' = 0

Next ==
    \/ \E k \in VMKinds, n \in Int64 : Begin(k, n)
    \/ \E a \in Accounts : GetCoins(a)
    \/ \E a \in Accounts, n \in Int64 :
         AddCoins(a, n) \/ SubtractCoins(a, n) \/ RealmSend(a, n) \/ OriginSend(a, n)
    \/ Finish

Spec == Init /\ [][Next]_vars

-----------------------------------------------------------------------------
(* Over a whole message, whatever fails and is recovered from, origin-send *)
(* bankers send no more than came with it (banker.go, btOriginSend "can    *)
(* only send from tx send").                                               *)
OriginSendWithinLimit == sent <= limit

(* The realm coins in existence are those that completed IssueCoin calls   *)
(* of successful messages made: a call that fails after minting leaves     *)
(* nothing (wrapper.go, AddCoins).                                         *)
SupplyIsIssued == chain.supply = chain.issued
=============================================================================
