SPECIFICATION Spec
CONSTANTS
    alice = alice
    realm = realm
    pool = pool
    module = module
    Accounts <- MCAccounts
    Module = module
    Realm = realm
    Caller = alice
    Blocked = {pool}
    GenesisNative <- MCGenesisNative
    MaxInt64 = 2
    MaxSupply = 1
    CanMint = TRUE
    MayPanic = {"Call", "Run"}
INVARIANTS
    OriginSendWithinLimit
    SupplyIsIssued
