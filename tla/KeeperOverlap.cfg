SPECIFICATION FairSpec
CONSTANTS
    Txs = {t1}
    Sims = {s1}
    Queries = {}
    Pkgs = {p, g}
    GenesisPkgs = {g}
    NoReq = NoReq
    NoPkg = NoPkg
    Overlap = TRUE
    Historical = FALSE
    MayPanic = {"AddPackage", "Call", "Run"}
INVARIANTS
    TypeOK
    WritesFromSuccessfulTxs
    InitNotCharged
PROPERTIES
    SettledIsFinal
    EveryTxSettles
