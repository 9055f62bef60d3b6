SPECIFICATION Spec
CONSTANTS
    Txs = {t1}
    Sims = {}
    Queries = {q1}
    Pkgs = {p}
    GenesisPkgs = {}
    NoReq = NoReq
    NoPkg = NoPkg
    Overlap = FALSE
    Historical = TRUE
    MayPanic = {}
INVARIANTS
    MemoryComplete
