SPECIFICATION Spec
CONSTANTS
    Txs = {t1}
    Sims = {}
    Queries = {}
    Pkgs = {p}
    GenesisPkgs = {}
    NoReq = NoReq
    NoPkg = NoPkg
    Overlap = FALSE
    Historical = FALSE
    MayPanic = {"AddPackage"}
INVARIANTS
    PanicNeverApplied
