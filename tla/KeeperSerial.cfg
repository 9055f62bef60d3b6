SPECIFICATION Spec
CONSTANTS
    Txs = {t1, t2}
    Sims = {s1}
    Queries = {q1}
    Pkgs = {p}
    GenesisPkgs = {}
    NoReq = NoReq
    NoPkg = NoPkg
    Overlap = FALSE
    Historical = FALSE
    MayPanic = {"Call", "Run"}
SYMMETRY TxSymmetry
INVARIANTS
    QueriesLeaveNoTrace
    ParamsInSync
    OwnMeterOnly
    MemoryComplete
    PanicNeverApplied
PROPERTIES
    ImplementsAtomicMessages
