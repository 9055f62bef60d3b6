SPECIFICATION Spec
CONSTANTS
    Realms = {r1, r2}
    Libs = {p}
    RunPath = run
    User = user
    NoPath = none
    NoRealm = panic
    MaxFrames = 5
SYMMETRY RealmSymmetry
INVARIANTS
    TypeOK
    RealmsAreTheCrossings
    OriginCallIsDirect
    OriginBankersAreTheTargets
