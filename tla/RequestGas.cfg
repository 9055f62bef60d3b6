SPECIFICATION Spec
CONSTANTS
    Packages = {"gno.land/r/counter", "gno.land/r/other"}
    Unknown = "gno.land/r/unknown"
    Exprs = {"cheap", "dear", "bad"}
    Panicking = {"bad"}
    Load <- MCLoad
    Need <- MCNeed
    RenderNeed = 2
    Cost <- MCCost
    AnteCost = 1
    BuildCost = 3
    VMCap = 6
    Word = 16
    Limits = {0, 2, 3, 4, 5}
    MaxGases = {0, 1, 2, 3, 5, 6, 7, 8, 15}
    Forms <- MCForms
    MaxMsgs = 2
INVARIANTS
    TypeOK
    WithinOwnLimit
    OneSortRuns
    EstimateSuffices
    AnswersWhatWasAsked
    EvalIsPaidFor
