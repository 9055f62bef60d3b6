SPECIFICATION Spec
CONSTANTS
    Domains = {d1, d2, bad}
    BadDomain = bad
    Valid <- MCValid
    RealmValues = {r}
    Malformed = malformed
    Addresses = {zero, a1}
    OtherBytes = {long}
    ZeroAddress = zero
    Unset = Unset
    Stdlibs = {std}
    Pkgs = {p}
INVARIANTS
    CopiesAgree
