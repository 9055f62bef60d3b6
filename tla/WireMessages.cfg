SPECIFICATION Spec
CONSTANTS
    Word = 15
    FieldWord = 8
    NumberOf <- MCNumberOf
    Kinds <- MCKinds
    Texts <- MCTexts
    Uints <- MCUints
    Bytes <- MCBytes
    MaxFields = 2
    MaxOdd = 1
    MaxJunk = 3
    JunkWithin = 3
INVARIANTS
    ReadsInside
    AcceptedIsRewritable
    DecodesAsMeant
    CutIsNoticed
    EqualIsSameBytes
CHECK_DEADLOCK FALSE
