SPECIFICATION FairSpec
CONSTANTS
    W = 8
    B = 2
    Words = 2
    Widths = {4, 8}
    Values <- MCValues
    Texts <- MCTexts
    Lists <- MCLists
    Contents <- MCContents
    MaxLen = 3
    MaxOps = 5
INVARIANTS
    TypeOK
    WrittenKept
    NothingBehind
PROPERTIES
    PositionRight
    ReadsRight
    StringRead
    StringEnds
CHECK_DEADLOCK FALSE
