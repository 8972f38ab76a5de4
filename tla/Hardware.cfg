SPECIFICATION HardwareSpec
CONSTANTS
    Idents <- MCIdents
    PlainWords <- MCPlainWords
    LiteralInt <- MCLiteralInt
    Numbers <- MCNumbers
    AsF64 <- MCAsF64
    MaxInt = 1000
    Raws <- MCRaws
    Values <- MCValues
    Bytes = {7}
    MaxReads = 1
    MaxCalls = 2
    Boards <- MCBoards
    ChipSets <- MCChipSets
    Carries <- MCCarries
    None = None
    MaxId = 5
    MaxLines = 3
INVARIANTS
    OnlyVettedValues
    LoadedCallsReach
    SetLevelLasts
    OwnReply
PROPERTIES
    HangIsContained
CHECK_DEADLOCK FALSE
