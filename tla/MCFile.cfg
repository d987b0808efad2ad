SPECIFICATION FairSpec
CONSTANTS
    Null = Null
    Objs = {f, g}
    Limit = 2
    Old = Old
    Gap = Gap
    Fresh = Fresh
    All = All
    Chunk = 1
    MaxLen = 3
    MaxOther = 1
    TextLen = 5
    ExtLen = 3
    Word = 128
    Nano = 4
    Clunk = 8
    Sec = 16
    Day = 32
    UnixEpoch = 5
    WinEpoch = 2
INVARIANTS
    FilesOwned
    IntervalsExact
    StampsSurvive
    PathsSurvive
PROPERTIES
    ReadSees
    WritesLand
    CallReturns
CHECK_DEADLOCK FALSE
