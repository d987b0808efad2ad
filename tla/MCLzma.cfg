SPECIFICATION FairSpec
CONSTANTS
    ByteVals = 4
    Top = 16
    ProbOne = 8
    MoveDiv = 4
    SlotBits = 4
    DictSz = 3
    Bytes = {0, 1}
    Lens = {0, 1, 2}
    Dists = {0, 1, 2, 3, 4, 255}
    MaxDst = 8
INVARIANTS
    WindowIsHistory
    Expansion
    StateMeansHistory
    RangeDecSound
    StreamIsClear
PROPERTIES
    DecEnds
CHECK_DEADLOCK FALSE
