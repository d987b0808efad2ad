SPECIFICATION FairSpec
CONSTANTS
    TestsLen <- MCTestsLen
    Unknown <- MCUnknown
    DepLists <- MCDepLists
INVARIANTS
    OnceInOrder
    BufferFits
    LoopIsReal
    SkippedForCause
PROPERTIES
    RunEnds
CHECK_DEADLOCK FALSE
