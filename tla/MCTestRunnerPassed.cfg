SPECIFICATION Spec
CONSTANTS
    TestsLen <- MCTestsLen
    Unknown <- MCUnknown
    DepLists <- MCDepLists
INVARIANTS
    PassedIsProved
CHECK_DEADLOCK FALSE
