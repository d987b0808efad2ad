SPECIFICATION Spec
CONSTANTS
    TestsLen <- MCTestsLen
    Unknown <- MCUnknown
    DepLists <- MCDepLists
INVARIANTS
    ReportIsTrue
CHECK_DEADLOCK FALSE
