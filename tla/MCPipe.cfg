SPECIFICATION FairSpec
CONSTANTS
    Limit = 5
    Capacity = 2
    Atomic = 1
    MaxRead = 1
    MaxBytes = 3
    MaxOther = 1
    Null = Null
INVARIANTS
    FdsOwned
    Delivered
PROPERTIES
    SendReturns
CHECK_DEADLOCK FALSE
