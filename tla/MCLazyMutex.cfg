SPECIFICATION MutexSpec
CONSTANTS
    Threads = {t1, t2, t3}
    Objects = {o1, o2, o3, o4}
    NoObject = NoObject
    Nobody = Nobody
INVARIANTS
    NoStrayObjects
    UnlocksOwnMutex
PROPERTIES
    LockSpec
SYMMETRY MCSymmetry
