SPECIFICATION SemSpec
CONSTANTS
    Threads = {producer, consumer, both}
    Signallers = {producer, both}
    Waiters = {consumer, both}
    Objects = {o1, o2, o3}
    NoObject = NoObject
    MaxCount = 2
INVARIANTS
    TokensConserved
PROPERTIES
    SemSteps
SYMMETRY MCSymmetry
