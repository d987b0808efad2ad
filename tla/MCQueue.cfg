SPECIFICATION Spec
CONSTANTS
    Threads = {producer, consumer, both1, both2}
    Senders = {producer, both1, both2}
    Receivers = {consumer, both1, both2}
    Messages = {m1, m2}
    NoMessage = NoMessage
    MinGrow = 2
    MaxInFlight = 5
INVARIANTS
    TokensMatch
    AssertsHold
    RoomAhead
    CellsMatch
PROPERTIES
    FifoSpec
SYMMETRY MCSymmetry
