SPECIFICATION TestSpec
CONSTANTS
    Threads = {t1, t2, t3}
    Senders = {t1, t2, t3}
    Receivers = {t1, t2, t3}
    Messages = {Pineapple, Cherry}
    Pineapple = Pineapple
    Cherry = Cherry
    NoMessage = NoMessage
    MinGrow = 2
    MaxInFlight = 100
    Preload = 1
    Rounds = 1
INVARIANTS
    NothingLeft
PROPERTIES
    TestEnds
