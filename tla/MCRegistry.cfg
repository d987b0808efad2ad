SPECIFICATION FairSpec
CONSTANTS
    Main = Main
    Workers = {w1, w2, w3}
    Spawners = {Main, w1, w2}
    ProbeSees = {TRUE, FALSE}
    Null = Null
INVARIANTS
    HandlesMatch
PROPERTIES
    WaitLeavesNone
    ReadyJoined
    WaitReturnsOrWedges
CHECK_DEADLOCK FALSE
