SPECIFICATION BagSpec
CONSTANTS
    Els = {e1, e2}
    Null = Null
    MaxEls = 4
INVARIANTS
    IsMultiset
    VisitsEach
    StaysSmall
