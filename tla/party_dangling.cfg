SPECIFICATION Spec
CONSTANTS
    c1 = c1
    c2 = c2
    c3 = c3
    c4 = c4
    Chars <- Three
    NoOne = NoOne
    MaxInParty = 3
    MaxParties = 1
    MaxRefusals = 0
INVARIANTS
    TypeOK
    NoDangling
CHECK_DEADLOCK FALSE
