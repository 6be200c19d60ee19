SPECIFICATION Spec
CONSTANTS
    c1 = c1
    c2 = c2
    c3 = c3
    c4 = c4
    Chars <- Four
    NoOne = NoOne
    MaxInParty = 3
    MaxParties = 2
    MaxRefusals = 1
SYMMETRY Symmetry
INVARIANTS
    MembersAgree
    NeverAlone
CHECK_DEADLOCK FALSE
