SPECIFICATION Spec
CONSTANTS
    ann = ann
    bob = bob
    cid = cid
    ring = ring
    cup = cup
    chest = chest
    Chars <- JustTwo
    Items <- TwoThings
    Weight <- TheWeights
    MaxCarry <- TheStrength
    Purses <- AnnHasOne
    Fussy <- NoRing
    Sticky <- BobsWindow
    MaxDebt = 0
INVARIANT
    WindowsPaired
PROPERTIES
    OnlyWhatWasSeen
    LostOnlyTooHeavy
CHECK_DEADLOCK FALSE
