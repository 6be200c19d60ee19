SPECIFICATION FairSpec
CONSTANTS
    player = player
    item = item
    later = later
    Chars <- Player
    Players <- Player
    Items <- TheItems
    StartUid <- TheStart
    SectorsQty = 2
    Uids = {1, 2}
    Free = Free
    Held = Held
    NoUid = NoUid
    Settings <- BothWays
    MaxSaves = 4
INVARIANTS
    SavedOnce
    CharsOnce
    UidsOfOne
PROPERTY
    EverySaveEnds
CHECK_DEADLOCK FALSE
