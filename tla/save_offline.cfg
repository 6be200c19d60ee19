SPECIFICATION Spec
CONSTANTS
    player = player
    item = item
    later = later
    Chars <- Player
    Players <- Player
    Items <- TheItems
    StartUid <- TheStart
    SectorsQty = 2
    Uids = {1, 2}
    Free = Free
    Held = Held
    NoUid = NoUid
    Settings <- JustInTicks
    MaxSaves = 1
INVARIANT
    NobodyMissed
CHECK_DEADLOCK FALSE
