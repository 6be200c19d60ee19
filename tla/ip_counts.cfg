SPECIFICATION IPFairSpec
CONSTANTS
    home = home
    away = away
    IPs <- Two
    NoIP = NoIP
    SlotCount = 2
    MaxTries = 3
    MaxRelays = 1
    MaxPings = 1
    ConnectingMaxIP = 1
    ClientMaxIP = 1
    TTL = 0
    PingDecay = 0
    Timeout = 0
PROPERTIES CountsKept AddressForgotten
CHECK_DEADLOCK FALSE
