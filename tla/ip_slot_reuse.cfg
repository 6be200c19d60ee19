SPECIFICATION IPSpec
CONSTANTS
    home = home
    away = away
    IPs <- Two
    NoIP = NoIP
    SlotCount = 1
    MaxTries = 3
    MaxRelays = 0
    MaxPings = 3
    ConnectingMaxIP = 1
    ClientMaxIP = 1
    TTL = 1
    PingDecay = 1
    Timeout = 1
INVARIANTS IPTypeOK RefusedWhenFull
CHECK_DEADLOCK FALSE
