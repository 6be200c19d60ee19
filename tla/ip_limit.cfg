SPECIFICATION IPSpec
CONSTANTS
    home = home
    away = away
    IPs <- Two
    NoIP = NoIP
    SlotCount = 3
    MaxTries = 3
    MaxRelays = 0
    MaxPings = 2
    ConnectingMaxIP = 1
    ClientMaxIP = 1
    TTL = 1
    PingDecay = 1
    Timeout = 1
INVARIANTS IPTypeOK AtMostClientMaxIP
CHECK_DEADLOCK FALSE
