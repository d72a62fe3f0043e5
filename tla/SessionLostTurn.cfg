SPECIFICATION Spec
CONSTANTS
    Sessions = {s1}
    Turns = {r1, r2}
    Cleaners = {c1}
    TTL = 3
    BatchSize = 1
    MaxTurn = 1
    MaxTime = 4
    MaxFaults = 0
    SerialClients = FALSE
INVARIANT ExchangesKept
CHECK_DEADLOCK FALSE
