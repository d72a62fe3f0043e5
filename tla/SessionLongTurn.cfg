SPECIFICATION Spec
CONSTANTS
    Sessions = {s1}
    Turns = {r1, r2}
    Cleaners = {c1}
    TTL = 2
    BatchSize = 1
    MaxTurn = 3
    MaxTime = 4
    MaxFaults = 0
    SerialClients = FALSE
INVARIANT ReuseStartsAnew
CHECK_DEADLOCK FALSE
