SPECIFICATION FairSpec
CONSTANTS
    Sessions = {s1, s2}
    Turns = {r1, r2}
    Cleaners = {c1, c2}
    TTL = 3
    BatchSize = 1
    MaxTurn = 1
    MaxTime = 5
    MaxFaults = 1
    SerialClients = TRUE
PROPERTY ImplementsConversation
PROPERTY ExpiredIsSwept
PROPERTY EveryTurnEnds
CHECK_DEADLOCK FALSE
