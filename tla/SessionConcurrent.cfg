SPECIFICATION Spec
CONSTANTS
    Sessions = {s1}
    Turns = {r1, r2, r3}
    Cleaners = {c1, c2}
    TTL = 3
    BatchSize = 1
    MaxTurn = 1
    MaxTime = 4
    MaxFaults = 1
    SerialClients = FALSE
INVARIANT IInv NoStaleContext NoOrphanedThread RepliesFollowQuestions
PROPERTY OnlyIdleThreadsErased
SYMMETRY Symmetry
CHECK_DEADLOCK FALSE
