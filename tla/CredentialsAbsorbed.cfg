SPECIFICATION Spec
CONSTANTS
    Threads = {t1}
    TTL = 3
    Jitter = 1
    MinRefresh = 2
    PromotedAtOnce = TRUE
    MaxStep = 1
    MaxTime = 4
    MaxRotations = 1
    MaxFaults = 0
INVARIANT RotationAbsorbed
CHECK_DEADLOCK FALSE
