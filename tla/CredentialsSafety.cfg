SPECIFICATION FairSpec
CONSTANTS
    Threads = {t1, t2}
    TTL = 3
    Jitter = 0
    MinRefresh = 2
    PromotedAtOnce = FALSE
    MaxStep = 1
    MaxTime = 5
    MaxRotations = 2
    MaxFaults = 1
INVARIANT CredentialInv StaleOnlyForALifetime
PROPERTY FetchesSpaced RejectedOnlyInRecovery EveryConnectEnds
CHECK_DEADLOCK FALSE
