SPECIFICATION FairSpec
CONSTANTS
    Sessions = {s1, s2}
    Detailed <- NoneOf
    NoSession = NoSession
    MaxWindows = 0
    MaxSegments = 1
    Limit = 1
INVARIANT HeldByActive
PROPERTIES ImplementsMicrophone EveryRecordingEnds
CHECK_DEADLOCK FALSE
