SPECIFICATION FairSpec
CONSTANTS
    Sessions = {s1}
    Detailed <- AllOf
    NoSession = NoSession
    MaxWindows = 3
    MaxSegments = 0
    Limit = 2
INVARIANTS HandlerInv HeardInOrder DoneIsWhole AllSoundTranscribed
PROPERTY LeavingFreesServer
CHECK_DEADLOCK FALSE
