SPECIFICATION FairSpec
CONSTANTS
    Turns = {t1, t2}
    Recordings = {r1}
    None = None
    Silence = Silence
    Shown <- Once
    TTL = 2
    MaxWait = 1
    MaxBack = 1
INVARIANTS NarratorInv TranscriptOfOneSession ExchangesShown NeverSilentlySkipped
PROPERTIES StatusSettles
CHECK_DEADLOCK FALSE
