CONSTANTS
    None = None
    Threads = {a, b, c, d}
SPECIFICATION FairSpec
INVARIANTS
    TypeOK
    GuardIsExclusive
    NoSelfDeadlock
    NoLostWakeup
PROPERTIES
    FreeWriterIsTaken
