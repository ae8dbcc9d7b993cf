CONSTANTS
    Worker = {w1, w2, w3}
    Task = {t1, t2, t3}
    MaxPoolSize = 1
    NoTask = NoTask
SPECIFICATION FairSpec
INVARIANTS
    Bookkeeping
    NoStrandedTask
    JoinedOnce
    ShutdownDrained
PROPERTIES
    EveryTaskTaken
    ShutdownReturns
