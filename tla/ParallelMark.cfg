SPECIFICATION FairSpec
CONSTANTS
    Heaps <- PassingHeaps
    MaxTasks = 3
CHECK_DEADLOCK FALSE
INVARIANTS
    TypeOK
    ReachableMarked
    MournedKeysDead
    WeakPropertyKept
    NoUseAfterReturn
PROPERTIES
    DrainedAtBarrier
    MarkingEnds
