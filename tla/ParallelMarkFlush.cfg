SPECIFICATION FairSpec
CONSTANTS
    Heaps <- TwoDead
    MaxTasks = 3
CHECK_DEADLOCK FALSE
INVARIANT WeakPropertyKept
