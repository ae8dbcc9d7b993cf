SPECIFICATION FairSpec
CONSTANTS
    OSLimit = {"low", "high"}
    MaxDepth = 2
    MaxOOB = 2
PROPERTIES
    BusyMutatorHandlesOOB
CHECK_DEADLOCK FALSE
