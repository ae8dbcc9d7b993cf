SPECIFICATION FairSpec
CONSTANTS
    OSLimit = {"low", "high"}
    MaxDepth = 2
    MaxOOB = 2
INVARIANTS
    VMWorkSignalled
    LimitInForce
PROPERTIES
    SafepointReached
    OOBHandled
CHECK_DEADLOCK FALSE
