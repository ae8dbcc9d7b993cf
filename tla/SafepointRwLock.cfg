SPECIFICATION FairSpec
CONSTANTS
    Thread = {a1, a2, d1}
    Detached = {d1}
    NoThread = NoThread
    MaxNest = 2
INVARIANTS
    LockAgrees
    NoLostWakeup
PROPERTIES
    OperationEnds
    LockAdmits
