CONSTANTS
    Thread = {m1, m2, h1}
    Mutator = {m1, m2}
    NoThread = NoThread
    MaxOperationCount = 2
SPECIFICATION Spec
SYMMETRY Symmetry
INVARIANTS
    WorldStopped
    ParkedCount
    OwnerConsistent
    NoLostWakeup
PROPERTY StopsTheWorld
