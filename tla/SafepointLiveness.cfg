CONSTANTS
    Thread = {m1, m2}
    Mutator = {m1, m2}
    NoThread = NoThread
    MaxOperationCount = 2
SPECIFICATION FairSpec
PROPERTY OperationRuns
