SPECIFICATION Spec
CONSTANTS
    kInitialCapacity = 4
    MaxCapacity = 8
    States = {"live", "inactive"}
    NoData = NoData
    NoPorts = NoPorts
    Handlers = {main, native}
    NativeHandlers = {native}
    PortIds <- FourPorts
INVARIANTS
    TypeOK
    PortsFindable
    SetsAgree
PROPERTIES
    ImplementsRegistry
CHECK_DEADLOCK FALSE
