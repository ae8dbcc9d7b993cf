SPECIFICATION Spec
CONSTANTS
    Handlers = {"isolate"}
    Threads = {t1, t2}
    NoThread = NoThread
    ControlKinds <- PutOffKinds
    Kinds = {"event", "kill", "service_resume"}
    MayPause = TRUE
    MaxPosts = 3
    MaxPorts = 1
    MaxWaits = 0
SYMMETRY ThreadSymmetry
PROPERTIES
    ErrorEndsEvents
CHECK_DEADLOCK FALSE
