SPECIFICATION Spec
CONSTANTS
    Handlers = {"isolate", "native"}
    Threads = {t1, t2}
    NoThread = NoThread
    ControlKinds <- PutOffKinds
    Kinds = {"event", "pause", "resume", "kill", "kill_before", "kill_as_event",
             "service_resume", "service_pause_on_exit"}
    MayPause = TRUE
    MaxPosts = 3
    MaxPorts = 1
    MaxWaits = 1
SYMMETRY ThreadSymmetry
INVARIANTS
    TypeOK
    OneTask
    NoMissedOOBMessage
    NoStrandedMessage
    EventsInOrder
    DeletedOnce
PROPERTIES
    NoEarlyExit
CHECK_DEADLOCK FALSE
