SPECIFICATION FairSpec
CONSTANTS
    Handlers = {"isolate", "native"}
    Threads = {t1, t2}
    NoThread = NoThread
    ControlKinds <- PutOffKinds
    Kinds = {"event", "kill", "internal_kill"}
    MayPause = TRUE
    MaxPosts = 3
    MaxPorts = 1
    MaxWaits = 1
PROPERTIES
    KillObeyed
    NativeDeleted
CHECK_DEADLOCK FALSE
