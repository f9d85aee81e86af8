SPECIFICATION FairSpec
CONSTANTS
    h1 = h1
    h2 = h2
    g1 = g1
    NoGroup = NoGroup
    Hooks = {h1}
    Bindings <- SyncBindings
    Startup <- StartupOne
    Threshold = 6
    MaxEvents = 3
    MaxQueue = 3
CHECK_DEADLOCK FALSE
INVARIANT SynchronizedIsUnlocked
