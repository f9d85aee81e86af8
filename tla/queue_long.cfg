SPECIFICATION FairSpec
CONSTANTS
    h1 = h1
    h2 = h2
    g1 = g1
    NoGroup = NoGroup
    Hooks = {h1}
    Bindings <- AllMixed
    Startup <- StartupOne
    Threshold = 2
    MaxEvents = 2
    MaxQueue = 3
CHECK_DEADLOCK FALSE
INVARIANT ProcessingFlagReleased
PROPERTY LossNeedsDisturbance
PROPERTY StopReachesStatus
