SPECIFICATION FairSpec
CONSTANTS
    h1 = h1
    h2 = h2
    g1 = g1
    NoGroup = NoGroup
    Hooks = {h1, h2}
    Bindings <- TwoHooks
    Startup <- NoStartup
    Threshold = 2
    MaxEvents = 4
    MaxQueue = 2
CHECK_DEADLOCK FALSE
INVARIANT NoContextLost
INVARIANT HandedOverInOrder
PROPERTY EventuallyHandedOver
