SPECIFICATION Spec
CONSTANTS
    h1 = h1
    h2 = h2
    g1 = g1
    NoGroup = NoGroup
    Hooks = {h1}
    Bindings <- MixedBindings
    Startup <- NoStartup
    Threshold = 3
    MaxEvents = 5
    MaxQueue = 3
CHECK_DEADLOCK FALSE
INVARIANT NoContextLost
INVARIANT HandedOverInOrder
