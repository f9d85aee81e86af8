SPECIFICATION Spec
CONSTANTS
    h1 = h1
    h2 = h2
    g1 = g1
    NoGroup = NoGroup
    Hooks = {h1}
    Bindings <- AllowMixed
    Startup <- NoStartup
    Threshold = 2
    MaxEvents = 3
    MaxQueue = 2
CHECK_DEADLOCK FALSE
INVARIANT NoContextLost
