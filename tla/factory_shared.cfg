SPECIFICATION FairSpec
CONSTANTS
    c1 = c1
    c2 = c2
    c3 = c3
    i1 = i1
    i2 = i2
    Consumers = {c1, c2, c3}
    Indexes = {i1, i2}
    IndexOf <- TwoIndexes
    Factories = {f1, f2, f3}
    NoFactory = NoFactory
    Pinned = {c1}
CHECK_DEADLOCK FALSE
INVARIANT SharedConsumersServed
PROPERTY StopCompletes
PROPERTY ShutdownEndsInformers
