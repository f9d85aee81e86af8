SPECIFICATION Spec
CONSTANTS
    c1 = c1
    c2 = c2
    c3 = c3
    i1 = i1
    i2 = i2
    Consumers = {c1, c2, c3}
    Indexes = {i1}
    IndexOf <- OneIndex
    Factories = {f1, f2, f3}
    NoFactory = NoFactory
    Pinned = {}
CHECK_DEADLOCK FALSE
INVARIANT ConsumersServed
