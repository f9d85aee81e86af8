CONSTANTS
    MaxTasks = 3
    MaxBatch = 2
    Elements = {e1, e2, e3}
    Root = root
    Callers = {worker, events}
SPECIFICATION Spec
INVARIANT IndexAgrees
PROPERTY ImplementsSequence
CHECK_DEADLOCK FALSE
