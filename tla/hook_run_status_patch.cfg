CONSTANTS
    Workers = {w1, w2}
    Pids = {1, 2}
    Outputs <- mcOutputs
    Objects = {"o"}
    ConflictSteps = 2
    MaxRuns = 2
    MaxFaults = 1
    MaxWrites = 2
SPECIFICATION Spec
PROPERTY StatusPatchedOnError
CHECK_DEADLOCK FALSE
