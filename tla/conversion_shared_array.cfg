CONSTANTS
    Group = "stable"
    BindingChoices <- longBindings
    Within = {}
    Requests = {1}
    Inputs <- longInputs
    MaxReviews = 2
    PatchRetries = 1
SPECIFICATION Spec
INVARIANTS CachedPathsConnect
CHECK_DEADLOCK FALSE
