CONSTANTS
    Group = "stable"
    BindingChoices <- betaBindings
    Within <- betaNames
    Requests = {1}
    Inputs <- betaInputs
    MaxReviews = 2
    PatchRetries = 1
SPECIFICATION Spec
INVARIANTS CachedPathsConnect
CHECK_DEADLOCK FALSE
