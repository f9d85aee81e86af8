CONSTANTS
    Group = "stable"
    BindingChoices <- smallBindings
    Within = {}
    Requests = {1, 2}
    Inputs <- smallInputs
    MaxReviews = 2
    PatchRetries = 1
SPECIFICATION Spec
INVARIANTS SearchIsCompleteAlways
CHECK_DEADLOCK FALSE
