CONSTANTS
    Group = "stable"
    BindingChoices <- smallBindings
    Within = {}
    Requests = {1}
    Inputs <- smallInputs
    MaxReviews = 2
    PatchRetries = 1
SPECIFICATION Spec
INVARIANTS ObjectsAreCounted
CHECK_DEADLOCK FALSE
