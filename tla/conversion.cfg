CONSTANTS
    Group = "stable"
    BindingChoices <- smallBindings
    Within = {}
    Requests = {1, 2}
    Inputs <- smallInputs
    MaxReviews = 2
    PatchRetries = 1
SPECIFICATION FairSpec
INVARIANTS SearchIsComplete FaithfulHooksConvert
PROPERTIES ReviewsAnswered
CHECK_DEADLOCK FALSE
