CONSTANTS
    HookPaths <- mcPaths
    Documents <- mcDocuments
    SafeURLString <- safe
    Requests = {1}
    SubmitRetries = 1
    MaxFaults = 2
    MaxDeploys = 1
    MaxReviews = 1
SPECIFICATION FairSpec
INVARIANTS SnapshotsExist RegistrantAnswers FailClosed
PROPERTY RegistrationConverges
CHECK_DEADLOCK FALSE
