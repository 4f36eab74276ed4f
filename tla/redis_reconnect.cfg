CONSTANTS
    Threads <- MCThreads1
    Names = {a, b, NoName}
    NoName = NoName
    Transport = "redis"
    MaxJobs = 3
    MaxErrors = 0
    FreshNames = TRUE
SPECIFICATION Spec
CHECK_DEADLOCK FALSE
INVARIANTS
    NoStrandedPending
