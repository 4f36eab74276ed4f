CONSTANTS
    Threads <- MCThreads1
    Names = {a, b, NoName}
    NoName = NoName
    Transport = "zmq"
    MaxJobs = 3
    MaxErrors = 1
    FreshNames = TRUE
SPECIFICATION Spec
CHECK_DEADLOCK FALSE
INVARIANTS
    GathererSurvives
