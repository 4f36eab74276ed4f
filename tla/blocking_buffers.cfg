CONSTANTS
    Threads <- MCThreads2
    Names = {a, b, NoName}
    NoName = NoName
    Transport = "zmq"
    MaxJobs = 3
    MaxErrors = 0
    FreshNames = TRUE
SPECIFICATION Spec
CHECK_DEADLOCK FALSE
INVARIANTS
    BlockingNeverBuffers
