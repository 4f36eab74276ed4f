CONSTANTS
    Threads <- MCThreads2
    Names = {a, NoName}
    NoName = NoName
    Transport = "zmq"
    MaxJobs = 3
    MaxErrors = 0
    FreshNames = TRUE
SPECIFICATION Spec
CHECK_DEADLOCK FALSE
PROPERTIES
    ConnectReturns
