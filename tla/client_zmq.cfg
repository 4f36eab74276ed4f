\* One caller thread on a ZMQTasqClient, every job named, names used once, no
\* transient errors; the gathering thread and the drain loop are weakly fair.
CONSTANTS
    Threads <- MCThreads1
    Names = {a, b, c}
    NoName = NoName
    Transport = "zmq"
    MaxJobs = 3
    MaxErrors = 0
    FreshNames = TRUE
SPECIFICATION Spec
\* close() ends the client: nothing is enabled afterwards.
CHECK_DEADLOCK FALSE
INVARIANTS
    TypeOK
    FifoRelease
    FutureIntegrity
    NoStrandedPending
    GathererSurvives
PROPERTIES
    FuturesResolve
    ConnectReturns
    ExitReturns
    ImplementsClientSpec
