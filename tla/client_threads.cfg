\* Two caller threads sharing a ZMQTasqClient: connect, drain, schedule and
\* schedule_blocking of one thread interleave with every call of the other.
CONSTANTS
    Threads <- MCThreads2
    Names = {a, b, NoName}
    NoName = NoName
    Transport = "zmq"
    MaxJobs = 3
    MaxErrors = 0
    FreshNames = TRUE
SPECIFICATION Spec
SYMMETRY NameSymmetry
\* close() ends the client: nothing is enabled afterwards.
CHECK_DEADLOCK FALSE
INVARIANTS
    FutureIntegrity
    GathererSurvives
