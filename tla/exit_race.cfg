\* Two caller threads on a ZMQTasqClient with fresh names: one leaves a
\* with-block while the other schedules.
CONSTANTS
    Threads <- MCThreads2
    Names = {a, b}
    NoName = NoName
    Transport = "zmq"
    MaxJobs = 2
    MaxErrors = 0
    FreshNames = TRUE
SPECIFICATION Spec
\* close() ends the client: nothing is enabled afterwards.
CHECK_DEADLOCK FALSE
PROPERTIES
    ExitReleases
