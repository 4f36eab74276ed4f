\* One started actor, two senders, close called twice, two joiners; the
\* actor's thread is weakly fair.  Beside it a Result set twice (the
\* second call overwrites) and read by two readers.
CONSTANTS
    Senders = {s1, s2}
    Waiters = {w1, w2}
    ActorExit = ActorExit
    MaxSends = 2
    MaxCloses = 2
    MaxStarts = 1
    Readers = {r1, r2}
    MaxSets = 2
SPECIFICATION Spec
\* Every sender, close and start is bounded: the run ends when all are used.
CHECK_DEADLOCK FALSE
INVARIANTS
    TypeOK
    PerSenderFifo
    HandledBeforeExit
    ResultReadSeesSet
PROPERTIES
    ClosedTerminates
