\* A pool of three endpoints, two threads calling pool.schedule, one map call
\* over six items, shutdown at any point.
CONSTANTS
    NClients = 3
    Callers = {c1, c2}
    MaxItems = 6
    MaxRoutes = 9
SPECIFICATION Spec
\* shutdown() ends the pool and every call is bounded.
CHECK_DEADLOCK FALSE
INVARIANTS
    TypeOK
