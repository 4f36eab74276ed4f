CONSTANTS
    NClients = 3
    Callers = {c1, c2}
    MaxItems = 3
    MaxRoutes = 4
SPECIFICATION Spec
CHECK_DEADLOCK FALSE
INVARIANTS
    MapRoundRobin
