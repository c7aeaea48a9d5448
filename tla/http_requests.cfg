SPECIFICATION Spec
CONSTANTS
    c1 = c1
    c2 = c2
    None = None
    Clients <- MCClients
    MaxRequests = 2
    MaxSent = 2
    Paths = {"users", "health"}
    Asks <- MCAsks
    BufferSize = 2
    MaxRoutes = 2
    CallsMayFail = TRUE
SYMMETRY ClientSymmetry
INVARIANT PoolExact
INVARIANT AnsweredOnce
INVARIANT RightRoute
CHECK_DEADLOCK FALSE
