SPECIFICATION NetFairSpec
CONSTANTS
    h1 = h1
    h2 = h2
    r1 = r1
    r2 = r2
    Handles <- MCHandles
    Tasks <- TwoRequests
    InitialCapacity = 1
    WorkerCount = 1
    MaxQueueSize = 1
    Modes = {TRUE, FALSE}
    MaxConns = 3
    ClientsMayLeave = TRUE
    NetCallsMayFail = TRUE
INVARIANT ClientTable
PROPERTY RequestAnswered
PROPERTY LoopUnblocks
PROPERTY ShutdownEnds
CHECK_DEADLOCK FALSE
