SPECIFICATION FairSpec
CONSTANTS
    p1 = p1
    p2 = p2
    Producers <- TwoProducers
    MaxMessages = 2
    QueueSizes = {1, 2}
    AsyncModes = {TRUE, FALSE}
    CallsMayFail = TRUE
INVARIANT NoneLostOrDoubled
INVARIANT WorkerAwake
INVARIANT QueueFifo
INVARIANT FlushComplete
PROPERTY QueuedWritten
PROPERTY FlushReturns
CHECK_DEADLOCK FALSE
