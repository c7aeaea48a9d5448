SPECIFICATION Spec
CONSTANTS
    c1 = c1
    c2 = c2
    c3 = c3
    Callers <- MCCallers
    NoCaller = NoCaller
    MaxThreads = 2
    MaxQueueSize = 2
    QueueSizes = {1}
    Priorities = {1, 2}
    MaxRegistrations = 2
    MaxSends = 2
    AllocMayFail = TRUE
SYMMETRY CallerSymmetry
INVARIANTS
    PriorityOrder
    NoneLostOrDoubled
    ReceiverAwake
    DeliveredToAddressee
CHECK_DEADLOCK FALSE
