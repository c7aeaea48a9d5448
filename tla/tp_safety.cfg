SPECIFICATION Spec
CONSTANTS
    s1 = s1
    s2 = s2
    i1 = i1
    i2 = i2
    i3 = i3
    NoItem = NoItem
    Submitters <- MCSubmitters
    Items <- MCItems
    Configs <- AllConfigs
    ThreadCount = 2
    MaxThreads = 2
    MaxQueueSize = 1
    AllocMayFail = TRUE
    CreateMayFail = TRUE
SYMMETRY Symmetry
INVARIANT CountersMatch
INVARIANT ExactlyOnce
INVARIANT FifoOrder
INVARIANT NoLostWakeup
CHECK_DEADLOCK FALSE
