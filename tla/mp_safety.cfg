SPECIFICATION Spec
CONSTANTS
    t1 = t1
    t2 = t2
    NumClasses = 2
    BlockSize <- MCBlockSize
    InitialBlocks <- MCInitialBlocks
    Threads <- TwoThreads
    Sizes = {1, 4, 5}
    AutoResize = TRUE
    MallocMayFail = TRUE
    MaxBlocks = 6
    MaxCalls = 3
    MaxHeld = 2
SYMMETRY Symmetry
INVARIANT SingleOwner
INVARIANT BlockFits
INVARIANT StatsExact
CHECK_DEADLOCK FALSE
