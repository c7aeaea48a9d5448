SPECIFICATION FairSpec
CONSTANTS
    t1 = t1
    t2 = t2
    NoThread = NoThread
    Threads <- MCThreads
    MaxConnections = 2
    Length = 2
    MaxConnects = 2
    MaxSends = 2
    HeaderRange = 16
    CallsMayFail = TRUE
INVARIANT StreamIntact
INVARIANT TableExact
PROPERTY MessageCompletes
CHECK_DEADLOCK FALSE
