SPECIFICATION FairSpec
CONSTANTS
    s1 = s1
    s2 = s2
    i1 = i1
    i2 = i2
    i3 = i3
    NoItem = NoItem
    Submitters <- MCSubmitters
    Items <- MCItems
    Configs <- QueueConfigs
    ThreadCount = 2
    MaxThreads = 2
    MaxQueueSize = 1
    AllocMayFail = FALSE
    CreateMayFail = FALSE
INVARIANT SubmitterHasWaker
INVARIANT WorkersGoneBeforeFree
PROPERTY ImplementsTaskPool
PROPERTY AcceptedRuns
PROPERTY StopCompletes
PROPERTY BlockedSubmitProceeds
CHECK_DEADLOCK FALSE
