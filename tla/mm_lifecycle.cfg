SPECIFICATION Spec
CONSTANTS
    logger = logger
    threadpool = threadpool
    database = database
    database2 = database2
    Modules <- MCModules
    Names <- MCNames
    NameOf <- MCNameOf
    DependsOn <- MCDependsOn
    InitialCapacity = 1
    InitMayFail <- Everybody
    StartMayFail <- Everybody
    StopMayFail <- Everybody
    ReallocMayFail = TRUE
INVARIANT OrderSuffices
INVARIANT ShutdownComplete
INVARIANT QuietBeforeCleanup
INVARIANT DependenciesFirst
CHECK_DEADLOCK FALSE
