SPECIFICATION FairSpec
CONSTANTS
    p1 = p1
    p2 = p2
    Producers <- OneProducer
    MaxMessages = 1
    QueueSizes = {1}
    AsyncModes = {TRUE}
    CallsMayFail = FALSE
PROPERTY StopReturns
CHECK_DEADLOCK FALSE
