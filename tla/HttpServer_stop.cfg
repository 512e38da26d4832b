SPECIFICATION FairSpec
CONSTANTS
    MaxRequests = 1
    MaxConnections = 1
    QueueRoom = 1
    Limits = {0}
    None = None
PROPERTY StopsOnlyOnRequest
CHECK_DEADLOCK FALSE
