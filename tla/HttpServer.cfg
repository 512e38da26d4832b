SPECIFICATION Spec
CONSTANTS
    MaxRequests = 2
    MaxConnections = 2
    QueueRoom = 1
    Limits = {0, 1}
    None = None
INVARIANTS TypeOK NoOrphan ResponseWins DoneIsQuiet NothingStuck
CHECK_DEADLOCK FALSE
