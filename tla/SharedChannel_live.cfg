SPECIFICATION FairSpec
CONSTANTS
    Senders = {s1}
    Receivers = {r1, r2}
    Cancellable = {}
    Capacities = {1, 2}
    InitialCapacity = 1
    MaxSends = 2
PROPERTIES
    QueuedIsReceived
    RoomIsUsed
    ClosureEndsCalls
CHECK_DEADLOCK FALSE
