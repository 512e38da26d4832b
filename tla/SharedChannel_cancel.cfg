SPECIFICATION FairSpec
CONSTANTS
    Senders = {s1}
    Receivers = {r1, r2}
    Cancellable = {r1}
    Capacities = {1}
    InitialCapacity = 1
    MaxSends = 1
PROPERTIES
    QueuedIsReceived
CHECK_DEADLOCK FALSE
