SPECIFICATION Spec
CONSTANTS
    Senders = {s1}
    Receivers = {r1, r2}
    Cancellable = {s1, r1, r2}
    Capacities = {0, 1}
    InitialCapacity = 2
    MaxSends = 4
SYMMETRY Symmetric
INVARIANTS
    TypeOK
    EofIsFinal
    SleepersRegistered
PROPERTIES
    ImplementsFifo
CHECK_DEADLOCK FALSE
