CONSTANTS
    s1 = s1
    s2 = s2
    s3 = s3
    j1 = j1
    j2 = j2
    j3 = j3
    Sessions = {s1, s2}
    Jobs = {j1, j2, j3}
    Threads = {t1, t2, t3}
    On <- OnLast
    OneShot = {s1}
    Keeps = {}
    Waits <- FirstWaits
    Spins <- FirstSpins
    Shut = {}
    Ended = {}
    Limit = 1
    IdleMax = 1
    MaxRefusals = 1
    None = None
SPECIFICATION FairSpec
INVARIANTS PoolAccounting
PROPERTIES AllAnswered
CHECK_DEADLOCK FALSE
