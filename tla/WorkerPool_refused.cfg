CONSTANTS
    s1 = s1
    s2 = s2
    s3 = s3
    j1 = j1
    j2 = j2
    j3 = j3
    Sessions = {s1, s2, s3}
    Jobs = {j1, j2, j3}
    Threads = {t1, t2, t3}
    On <- OnThree
    OneShot = {s1, s2, s3}
    Keeps = {}
    Waits <- FirstWaits
    Spins <- SecondSpins
    Shut = {}
    Ended = {}
    Limit = 1
    IdleMax = 1
    MaxRefusals = 1
    None = None
SPECIFICATION FairSpec
PROPERTIES QueueDrains
CHECK_DEADLOCK FALSE
