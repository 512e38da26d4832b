CONSTANTS
    s1 = s1
    s2 = s2
    s3 = s3
    j1 = j1
    j2 = j2
    j3 = j3
    Sessions = {s1, s2}
    Jobs = {j1, j2, j3}
    Threads = {t1, t2, t3}
    On <- OnTwo
    OneShot = {s2}
    Keeps = {s1}
    Waits <- NoDeps
    Spins <- NoDeps
    Shut = {s1}
    Ended = {s1}
    Limit = 1
    IdleMax = 1
    MaxRefusals = 0
    None = None
SPECIFICATION Spec
INVARIANTS TypeOK BoundOnce SessionRefs WorkConserving FutureConserved TerminatedIsUnserved
