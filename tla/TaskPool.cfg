CONSTANTS
    Jobs = {j1, j2, j3}
    Closers = {c1, c2}
    Size = 1
    MaxCrashes = 1
SPECIFICATION FairSpec
INVARIANTS TypeOK SlotsBoundLoad SessionsKept CloseNotStranded CrashReported
PROPERTIES EveryCallReturns
