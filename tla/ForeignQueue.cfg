SPECIFICATION FairSpec
CONSTANTS
    Frames = {f1, f2}
    Completers = {c1}
    NoFrame = NoFrame
INVARIANTS
    TypeOK
    FrameOwnership
    CreditsKeepLoop
    NoLostWake
    ResultMatchesStatus
PROPERTIES
    SettlesOnce
    AwaiterResumes
    RunLoopReturns
