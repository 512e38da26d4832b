SPECIFICATION FairSpec
CONSTANTS
    MaxVersion = 2
    MaxTexts = 3
    MaxDisk = 1
    MaxPasses = 3
    None = None
INVARIANTS TypeOK QuietIsCurrent
PROPERTIES EveryTextShown
CHECK_DEADLOCK FALSE
