SPECIFICATION FairSpec
CONSTANTS
    Commands <- EveryLoop
    MaxCommands = 2
    MaxCopyData = 1
    MaxNotify = 0
    CopyInExtended = FALSE
CHECK_DEADLOCK FALSE
PROPERTY CallReturns
