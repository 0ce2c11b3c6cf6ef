SPECIFICATION Spec
CONSTANTS
    Commands <- ExtendedCopy
    MaxCommands = 2
    MaxCopyData = 0
    MaxNotify = 0
    CopyInExtended = TRUE
CHECK_DEADLOCK FALSE
INVARIANT NullIsNotSent
