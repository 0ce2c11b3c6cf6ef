SPECIFICATION Spec
CONSTANTS
    Commands <- EveryCycle
    MaxCommands = 2
    MaxCopyData = 1
    MaxNotify = 2
    CopyInExtended = FALSE
CHECK_DEADLOCK FALSE
INVARIANTS TypeOK AnswerIsOwn ErrorMessageAgrees NotifiedInOrder InSync
PROPERTY KeepsPromise
