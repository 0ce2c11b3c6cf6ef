SPECIFICATION Spec
CONSTANTS
    MaxRows = 8
    Nil = Nil
INVARIANTS
    LoopReadsEveryRow
    NotEofHasRecord
