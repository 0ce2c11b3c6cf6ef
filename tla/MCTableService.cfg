SPECIFICATION TablesSpec
CONSTANTS
    tblItems <- FlatItems
    Null = Null
    Blank = "blank"
    Nil = Nil
    MacRoman <- ShownAs
    Literal <- StandsFor
    testItemExtras = 1
    Tables = {t1, t2}
    Quick = Quick
    StackBound = 2
SYMMETRY TableSymmetry
INVARIANTS
    TablesTypeOK
    FreeOrOccupied
    TableKeepsItsOrder
