SPECIFICATION TablesSpec
CONSTANTS
    tblItems <- SmallItems
    Null = Null
    Blank = "blank"
    Nil = Nil
    MacRoman <- ShownAs
    Literal <- StandsFor
    testItemExtras = 1
    Tables = {t1}
    Quick = Quick
    StackBound = 3
SYMMETRY TableSymmetry
INVARIANTS
    MenuReadAsShown
    ItemsAreOfTheirNames
