SPECIFICATION Spec
CONSTANTS
    tblItems <- MixedItems
    Null = Null
    Blank = "blank"
    Nil = Nil
    MacRoman <- ShownAs
    Literal <- StandsFor
    testItemExtras = 1
INVARIANTS
    TypeOK
    MenuFollowsPath
PROPERTIES
    OrderedIsTapped
    TapsFailForCause
