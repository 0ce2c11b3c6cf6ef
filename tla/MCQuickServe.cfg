SPECIFICATION Spec
CONSTANTS
    soup = soup
    tea = tea
    large = large
    egg = egg
    iced = iced
    Blank = Blank
    Nil = Nil
    ItemIds <- MCItemIds
    ModNames <- MCModNames
    lunchPrice <- MCLunchPrice
    taxed <- MCTaxed
    taxRate <- MCTaxRate
    TaxTypes <- MCTaxTypes
    taxType <- MCTaxType
    hotness <- NoNames
    options <- MCOptions
    tblQuantity <- MCQuantity
    tblExtras <- MCExtras
    testItemExtras = 1
    StepperMax = 3
    QtyBound = 4
INVARIANTS
    TypeOK
    OrderConsistent
    BillShownIsCurrent
    TaxNamesShown
    OneStringPerChoice
    SwitchesMatchOrder
PROPERTY ImplementsOrderBook
