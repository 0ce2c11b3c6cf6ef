----------------------------- MODULE QuickServe -----------------------------
(***************************************************************************)
(* The ordering screens around one order: QuickServeController.m, the      *)
(* modifiers screen QuickModifierController.m, and the navigation between  *)
(* the home screen, these two and the payment screen.  UIKit runs every    *)
(* handler on the main thread, so a handler is one step; what interleaves  *)
(* is the user's choice of the next touch and the loss of a connection.    *)
(*                                                                         *)
(* Choosing an item from the menu is abstracted to the id that its lookup  *)
(* returned; MenuNavigation.tla models the menu.                           *)
(***************************************************************************)
EXTENDS Orders

CONSTANTS
    StepperMax,  \* STEPPER_MAX_VALUE, 20 in the code
    QtyBound     \* model bound: a tap does not raise a quantity above it

\* Slip: the stepper starts at no item at all.
stepperMinZero == 0

\* STEPPER_MIN_VALUE
StepperMin == 1

ASSUME StepperAssumption ==
    /\ StepperMax \in Nat /\ StepperMax > StepperMin
    /\ QtyBound \in Nat

VARIABLES
    screen,          \* the screen or alert on top of the navigation stack
    homeDB,          \* whether the connection of the home screen's database is up
    selectedItemId,  \* the item Mods applies to, or Nil
    labels,          \* the five money labels, in tenths of a cent
    nameLabels,      \* the two tax name labels
    taxNameChanged,
    modItem,         \* selectedItemId of the modifiers screen
    modCells,        \* the cells its viewDidLoad found to show
    modifiersToReturnToParent,
    switchesOn       \* the cells whose switch is drawn on

viewVars == <<selectedItemId, labels, nameLabels, taxNameChanged>>
modVars == <<modItem, modCells, modifiersToReturnToParent, switchesOn>>
vars == <<orderVars, screen, homeDB, viewVars, modVars>>

Screens == {"home", "quickServe", "alert", "payment", "modifiers", "crashed"}

-----------------------------------------------------------------------------
(* Labels *)

\* NSNumberFormatterDecimalStyle keeps three decimals and rounds half to even:
\* hundredths of a cent become tenths of a cent.
stringFromNumber(number) ==
    LET tenth == number \div 10
        rest  == number % 10
    IN  IF rest > 5 \/ (rest = 5 /\ tenth % 2 = 1) THEN tenth + 1 ELSE tenth

\* The tax is the price less the amount's whole dollars (intValue), and each
\* of the two taxes is that less the other tax on the whole amount.
LabelsOf(tot, pct) ==
    LET tax == tot.price - 100 * intValue(tot.amount)
    IN  [amount |-> stringFromNumber(100 * tot.amount),
         tax    |-> stringFromNumber(tax),
         total  |-> stringFromNumber(tot.price),
         first  |-> stringFromNumber(tax - tot.amount * pct[2]),
         second |-> stringFromNumber(tax - tot.amount * pct[1])]

ZeroLabels == [amount |-> 0, tax |-> 0, total |-> 0, first |-> 0, second |-> 0]

\* The tax names are drawn until one that is not the placeholder was drawn.
\* The order's own call of updateTotals in addToOrder computes the same.
updateTotalOfOrderLabels ==
    /\ updateTotals
    /\ labels' = LabelsOf(totals', taxPercentage')
    /\ IF taxNameChanged
       THEN UNCHANGED <<nameLabels, taxNameChanged>>
       ELSE /\ nameLabels' = taxNames'
            /\ taxNameChanged' = (taxNames'[1] # placeholderNames[1])

-----------------------------------------------------------------------------
(* Opening and leaving the screens *)

ViewInit ==
    /\ selectedItemId = Nil
    /\ labels = ZeroLabels
    /\ nameLabels = placeholderNames
    /\ taxNameChanged = FALSE

ModifiersInit ==
    /\ modItem = Nil
    /\ modCells = {}
    /\ modifiersToReturnToParent = <<>>
    /\ switchesOn = {}

closeModifiers ==
    /\ modItem' = Nil
    /\ modCells' = {}
    /\ modifiersToReturnToParent' = <<>>
    /\ switchesOn' = {}

\* The controllers and the order are gone, when they leave the navigation
\* stack as much as when the app dies.
Discard ==
    /\ newOrder(FALSE)
    /\ totals' = NoTotals
    /\ taxPercentage' = NoPercentage
    /\ selectedItemId' = Nil
    /\ labels' = ZeroLabels
    /\ nameLabels' = placeholderNames
    /\ taxNameChanged' = FALSE
    /\ closeModifiers
    /\ UNCHANGED homeDB

Crash == screen' = "crashed" /\ Discard

GoHome == screen' = "home" /\ Discard

Init ==
    /\ screen = "home"
    /\ homeDB \in BOOLEAN
    /\ OrderInit
    /\ ViewInit
    /\ ModifiersInit

\* The storyboard's onlyQuickServe segue: initWithCoder, viewDidLoad and
\* viewWillAppear of a new controller with a new order, whose own connection
\* may or may not be made (db).  viewDidLoad loads
\* the item properties of item 74; itemExtras then reads a third column of
\* rows that have two, which raises if that query (on a connection of its
\* own, which may fail) has rows.
OpenQuickServe(db) ==
    /\ screen = "home"
    /\ screen' = "quickServe"
    /\ newOrder(db)
    /\ selectedItemId' = Nil
    /\ updateTotalOfOrderLabels
    /\ UNCHANGED <<homeDB, modVars>>

OpenRaises == screen = "home" /\ testItemExtras > 0 /\ Crash

\* clickedConfirm and the four ways out of its alert and of the payment screen.
clickedConfirm ==
    /\ screen = "quickServe"
    /\ screen' = "alert"
    /\ UNCHANGED <<orderVars, homeDB, viewVars, modVars>>

CancelConfirm ==
    /\ screen = "alert"
    /\ screen' = "quickServe"
    /\ UNCHANGED <<orderVars, homeDB, viewVars, modVars>>

PayLater == screen = "alert" /\ GoHome

PayNow ==
    /\ screen = "alert"
    /\ screen' = "payment"
    /\ UNCHANGED <<orderVars, homeDB, viewVars, modVars>>

BackToHome == screen = "quickServe" /\ GoHome

\* Slip: the labels are not refreshed on the way back.
viewWillAppearWithoutRefresh ==
    /\ screen \in {"payment", "modifiers"}
    /\ screen' = "quickServe"
    /\ closeModifiers
    /\ UNCHANGED <<orderVars, homeDB, viewVars>>

\* viewWillAppear runs again whenever the controller comes back on top.
viewWillAppear ==
    /\ screen \in {"payment", "modifiers"}
    /\ screen' = "quickServe"
    /\ closeModifiers
    /\ UNCHANGED <<currentItemIds, currentQtys, dictionary, taxNames, orderDB,
                   homeDB, selectedItemId>>
    /\ updateTotalOfOrderLabels

Relaunch ==
    /\ screen = "crashed"
    /\ screen' = "home"
    /\ homeDB' \in BOOLEAN
    /\ UNCHANGED <<orderVars, viewVars, modVars>>

LoseConnection ==
    /\ screen # "crashed"
    /\ \/ homeDB /\ homeDB' = FALSE /\ UNCHANGED orderDB
       \/ orderDB /\ orderDB' = FALSE /\ UNCHANGED homeDB
    /\ UNCHANGED <<currentItemIds, currentQtys, dictionary, totals, taxPercentage,
                   taxNames, screen, viewVars, modVars>>

-----------------------------------------------------------------------------
(* The order's table *)

\* The item branch of handleOneTap, then addAnOrder: the lookup, over the
\* home screen's connection, found the tapped item.
TapItem(itemId) ==
    /\ screen = "quickServe"
    /\ homeDB
    /\ \A i \in DOMAIN currentItemIds : currentItemIds[i] = itemId => currentQtys[i] < QtyBound
    /\ selectedItemId' = itemId
    /\ addToOrder(itemId)
    /\ updateTotalOfOrderLabels
    /\ UNCHANGED <<screen, homeDB, modVars>>

\* The lookup had no row, for want of a connection or because the menu had
\* lost track of the item's subclass (MenuNavigation): addObject:nil raises.
TapUnknownItem == screen = "quickServe" /\ Crash

\* A row's stepper is set to the quantity, which it clamps to its range.
stepperValue(row) ==
    IF currentQtys[row] > StepperMax THEN StepperMax ELSE currentQtys[row]

\* UIStepper with wraps = YES, one press up or down.
pressed(value, up) ==
    IF up THEN IF value = StepperMax THEN StepperMin ELSE value + 1
          ELSE IF value = StepperMin THEN StepperMax ELSE value - 1

\* A stepper that arrives at its maximum removes the row.
stepperValueChanged(row, up) ==
    LET value == pressed(stepperValue(row), up)
    IN  /\ screen = "quickServe"
        /\ IF value = StepperMax THEN removeRow(row) ELSE setQuantity(row, value)
        /\ updateTotalOfOrderLabels
        /\ UNCHANGED <<screen, homeDB, selectedItemId, modVars>>

didSelectRowAtIndexPath(row) ==
    /\ screen = "quickServe"
    /\ selectedItemId' = currentItemIds[row]
    /\ UNCHANGED <<orderVars, screen, homeDB, labels, nameLabels, taxNameChanged, modVars>>

-----------------------------------------------------------------------------
(* The modifiers screen *)

\* modButtonPressed, prepareForSegue, and viewDidLoad of the new screen, whose
\* cells take their switches from the order (determineSwitchStartState).
modButtonPressed ==
    /\ screen = "quickServe"
    /\ screen' = "modifiers"
    /\ modItem' = selectedItemId
    /\ modCells' = modsToShow(homeDB, selectedItemId)
    /\ modifiersToReturnToParent' = <<>>
    /\ switchesOn' = {cell \in modCells' : nameInKey(cell[2], selectedItemId)}
    /\ UNCHANGED <<orderVars, homeDB, viewVars>>

\* A cell that is scrolled back into view asks for its switch again.
cellForRowAtIndexPath(cell) ==
    /\ screen = "modifiers"
    /\ switchesOn' = IF nameInKey(cell[2], modItem) THEN switchesOn \cup {cell}
                                                    ELSE switchesOn \ {cell}
    /\ UNCHANGED <<orderVars, screen, homeDB, viewVars, modItem, modCells,
                   modifiersToReturnToParent>>

\* The strings of this visit, one per category and choice.
addStringModOptionToArray(array, mod) ==
    LET same(i) == array[i].category = mod.category /\ array[i].choice = mod.choice
    IN  IF \E i \in DOMAIN array : same(i)
        THEN [i \in DOMAIN array |-> IF same(i) THEN mod ELSE array[i]]
        ELSE Append(array, mod)

\* Every toggle sends all strings of the visit to the order again.
switchChanged(cell) ==
    LET mod == [category |-> cell[1], choice |-> cell[2], on |-> cell \notin switchesOn]
    IN  /\ screen = "modifiers"
        /\ IF modItem \in DOMAIN dictionary
           THEN /\ modifiersToReturnToParent' =
                        addStringModOptionToArray(modifiersToReturnToParent, mod)
                /\ updateDictionaryWithModifierString(modifiersToReturnToParent', modItem)
                /\ switchesOn' = IF mod.on THEN switchesOn \cup {cell}
                                           ELSE switchesOn \ {cell}
                /\ UNCHANGED <<screen, homeDB, viewVars, modItem, modCells>>
           ELSE Crash

-----------------------------------------------------------------------------

Next ==
    \/ \E db \in BOOLEAN : OpenQuickServe(db)
    \/ OpenRaises
    \/ clickedConfirm
    \/ CancelConfirm
    \/ PayLater
    \/ PayNow
    \/ BackToHome
    \/ viewWillAppear
    \/ Relaunch
    \/ LoseConnection
    \/ \E itemId \in ItemIds : TapItem(itemId)
    \/ TapUnknownItem
    \/ \E row \in DOMAIN currentItemIds :
        \/ \E up \in BOOLEAN : stepperValueChanged(row, up)
        \/ didSelectRowAtIndexPath(row)
    \/ modButtonPressed
    \/ \E cell \in modCells : cellForRowAtIndexPath(cell) \/ switchChanged(cell)

Spec == Init /\ [][Next]_vars

-----------------------------------------------------------------------------
(* Properties *)

LabelRecord == [amount : Int, tax : Int, total : Int, first : Int, second : Int]

\* What the steps assign and test.
ControlTypeOK ==
    /\ currentItemIds \in Seq(ItemIds)
    /\ currentQtys \in Seq(Nat \ {0})
    /\ DOMAIN dictionary \subseteq ItemIds
    /\ taxPercentage \in [Taxes -> Nat]
    /\ taxNames \in [Taxes -> TaxLabels]
    /\ orderDB \in BOOLEAN
    /\ screen \in Screens
    /\ homeDB \in BOOLEAN
    /\ selectedItemId \in ItemIds \cup {Nil}
    /\ nameLabels \in [Taxes -> TaxLabels]
    /\ taxNameChanged \in BOOLEAN
    /\ modItem \in ItemIds \cup {Nil}
    /\ modCells \subseteq Categories \X ModNames
    /\ modifiersToReturnToParent \in Seq(ModString)
    /\ switchesOn \subseteq modCells

\* What the loops of Orders.m compute.
DataTypeOK ==
    /\ \A id \in DOMAIN dictionary : dictionary[id] \in Seq(ModString)
    /\ totals \in [amount : Nat, price : Nat]
    /\ labels \in LabelRecord

\* Every variable holds a value of its kind: in particular no quantity in the
\* order falls below the stepper's minimum, whatever the stepper wraps around
\* to, and only cells that are shown have a switch that is on.
TypeOK == ControlTypeOK /\ DataTypeOK

\* The arrays of an order run in parallel: they have one length, no item has
\* two rows, and the dictionary has a key for the items of the order and for
\* no other.  Taps, steppers and removals each touch the three on their own
\* (Orders.m addToOrder, QuickServeController.m stepperValueChanged), and every
\* table row and total indexes one by the other.
OrderConsistent ==
    /\ Len(currentItemIds) = Len(currentQtys)
    /\ \A i, j \in DOMAIN currentItemIds : currentItemIds[i] = currentItemIds[j] => i = j
    /\ DOMAIN dictionary = {currentItemIds[i] : i \in DOMAIN currentItemIds}

\* While the order is on the screen, with its connection up, the labels show
\* the totals of the rows, quantities and modifiers it has now: an order
\* edited on the modifiers screen is never shown at its old price
\* (viewWillAppear, updateTotalOfOrderLabels).
BillShownIsCurrent ==
    screen \in {"quickServe", "alert"} /\ orderDB =>
        /\ totals = TotalsOf(orderDB, currentItemIds, currentQtys, dictionary)
        /\ taxPercentage = PercentagesOf(orderDB, currentItemIds, taxPercentage)
        /\ labels = LabelsOf(totals, taxPercentage)

\* Once anything is ordered over a connection that is up, the labels of the
\* two taxes carry the names of the tax table, never the placeholders, even
\* though taxNameChanged stops the redrawing and the order forgets its rows.
TaxNamesShown ==
    orderDB /\ currentItemIds # <<>> => nameLabels = taxType

\* No order holds two modifier strings with one choice: a string read back by
\* its choice (nameInKey, newChangeInDictionary) is the only one there is.
OneStringPerChoice ==
    \A id \in DOMAIN dictionary :
        \A i, j \in DOMAIN dictionary[id] :
            dictionary[id][i].choice = dictionary[id][j].choice => i = j

\* The order's strings that are on, as cells of the modifiers screen.
CellsOn(id) ==
    {<<mod.category, mod.choice>> : mod \in {m \in ToSet(objectForKey(dictionary, id)) : m.on}}

\* The names that one item offers are unique across its categories: the code
\* finds the string of a cell by its name alone.
UniqueNames ==
    \A id \in ItemIds : \A c1, c2 \in modsToShow(TRUE, id) : c1[2] = c2[2] => c1 = c2

\* On the modifiers screen of an item of the order, the switches that are on
\* are the modifiers the order will charge, after any toggles, scrolling and
\* earlier visits.  It needs UniqueNames.
SwitchesMatchOrder ==
    screen = "modifiers" /\ modItem \in DOMAIN dictionary /\ modCells # {} =>
        switchesOn = CellsOn(modItem)

\* The order implements the abstract order book.
QtyOf(id) ==
    IF \E i \in DOMAIN currentItemIds : currentItemIds[i] = id
    THEN currentQtys[CHOOSE i \in DOMAIN currentItemIds : currentItemIds[i] = id]
    ELSE 0

Book == INSTANCE OrderBook WITH
    qty    <- [id \in ItemIds |-> QtyOf(id)],
    chosen <- [id \in ItemIds |-> CellsOn(id)],
    online <- orderDB,
    bill   <- totals

\* Seen as quantities and sets of chosen modifiers, every step of the screens
\* is a step of OrderBook: it touches one item, it removes an item only from
\* the ends of its stepper, a toggle flips exactly the toggled modifier, and
\* whatever recomputes the bill computes it from the tables.
ImplementsOrderBook == Book!BookSpec
=============================================================================
