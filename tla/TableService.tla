---------------------------- MODULE TableService ----------------------------
(***************************************************************************)
(* Serving tables: HomeViewController.m, PickTableNumberCollection-        *)
(* Controller.m and OccupiedTableCollectionViewController.m around the     *)
(* menu of QuickServeController.m.  Picking a free table keeps the new     *)
(* controller in quickServeDictionary; opening an occupied table makes     *)
(* another controller, to which the kept one's fields are copied.  The     *)
(* stacks and the order are objects the two then share; the other fields   *)
(* are not, and nothing is copied back.                                    *)
(*                                                                         *)
(* The variables of MenuNavigation are the controller on screen, and an    *)
(* order is the set of the items tapped into it (QuickServe has the rest   *)
(* of it).  A shared stack is kept up to date when the menu is left, since *)
(* nobody looks at it before.  The variables serving and tapped are        *)
(* history variables: the table the user opened, and what they tapped for  *)
(* it.  The path of MenuNavigation starts again at a reopened menu.        *)
(***************************************************************************)
EXTENDS MenuNavigation

CONSTANTS
    Tables,      \* the table numbers
    Quick,       \* the order of a menu that is of no table
    StackBound   \* the depth to which taps are followed: bounds the model

ASSUME TablesAssumption ==
    /\ Nil \notin Tables /\ Quick \notin Tables
    /\ StackBound \in Nat

VARIABLES
    listOfTables,          \* the texts of the free tables
    quickServeDictionary,  \* the kept controllers, by table number
    pickMenu,              \* currentMenuItems of the screen of free tables
    from,                  \* the screen below the menu
    kept,                  \* whether the controller on screen is a kept one
    order,                 \* the order of the controller on screen ...
    tableNumber,           \* ... and its table
    orders,                \* the items in each order
    serving,
    tapped

controllerVars == <<menuVars, nameOfSelected, nameVars>>
tableVars == <<listOfTables, quickServeDictionary, pickMenu, from, kept, order,
               tableNumber, orders, serving, tapped>>
tablesVars == <<vars, tableVars>>

Orders == Tables \cup {Quick}

-----------------------------------------------------------------------------
(* Table numbers are texts in the list and numbers in the dictionary. *)

TextOf(number) == <<"text", number>>

\* Slip: the text itself becomes the key of the dictionary.
textAsKey(text) == text

integerValue(text) == text[2]

\* Slip: the number itself is looked for in the list of texts.
removeNumber(number) == listOfTables \ {number}

removeObject(number) == listOfTables \ {TextOf(number)}

-----------------------------------------------------------------------------
(* Screens *)

Fresh ==
    /\ listOfTables = {TextOf(table) : table \in Tables}
    /\ quickServeDictionary = <<>>
    /\ pickMenu = {}
    /\ from = "home"
    /\ kept = FALSE
    /\ order = Quick
    /\ tableNumber = Nil
    /\ orders = [o \in Orders |-> {}]
    /\ serving = Nil
    /\ tapped = [table \in Tables |-> {}]

TablesInit == Init /\ Fresh

\* The end of the app loses every table.
LoseTables ==
    /\ listOfTables' = {TextOf(table) : table \in Tables}
    /\ quickServeDictionary' = <<>>
    /\ pickMenu' = {}
    /\ from' = "home"
    /\ kept' = FALSE
    /\ order' = Quick
    /\ tableNumber' = Nil
    /\ orders' = [o \in Orders |-> {}]
    /\ serving' = Nil
    /\ tapped' = [table \in Tables |-> {}]

\* Home to the list of free tables: the classes for the menus are read here.
PickTable ==
    /\ screen = "home"
    /\ screen' = "pick"
    /\ pickMenu' = classNames(homeDB)
    /\ UNCHANGED <<homeDB, controllerVars, listOfTables, quickServeDictionary, from, kept,
                   order, tableNumber, orders, serving, tapped>>

\* Home to the list of occupied tables.
ShowTables ==
    /\ screen = "home"
    /\ screen' = "tables"
    /\ UNCHANGED <<homeDB, controllerVars, tableVars>>

LeaveList ==
    /\ screen \in {"pick", "tables"}
    /\ screen' = "home"
    /\ pickMenu' = {}
    /\ UNCHANGED <<homeDB, controllerVars, listOfTables, quickServeDictionary, from, kept,
                   order, tableNumber, orders, serving, tapped>>

\* Home straight to a menu of no table, with an order of its own.
QuickServe ==
    /\ Open
    /\ orders' = [orders EXCEPT ![Quick] = {}]
    /\ UNCHANGED <<listOfTables, quickServeDictionary, pickMenu, from, kept, order,
                   tableNumber, serving, tapped>>

-----------------------------------------------------------------------------
(* Opening a table *)

\* The fields of the controller on screen that a reopened table is given.
Controller ==
    [currentMenuItems |-> currentMenuItems, isSubclass |-> isSubclass,
     isActualItems |-> isActualItems, nameOfSelected |-> nameOfSelected,
     classNameForDatabase |-> classNameForDatabase,
     subclassNameForDatabase |-> subclassNameForDatabase, selectedItemId |-> selectedItemId,
     order |-> order, tableNumber |-> tableNumber, stackOfMenus |-> stackOfMenus,
     stackOfIsSubclassBools |-> stackOfIsSubclassBools,
     stackOfIsActualItemBools |-> stackOfIsActualItemBools]

\* A free table: a new controller with the menu of the list's screen, which
\* goes into the dictionary.  No other order is the table's.
SelectFreeTable(text) ==
    LET number == integerValue(text)
    IN  /\ screen = "pick"
        /\ screen' = "menu"
        /\ from' = "pick"
        /\ NewMenu(pickMenu)
        /\ tableNumber' = number
        /\ order' = number
        /\ orders' = [orders EXCEPT ![number] = {}]
        /\ kept' = TRUE
        /\ serving' = number
        /\ quickServeDictionary' =
             [table \in DOMAIN quickServeDictionary \cup {number} |->
                IF table = number THEN Controller' ELSE quickServeDictionary[table]]
        /\ listOfTables' = removeObject(number)
        /\ UNCHANGED <<homeDB, pickMenu, tapped>>

\* Slip: the class of the menu is not copied.
copyMenuWithoutClass(c) ==
    /\ currentMenuItems' = c.currentMenuItems
    /\ isSubclass' = c.isSubclass
    /\ isActualItems' = c.isActualItems
    /\ nameOfSelected' = c.nameOfSelected
    /\ classNameForDatabase' = Nil
    /\ subclassNameForDatabase' = c.subclassNameForDatabase
    /\ selectedItemId' = c.selectedItemId
    /\ path' = <<>>

\* The menu and the names of the controller c; the stacks are those of c.
CopyMenu(c) ==
    /\ currentMenuItems' = c.currentMenuItems
    /\ isSubclass' = c.isSubclass
    /\ isActualItems' = c.isActualItems
    /\ nameOfSelected' = c.nameOfSelected
    /\ classNameForDatabase' = c.classNameForDatabase
    /\ subclassNameForDatabase' = c.subclassNameForDatabase
    /\ selectedItemId' = c.selectedItemId
    /\ path' = <<>>

\* Slip: one of the stacks is left the new controller's own.
shareTwoStacks(c) ==
    /\ stackOfMenus' = c.stackOfMenus
    /\ stackOfIsSubclassBools' = c.stackOfIsSubclassBools
    /\ stackOfIsActualItemBools' = <<>>

shareStacks(c) ==
    /\ stackOfMenus' = c.stackOfMenus
    /\ stackOfIsSubclassBools' = c.stackOfIsSubclassBools
    /\ stackOfIsActualItemBools' = c.stackOfIsActualItemBools

\* Slip: the order is left the new controller's own.
shareNoOrder(c) ==
    /\ order' = Quick
    /\ tableNumber' = c.tableNumber
    /\ orders' = [orders EXCEPT ![Quick] = {}]

shareOrder(c) ==
    /\ order' = c.order
    /\ tableNumber' = c.tableNumber
    /\ UNCHANGED orders

\* An occupied table: a new controller with what the kept one has.
SelectOccupiedTable(number) ==
    /\ screen = "tables"
    /\ screen' = "menu"
    /\ from' = "tables"
    /\ CopyMenu(quickServeDictionary[number])
    /\ shareStacks(quickServeDictionary[number])
    /\ shareOrder(quickServeDictionary[number])
    /\ kept' = FALSE
    /\ serving' = number
    /\ UNCHANGED <<homeDB, listOfTables, quickServeDictionary, pickMenu, tapped>>

\* Each way to a menu makes a new controller, and its viewDidLoad may raise.
MenuRaises ==
    /\ \/ screen = "home"
       \/ screen = "pick" /\ listOfTables # {}
       \/ screen = "tables" /\ DOMAIN quickServeDictionary # {}
    /\ viewDidLoadRaises
    /\ LoseTables

\* Leaving the menu, by Back or by Pay Later.  A kept controller stays as it
\* is; another one is gone, and only what it shared stays.
LeaveMenu(to) ==
    /\ screen = "menu"
    /\ screen' = to
    /\ quickServeDictionary' =
         IF serving = Nil THEN quickServeDictionary
         ELSE IF kept THEN [quickServeDictionary EXCEPT ![serving] = Controller]
         ELSE [quickServeDictionary EXCEPT
                 ![serving].stackOfMenus = stackOfMenus,
                 ![serving].stackOfIsSubclassBools = stackOfIsSubclassBools,
                 ![serving].stackOfIsActualItemBools = stackOfIsActualItemBools]
    /\ NewMenu({})
    /\ pickMenu' = IF to = "home" THEN {} ELSE pickMenu
    /\ from' = "home"
    /\ kept' = FALSE
    /\ order' = Quick
    /\ tableNumber' = Nil
    /\ serving' = Nil
    /\ UNCHANGED <<homeDB, listOfTables, orders, tapped>>

-----------------------------------------------------------------------------
(* The menu of a table *)

TapMenu(name) ==
    /\ Len(stackOfMenus) < StackBound
    /\ TapClass(name) \/ TapSubclass(name)
    /\ UNCHANGED tableVars

TapItemOfTable(name) ==
    /\ TapItem(name)
    /\ \/ /\ screen' = "menu"
          /\ orders' = [orders EXCEPT ![order] = @ \cup {selectedItemId'}]
          /\ tapped' = IF serving = Nil THEN tapped
                       ELSE [tapped EXCEPT ![serving] = @ \cup {selectedItemId'}]
          /\ UNCHANGED <<listOfTables, quickServeDictionary, pickMenu, from, kept, order,
                         tableNumber, serving>>
       \/ screen' = "crashed" /\ LoseTables

FlipBack == flipBackMenuItems /\ UNCHANGED tableVars

TapEmptyMenu == TapNothing /\ LoseTables

TablesNext ==
    \/ PickTable
    \/ ShowTables
    \/ LeaveList
    \/ QuickServe
    \/ \E text \in listOfTables : SelectFreeTable(text)
    \/ \E number \in DOMAIN quickServeDictionary : SelectOccupiedTable(number)
    \/ MenuRaises
    \/ \E to \in {from, "home"} : LeaveMenu(to)
    \/ \E name \in currentMenuItems : TapMenu(name) \/ TapItemOfTable(name)
    \/ FlipBack
    \/ TapEmptyMenu
    \/ Relaunch /\ UNCHANGED tableVars
    \/ LoseConnection /\ UNCHANGED tableVars

TablesSpec == TablesInit /\ [][TablesNext]_tablesVars

-----------------------------------------------------------------------------
(* Properties *)

Ids == {row.id : row \in tblItems}

Controllers ==
    [currentMenuItems : SUBSET Texts, isSubclass : BOOLEAN, isActualItems : BOOLEAN,
     nameOfSelected : Texts \cup {Nil}, classNameForDatabase : Texts \cup {Nil},
     subclassNameForDatabase : Texts \cup {Nil}, selectedItemId : Ids \cup {Nil},
     order : Orders, tableNumber : Tables \cup {Nil},
     stackOfMenus : Seq(SUBSET Texts), stackOfIsSubclassBools : Seq(BOOLEAN),
     stackOfIsActualItemBools : Seq(BOOLEAN)]

\* Every variable holds a value of its kind: the list has texts of tables and
\* the dictionary controllers by table number.
TablesTypeOK ==
    /\ screen \in {"home", "pick", "tables", "menu", "crashed"}
    /\ homeDB \in BOOLEAN
    /\ Controller \in Controllers
    /\ listOfTables \subseteq {TextOf(table) : table \in Tables}
    /\ DOMAIN quickServeDictionary \subseteq Tables
    /\ \A table \in DOMAIN quickServeDictionary : quickServeDictionary[table] \in Controllers
    /\ pickMenu \subseteq Texts
    /\ from \in {"home", "pick", "tables"}
    /\ kept \in BOOLEAN
    /\ orders \in [Orders -> SUBSET Ids]
    /\ serving \in Tables \cup {Nil}
    /\ tapped \in [Tables -> SUBSET Ids]

\* PickTableNumberCollectionController.m 94-97: "Once a table is occupied" it
\* is in the dictionary and no longer in the list, under a number there and
\* under a text here: at any time a table is free or occupied and not both, so
\* that no table in use is seated again and its order lost.
FreeOrOccupied ==
    \A table \in Tables :
        table \in DOMAIN quickServeDictionary <=> TextOf(table) \notin listOfTables

\* A table's order has exactly the items that were tapped while the table was
\* open, however often it was left and reopened and whatever was done at other
\* tables in between, and the number on its bill is its own.
TableKeepsItsOrder ==
    /\ \A table \in DOMAIN quickServeDictionary :
         orders[quickServeDictionary[table].order] = tapped[table]
    /\ tableNumber = serving

\* Whether a menu is what its flags say, and what a tap on it is read as.
ReadAs(items, subclass, actual) ==
    /\ actual => subclass
    /\ ~subclass => items = classNames(TRUE)
    /\ subclass /\ ~actual =>
         \E class \in Texts :
             items = {asString(s) : s \in subclassWhereClassIs(TRUE, class)}
    /\ actual => \E text \in Texts :
         items \in {itemsWhereClassIs(TRUE, text), itemsWhereSubclassIs(TRUE, text)}

ReadAsShown(c) ==
    /\ ReadAs(c.currentMenuItems, c.isSubclass, c.isActualItems)
    /\ Len(c.stackOfIsSubclassBools) = Len(c.stackOfMenus)
    /\ Len(c.stackOfIsActualItemBools) = Len(c.stackOfMenus)
    /\ \A i \in DOMAIN c.stackOfMenus :
         ReadAs(c.stackOfMenus[i], c.stackOfIsSubclassBools[i], c.stackOfIsActualItemBools[i])

\* The menu of a table is read as it is shown, at every level Back leads to:
\* the fields copied to a reopened table and the stacks it shares with a
\* controller that has moved on may be of different visits, but a level's
\* menu and its two flags never are.
MenuReadAsShown ==
    homeDB =>
        /\ screen = "menu" => ReadAsShown(Controller)
        /\ \A table \in DOMAIN quickServeDictionary :
             serving # table => ReadAsShown(quickServeDictionary[table])
\* Whether a menu of items is of the class or the subclass the lookup asks for.
ItemsAreOf(c) ==
    c.isActualItems =>
        \/ c.currentMenuItems = itemsWhereClassIs(TRUE, c.classNameForDatabase)
        \/ c.currentMenuItems = itemsWhereSubclassIs(TRUE, c.subclassNameForDatabase)

\* The items of a table's menu are those of the class or the subclass that is
\* kept for the lookup of a tapped one: a reopened table has its menu and its
\* names from one controller (OccupiedTableCollectionViewController.m 93-114)
\* and goes Back over stacks that another one has filled since, and the menu
\* it shows is never of names it does not have.
ItemsAreOfTheirNames ==
    homeDB =>
        /\ screen = "menu" => ItemsAreOf(Controller)
        /\ \A table \in DOMAIN quickServeDictionary :
             serving # table => ItemsAreOf(quickServeDictionary[table])
=============================================================================
