--------------------------- MODULE MenuNavigation ---------------------------
(***************************************************************************)
(* The menu of QuickServeController.m and the queries of DatabaseAccess.m  *)
(* behind it.  The menu goes from classes to subclasses to items, or       *)
(* straight to the items of a class that has one subclass; a tap saves the *)
(* present menu on three stacks and Back restores it.  The id of a tapped  *)
(* item is looked up by names that earlier taps left behind.               *)
(*                                                                         *)
(* The variable path is a history variable, the names tapped on the way to *)
(* the present menu: what the user thinks the menu shows.  A menu is the   *)
(* set of its texts.  A tap beside the cells counts as a tap on the first  *)
(* cell (the row of a nil index path is 0), so it is one of the taps below.*)
(*                                                                         *)
(* A text does not come back to the database as it left.  A field is read  *)
(* as Mac Roman, a query is sent as UTF-8 with the text between quotes as  *)
(* it is: beyond ASCII it stands for other bytes, and with an apostrophe   *)
(* the query is an error.  Columns are what the table holds, Texts what    *)
(* the screen shows.                                                       *)
(***************************************************************************)
EXTENDS Integers, Sequences, SequencesExt

CONSTANTS
    tblItems,  \* TBL_ITEMS: records of id, class, subclass and name
    Null,      \* a NULL column
    Blank,     \* the empty string
    Nil,       \* nil
    MacRoman,  \* the text that each column is read as
    Literal,   \* the column a text stands for in a query; none, if the query is an error
    testItemExtras  \* how many rows of TBL_EXTRAS the item 74 has

Columns == (UNION {{row.class, row.subclass, row.name} : row \in tblItems}) \ {Null}
Texts == {Blank} \cup {MacRoman[column] : column \in Columns}

ASSUME MenuAssumption ==
    /\ Nil \notin Texts
    /\ \A row \in tblItems : row.id # Nil

VARIABLES
    screen,                    \* home, menu or crashed
    homeDB,                    \* whether the connection of the database is up
    currentMenuItems,
    isSubclass,
    isActualItems,
    stackOfMenus,
    stackOfIsSubclassBools,
    stackOfIsActualItemBools,
    nameOfSelected,
    classNameForDatabase,
    subclassNameForDatabase,
    selectedItemId,
    path

stackVars == <<stackOfMenus, stackOfIsSubclassBools, stackOfIsActualItemBools>>
nameVars == <<classNameForDatabase, subclassNameForDatabase, selectedItemId>>
menuVars == <<currentMenuItems, isSubclass, isActualItems, stackVars, path>>
vars == <<screen, homeDB, menuVars, nameOfSelected, nameVars>>

-----------------------------------------------------------------------------
(* Queries.  Without a connection a query has no rows, and neither has one *)
(* that is an error.                                                       *)

Rows(db) == IF db THEN tblItems ELSE {}

\* Slip: a NULL field stays one.
asStringOrNull(column) == IF column = Null THEN Null ELSE MacRoman[column]

\* asString of a NULL field is the empty string ...
asString(column) == IF column = Null THEN Blank ELSE MacRoman[column]

\* ... but in a query column='text' is never true of NULL.
Matches(column, text) ==
    /\ column # Null
    /\ text \in DOMAIN Literal /\ Literal[text] = column

classNames(db) == {asString(row.class) : row \in Rows(db)}

OfClass(db, class) == {row \in Rows(db) : Matches(row.class, class)}

\* The subclasses as DISTINCT returns them, where NULL is one of them.
subclassWhereClassIs(db, class) == {row.subclass : row \in OfClass(db, class)}

itemsWhereClassIs(db, class) == {asString(row.name) : row \in OfClass(db, class)}

\* The class is not part of this query.
itemsWhereSubclassIs(db, subclass) ==
    {asString(row.name) : row \in {r \in Rows(db) : Matches(r.subclass, subclass)}}

\* The ids of the rows found; the code takes the first.
itemIdWhereClassIs(db, class, subclass, name) ==
    {row.id : row \in {r \in OfClass(db, class) :
                            /\ subclass # Nil => Matches(r.subclass, subclass)
                            /\ Matches(r.name, name)}}

\* "If the array returned is a 1, it means it doesn't have a subclass."
HasOneSubclass(db, class) ==
    \E subclass \in subclassWhereClassIs(db, class) :
        subclassWhereClassIs(db, class) = {subclass}

-----------------------------------------------------------------------------
(* Opening and leaving the menu *)

Closed ==
    /\ currentMenuItems = {}
    /\ isSubclass = FALSE
    /\ isActualItems = FALSE
    /\ stackOfMenus = <<>>
    /\ stackOfIsSubclassBools = <<>>
    /\ stackOfIsActualItemBools = <<>>
    /\ nameOfSelected = Nil
    /\ classNameForDatabase = Nil
    /\ subclassNameForDatabase = Nil
    /\ selectedItemId = Nil
    /\ path = <<>>

\* A new controller: initWithCoder, with the menu the segue gives it.
NewMenu(items) ==
    /\ currentMenuItems' = items
    /\ isSubclass' = FALSE
    /\ isActualItems' = FALSE
    /\ stackOfMenus' = <<>>
    /\ stackOfIsSubclassBools' = <<>>
    /\ stackOfIsActualItemBools' = <<>>
    /\ nameOfSelected' = Nil
    /\ classNameForDatabase' = Nil
    /\ subclassNameForDatabase' = Nil
    /\ selectedItemId' = Nil
    /\ path' = <<>>

Init ==
    /\ screen = "home"
    /\ homeDB \in BOOLEAN
    /\ Closed

Open ==
    /\ screen = "home"
    /\ screen' = "menu"
    /\ NewMenu(classNames(homeDB))
    /\ UNCHANGED homeDB

GoHome ==
    /\ screen = "menu"
    /\ screen' = "home"
    /\ NewMenu({})
    /\ UNCHANGED homeDB

\* An exception ends the app.
Crash ==
    /\ screen' = "crashed"
    /\ NewMenu({})
    /\ UNCHANGED homeDB

\* The viewDidLoad of every new controller loads the item properties of item
\* 74, where itemExtras reads a third column of rows that have two.  Its query
\* goes over a connection of its own, which may fail: then nothing is raised.
viewDidLoadRaises == testItemExtras > 0 /\ Crash

OpenRaises == screen = "home" /\ viewDidLoadRaises

Relaunch ==
    /\ screen = "crashed"
    /\ screen' = "home"
    /\ homeDB' \in BOOLEAN
    /\ UNCHANGED <<menuVars, nameOfSelected, nameVars>>

LoseConnection ==
    /\ homeDB
    /\ screen # "crashed"
    /\ homeDB' = FALSE
    /\ UNCHANGED <<screen, menuVars, nameOfSelected, nameVars>>

-----------------------------------------------------------------------------
(* Taps *)

\* Slip: one of the three stacks is forgotten.
saveTwoStacks ==
    /\ stackOfMenus' = Append(stackOfMenus, currentMenuItems)
    /\ stackOfIsSubclassBools' = Append(stackOfIsSubclassBools, isSubclass)
    /\ UNCHANGED stackOfIsActualItemBools

savePreviousState ==
    /\ stackOfMenus' = Append(stackOfMenus, currentMenuItems)
    /\ stackOfIsSubclassBools' = Append(stackOfIsSubclassBools, isSubclass)
    /\ stackOfIsActualItemBools' = Append(stackOfIsActualItemBools, isActualItems)

\* A class: the subclasses are counted and the next menu read by two queries,
\* and the connection may be lost between them.
TapClass(name) ==
    /\ screen = "menu"
    /\ ~isSubclass /\ ~isActualItems
    /\ nameOfSelected' = name
    /\ classNameForDatabase' = name
    /\ savePreviousState
    /\ path' = Append(path, name)
    /\ isSubclass' = TRUE
    /\ homeDB' \in {homeDB, FALSE}
    /\ IF HasOneSubclass(homeDB, name)
       THEN /\ isActualItems' = TRUE
            /\ currentMenuItems' = itemsWhereClassIs(homeDB', name)
       ELSE /\ currentMenuItems' = {asString(s) : s \in subclassWhereClassIs(homeDB', name)}
            /\ UNCHANGED isActualItems
    /\ UNCHANGED <<screen, subclassNameForDatabase, selectedItemId>>

\* Slip: the subclass is not kept for the lookup.
tapSubclassWithoutName(name) ==
    /\ screen = "menu"
    /\ isSubclass /\ ~isActualItems
    /\ nameOfSelected' = name
    /\ savePreviousState
    /\ path' = Append(path, name)
    /\ currentMenuItems' = itemsWhereSubclassIs(homeDB, name)
    /\ isActualItems' = TRUE
    /\ UNCHANGED <<screen, homeDB, isSubclass, nameVars>>

TapSubclass(name) ==
    /\ screen = "menu"
    /\ isSubclass /\ ~isActualItems
    /\ nameOfSelected' = name
    /\ subclassNameForDatabase' = name
    /\ savePreviousState
    /\ path' = Append(path, name)
    /\ currentMenuItems' = itemsWhereSubclassIs(homeDB, name)
    /\ isActualItems' = TRUE
    /\ UNCHANGED <<screen, homeDB, isSubclass, classNameForDatabase, selectedItemId>>

\* An item: its id goes to the order (QuickServe!TapItem).  A lookup without
\* rows gives nil, which the order cannot hold.
TapItem(name) ==
    LET found == itemIdWhereClassIs(homeDB, classNameForDatabase,
                                    subclassNameForDatabase, name)
    IN  /\ screen = "menu"
        /\ isActualItems
        /\ \/ /\ found # {}
              /\ selectedItemId' \in found
              /\ nameOfSelected' = name
              /\ UNCHANGED <<screen, homeDB, menuVars, classNameForDatabase,
                             subclassNameForDatabase>>
           \/ found = {} /\ Crash

\* The first cell of an empty menu is out of range.
TapNothing ==
    /\ screen = "menu"
    /\ currentMenuItems = {}
    /\ Crash

\* Slip: Back restores the menu and forgets that it was a menu of subclasses.
flipBackToClasses ==
    /\ screen = "menu"
    /\ stackOfMenus # <<>>
    /\ currentMenuItems' = Last(stackOfMenus)
    /\ isSubclass' = FALSE
    /\ isActualItems' = Last(stackOfIsActualItemBools)
    /\ stackOfMenus' = Front(stackOfMenus)
    /\ stackOfIsSubclassBools' = Front(stackOfIsSubclassBools)
    /\ stackOfIsActualItemBools' = Front(stackOfIsActualItemBools)
    /\ path' = Front(path)
    /\ UNCHANGED <<screen, homeDB, nameOfSelected, nameVars>>

\* The Back button; on an empty stack it does nothing.
flipBackMenuItems ==
    /\ screen = "menu"
    /\ stackOfMenus # <<>>
    /\ currentMenuItems' = Last(stackOfMenus)
    /\ isSubclass' = Last(stackOfIsSubclassBools)
    /\ isActualItems' = Last(stackOfIsActualItemBools)
    /\ stackOfMenus' = Front(stackOfMenus)
    /\ stackOfIsSubclassBools' = Front(stackOfIsSubclassBools)
    /\ stackOfIsActualItemBools' = Front(stackOfIsActualItemBools)
    /\ path' = Front(path)
    /\ UNCHANGED <<screen, homeDB, nameOfSelected, nameVars>>

Next ==
    \/ Open
    \/ OpenRaises
    \/ GoHome
    \/ Relaunch
    \/ LoseConnection
    \/ \E name \in currentMenuItems :
        TapClass(name) \/ TapSubclass(name) \/ TapItem(name)
    \/ TapNothing
    \/ flipBackMenuItems

Spec == Init /\ [][Next]_vars

-----------------------------------------------------------------------------
(* Properties *)

\* Every variable holds a value of its kind, and every menu, present or saved,
\* is a set of texts: a NULL of the items table never gets into one.
TypeOK ==
    /\ screen \in {"home", "menu", "crashed"}
    /\ homeDB \in BOOLEAN
    /\ currentMenuItems \subseteq Texts
    /\ isSubclass \in BOOLEAN
    /\ isActualItems \in BOOLEAN
    /\ stackOfMenus \in Seq(SUBSET Texts)
    /\ stackOfIsSubclassBools \in Seq(BOOLEAN)
    /\ stackOfIsActualItemBools \in Seq(BOOLEAN)
    /\ nameOfSelected \in Texts \cup {Nil}
    /\ classNameForDatabase \in Texts \cup {Nil}
    /\ subclassNameForDatabase \in Texts \cup {Nil}
    /\ selectedItemId \in {row.id : row \in tblItems} \cup {Nil}
    /\ path \in Seq(Texts)

\* What the user means by a path p, at each depth of it: first the classes,
\* then what the class p[1] opens, then the items of the subclass p[2].
ItemsAt(depth, p) == depth = 2 \/ (depth = 1 /\ HasOneSubclass(TRUE, p[1]))

MenuAt(depth, p) ==
    IF depth = 0 THEN classNames(TRUE)
    ELSE IF depth = 2 THEN itemsWhereSubclassIs(TRUE, p[2])
    ELSE IF HasOneSubclass(TRUE, p[1]) THEN itemsWhereClassIs(TRUE, p[1])
    ELSE {asString(s) : s \in subclassWhereClassIs(TRUE, p[1])}

\* The three stacks are as deep as the path, never deeper than two, and the
\* class and subclass kept for the lookup are those of the path.
StacksFollowPath ==
    /\ Len(path) <= 2
    /\ Len(stackOfMenus) = Len(path)
    /\ Len(stackOfIsSubclassBools) = Len(path)
    /\ Len(stackOfIsActualItemBools) = Len(path)
    /\ isSubclass <=> Len(path) > 0
    /\ Len(path) = 2 => isActualItems
    /\ \A i \in 1..Len(path) :
         /\ stackOfIsSubclassBools[i] <=> i > 1
         /\ ~stackOfIsActualItemBools[i]
    /\ Len(path) > 0 => classNameForDatabase = path[1]
    /\ Len(path) = 2 => subclassNameForDatabase = path[2]

\* With its connection up, the menu shows what the path says, and so does
\* every saved menu that Back will show: three stacks pushed by three kinds of
\* tap and popped together (handleOneTap, savePreviousState,
\* flipBackMenuItems) never get out of step, and the next tap is read as a
\* class, a subclass or an item as the menu shows it.
MenuFollowsPath ==
    screen = "menu" =>
        /\ StacksFollowPath
        /\ homeDB =>
             /\ currentMenuItems = MenuAt(Len(path), path)
             /\ isActualItems <=> ItemsAt(Len(path), path)
             /\ \A i \in 1..Len(path) :
                  /\ stackOfMenus[i] = MenuAt(i - 1, path)
                  /\ ~ItemsAt(i - 1, path)

\* No text on screen is in a query the name of another column than one that is
\* shown as this text: what its bytes are changed to is no name of the menu.
UnmistakenTexts ==
    \A text \in Texts : \A column \in Columns : Matches(column, text) => asString(column) = text

\* The item a tap adds to the order bears the tapped name, is of the class the
\* user went through, and of the subclass if they went through one: the names
\* left over from an earlier visit (subclassNameForDatabase is never reset) do
\* not make a tap order another item.  It needs UnmistakenTexts.
OrderedIsTapped ==
    [][isActualItems /\ screen' = "menu" /\ homeDB' = homeDB /\ path' = path =>
         \E row \in tblItems :
             /\ row.id = selectedItemId'
             /\ asString(row.name) = nameOfSelected'
             /\ asString(row.class) = path[1]
             /\ Len(path) = 2 => asString(row.subclass) = path[2]]_vars

\* What can go wrong with a tap while the connection is up: a text that stands
\* for some column it is shown for no longer (NULL, or changed on its way) ...
LostTexts == {asString(column) : column \in
                {c \in Columns \cup {Null} : ~Matches(c, asString(c))}}

\* ... a subclass that items of another class have as well, since the class is
\* no part of the query for its items ...
SharedSubclass(class, subclass) ==
    \E row \in tblItems : Matches(row.subclass, subclass) /\ ~Matches(row.class, class)

\* ... and a subclass that was kept from another class, one with several.
LeftOverSubclass(class, subclass) ==
    \E other \in classNames(TRUE) :
        /\ other # class
        /\ ~HasOneSubclass(TRUE, other)
        /\ subclass \in {asString(s) : s \in subclassWhereClassIs(TRUE, other)}

\* With the connection up, a tap on the menu ends the app for one of these
\* reasons only.  Whatever the user visited before, a menu is not empty and the
\* lookup of a tapped item finds a row (handleOneTap, itemIdWhereClassIs), if
\* the texts on the way to it are not lost, the subclass is of the class alone,
\* and none is left over.
TapsFailForCause ==
    [][screen = "menu" /\ screen' = "crashed" /\ homeDB =>
         \/ tblItems = {}
         \/ \E i \in DOMAIN path : path[i] \in LostTexts
         \/ currentMenuItems \cap LostTexts # {}
         \/ Len(path) = 2 /\ SharedSubclass(path[1], path[2])
         \/ Len(path) = 1 /\ LeftOverSubclass(path[1], subclassNameForDatabase)]_vars
=============================================================================
