------------------------- MODULE TableServiceProofs -------------------------
(***************************************************************************)
(* The menus and the tables of the app, for any items table, any tables,   *)
(* any depth and every sequence of taps and lost connections.              *)
(*                                                                         *)
(* The first part is about MenuNavigation: the menu follows the path, a    *)
(* tap orders the item it names, and while the connection is up it fails   *)
(* for the causes of TapsFailForCause only.                                *)
(*                                                                         *)
(* The second is about TableService.  That a table keeps its order rests   *)
(* on whose order each controller has: a kept controller its table's, the  *)
(* one on screen that of the table it was opened for, or Quick.  Hence no  *)
(* tap reaches the order of another table, and the order of a free table   *)
(* is known to be new.  Its last part follows the menus: their types, that *)
(* each level is read as it is shown, and that a menu of items has its own *)
(* names beside it, whatever visits its controller's fields are of.        *)
(***************************************************************************)
EXTENDS TableService, SequenceLemmas

-----------------------------------------------------------------------------
(* A menu. *)

\* MenuFollowsPath needs the types of the stacks, and OrderedIsTapped needs to
\* know that no item is on show before a menu is open.
NoItemsOffMenu == screen # "menu" => ~isActualItems

MenuInv == TypeOK /\ MenuFollowsPath /\ NoItemsOffMenu

\* The queries return texts.
LEMMA QueriesReturnTexts ==
    ASSUME NEW db, NEW name
    PROVE  /\ classNames(db) \subseteq Texts
           /\ itemsWhereClassIs(db, name) \subseteq Texts
           /\ itemsWhereSubclassIs(db, name) \subseteq Texts
           /\ {asString(s) : s \in subclassWhereClassIs(db, name)} \subseteq Texts
<1>1. ASSUME NEW row \in tblItems
      PROVE  /\ asString(row.class) \in Texts
             /\ asString(row.subclass) \in Texts
             /\ asString(row.name) \in Texts
  <2>1. \A column \in {row.class, row.subclass, row.name} \ {Null} : column \in Columns
    BY DEF Columns
  <2> QED
    BY <2>1 DEF asString, Texts
<1>2. Rows(db) \subseteq tblItems
  BY DEF Rows
<1>3. OfClass(db, name) \subseteq tblItems
  BY <1>2 DEF OfClass
<1>4. classNames(db) \subseteq Texts
  BY <1>1, <1>2 DEF classNames
<1>5. itemsWhereClassIs(db, name) \subseteq Texts
  BY <1>1, <1>3 DEF itemsWhereClassIs
<1>6. itemsWhereSubclassIs(db, name) \subseteq Texts
  BY <1>1, <1>2 DEF itemsWhereSubclassIs
<1>7. {asString(s) : s \in subclassWhereClassIs(db, name)} \subseteq Texts
  BY <1>1, <1>3 DEF subclassWhereClassIs
<1> QED
  BY <1>4, <1>5, <1>6, <1>7

\* The menus along a path depend on the path as far as they go.
LEMMA MenusAlongPath ==
    ASSUME NEW p, NEW q
    PROVE  /\ MenuAt(0, p) = classNames(TRUE)
           /\ ~ItemsAt(0, p)
           /\ MenuAt(2, p) = itemsWhereSubclassIs(TRUE, p[2])
           /\ ItemsAt(2, p)
           /\ ItemsAt(1, p) <=> HasOneSubclass(TRUE, p[1])
           /\ HasOneSubclass(TRUE, p[1]) => MenuAt(1, p) = itemsWhereClassIs(TRUE, p[1])
           /\ ~HasOneSubclass(TRUE, p[1]) =>
                MenuAt(1, p) = {asString(s) : s \in subclassWhereClassIs(TRUE, p[1])}
           /\ p[1] = q[1] => MenuAt(1, p) = MenuAt(1, q)
           /\ p[1] = q[1] => (ItemsAt(1, p) <=> ItemsAt(1, q))
<1>1. 0 # 1 /\ 0 # 2 /\ 1 # 2
  OBVIOUS
<1> QED
  BY <1>1, Zenon DEF MenuAt, ItemsAt

\* A new controller starts from an empty path, whatever its first menu.
LEMMA NewMenuTyped ==
    ASSUME NEW items \in SUBSET Texts, NewMenu(items),
           screen' \in {"home", "menu", "crashed"}, homeDB' \in BOOLEAN
    PROVE  TypeOK' /\ StacksFollowPath'
<1>1. /\ currentMenuItems' \subseteq Texts
      /\ isSubclass' \in BOOLEAN /\ isActualItems' \in BOOLEAN
      /\ nameOfSelected' = Nil /\ classNameForDatabase' = Nil
      /\ subclassNameForDatabase' = Nil /\ selectedItemId' = Nil
  BY DEF NewMenu
<1>2. /\ stackOfMenus' \in Seq(SUBSET Texts)
      /\ stackOfIsSubclassBools' \in Seq(BOOLEAN)
      /\ stackOfIsActualItemBools' \in Seq(BOOLEAN)
      /\ path' \in Seq(Texts)
  BY DEF NewMenu
<1>3. TypeOK'
  BY <1>1, <1>2 DEF TypeOK
<1>4. StacksFollowPath'
  BY DEF NewMenu, StacksFollowPath
<1> QED
  BY <1>3, <1>4

\* The inductive step, one case per action.
LEMMA MenuStep == MenuInv /\ [Next]_vars => MenuInv'
<1> SUFFICES ASSUME TypeOK, MenuFollowsPath, NoItemsOffMenu, [Next]_vars
             PROVE  TypeOK' /\ MenuFollowsPath' /\ NoItemsOffMenu'
  BY DEF MenuInv
<1>0. NoItemsOffMenu'
  <2>1. CASE UNCHANGED vars
    BY <2>1 DEF NoItemsOffMenu, vars, menuVars
  <2>2. CASE Relaunch
    BY <2>2 DEF NoItemsOffMenu, Relaunch, menuVars
  <2>3. CASE LoseConnection
    BY <2>3 DEF NoItemsOffMenu, LoseConnection, menuVars
  <2>4. CASE \E name \in currentMenuItems :
                TapClass(name) \/ TapSubclass(name) \/ TapItem(name)
    BY <2>4 DEF NoItemsOffMenu, TapClass, TapSubclass, TapItem, Crash, NewMenu, menuVars
  <2>5. CASE Open \/ OpenRaises \/ GoHome \/ TapNothing \/ flipBackMenuItems
    BY <2>5 DEF NoItemsOffMenu, Open, OpenRaises, viewDidLoadRaises, GoHome, TapNothing,
                Crash, NewMenu, flipBackMenuItems
  <2> QED
    BY <2>1, <2>2, <2>3, <2>4, <2>5 DEF Next
<1> SUFFICES TypeOK' /\ MenuFollowsPath'
  BY <1>0
<1>1. CASE Open
  <2>1. classNames(homeDB) \subseteq Texts
    BY QueriesReturnTexts
  <2>2. TypeOK' /\ StacksFollowPath'
    BY <1>1, <2>1, NewMenuTyped DEF Open, TypeOK
  <2>3. homeDB' => currentMenuItems' = MenuAt(0, path') /\ (isActualItems' <=> ItemsAt(0, path'))
    BY <1>1, MenusAlongPath DEF Open, NewMenu, TypeOK
  <2>4. Len(path') = 0
    BY <1>1 DEF Open, NewMenu
  <2>5. 1..Len(path') = {}
    BY <2>4
  <2> QED
    BY <2>2, <2>3, <2>4, <2>5 DEF MenuFollowsPath
<1>2. CASE GoHome
  <2>1. TypeOK'
    BY <1>2, NewMenuTyped DEF GoHome, TypeOK
  <2> QED
    BY <1>2, <2>1 DEF GoHome, MenuFollowsPath
<1>3. CASE Relaunch
  <2>1. TypeOK'
    BY <1>3 DEF Relaunch, TypeOK, menuVars, stackVars, nameVars
  <2> QED
    BY <1>3, <2>1 DEF Relaunch, MenuFollowsPath
<1>4. CASE LoseConnection
  <2>1. TypeOK'
    BY <1>4 DEF LoseConnection, TypeOK, menuVars, stackVars, nameVars
  <2>2. StacksFollowPath => StacksFollowPath'
    BY <1>4 DEF LoseConnection, StacksFollowPath, menuVars, stackVars, nameVars
  <2> QED
    BY <1>4, <2>1, <2>2 DEF LoseConnection, MenuFollowsPath
<1>5. CASE \E name \in currentMenuItems : TapClass(name)
  <2> PICK name \in currentMenuItems : TapClass(name)
    BY <1>5
  <2>1. name \in Texts
    BY DEF TypeOK
  <2>2. Len(path) = 0 /\ StacksFollowPath
    BY DEF TapClass, MenuFollowsPath, StacksFollowPath, TypeOK
  <2>3. /\ path' \in Seq(Texts) /\ Len(path') = 1 /\ path'[1] = name
    BY <2>1, <2>2 DEF TapClass, TypeOK
  <2>4. /\ stackOfMenus' \in Seq(SUBSET Texts) /\ Len(stackOfMenus') = 1
        /\ stackOfMenus'[1] = currentMenuItems
    BY <2>2, PushProperties DEF TapClass, savePreviousState, TypeOK, StacksFollowPath
  <2>5. /\ stackOfIsSubclassBools' \in Seq(BOOLEAN) /\ Len(stackOfIsSubclassBools') = 1
        /\ stackOfIsSubclassBools'[1] = FALSE
    BY <2>2, PushProperties DEF TapClass, savePreviousState, TypeOK, StacksFollowPath
  <2>6. /\ stackOfIsActualItemBools' \in Seq(BOOLEAN) /\ Len(stackOfIsActualItemBools') = 1
        /\ ~stackOfIsActualItemBools'[1]
    BY <2>2, PushProperties DEF TapClass, savePreviousState, TypeOK, StacksFollowPath
  <2>7. currentMenuItems' \subseteq Texts /\ isActualItems' \in BOOLEAN
    <3>1. CASE HasOneSubclass(homeDB, name)
      BY <3>1, QueriesReturnTexts DEF TapClass
    <3>2. CASE ~HasOneSubclass(homeDB, name)
      BY <3>2, QueriesReturnTexts, Zenon DEF TapClass, TypeOK
    <3> QED
      BY <3>1, <3>2
  <2>8. TypeOK'
    BY <2>1, <2>3, <2>4, <2>5, <2>6, <2>7 DEF TapClass, TypeOK
  <2>9. StacksFollowPath'
    BY <2>3, <2>4, <2>5, <2>6 DEF TapClass, StacksFollowPath
  <2>10. ASSUME homeDB'
         PROVE  /\ currentMenuItems' = MenuAt(1, path')
                /\ (isActualItems' <=> ItemsAt(1, path'))
                /\ stackOfMenus'[1] = MenuAt(0, path')
                /\ ~ItemsAt(0, path')
    <3>1. homeDB = TRUE /\ homeDB' = TRUE
      BY <2>10 DEF TapClass, TypeOK
    <3>2. currentMenuItems' = MenuAt(1, path') /\ (isActualItems' <=> ItemsAt(1, path'))
      <4>1. CASE HasOneSubclass(TRUE, name)
        BY <2>3, <3>1, <4>1, MenusAlongPath DEF TapClass
      <4>2. CASE ~HasOneSubclass(TRUE, name)
        BY <2>3, <3>1, <4>2, MenusAlongPath DEF TapClass
      <4> QED
        BY <4>1, <4>2
    <3>3. currentMenuItems = MenuAt(0, path)
      BY <2>2, <3>1 DEF TapClass, MenuFollowsPath
    <3> QED
      BY <2>4, <2>6, <3>2, <3>3, MenusAlongPath
  <2> QED
    BY <2>3, <2>8, <2>9, <2>10 DEF MenuFollowsPath
<1>6. CASE \E name \in currentMenuItems : TapSubclass(name)
  <2> PICK name \in currentMenuItems : TapSubclass(name)
    BY <1>6
  <2>1. name \in Texts
    BY DEF TypeOK
  <2>2. Len(path) = 1 /\ StacksFollowPath
    BY DEF TapSubclass, MenuFollowsPath, StacksFollowPath, TypeOK
  <2>3. /\ path' \in Seq(Texts) /\ Len(path') = 2 /\ path'[1] = path[1] /\ path'[2] = name
    BY <2>1, <2>2, PushProperties DEF TapSubclass, TypeOK
  <2>4. /\ stackOfMenus' \in Seq(SUBSET Texts) /\ Len(stackOfMenus') = 2
        /\ stackOfMenus'[1] = stackOfMenus[1] /\ stackOfMenus'[2] = currentMenuItems
    BY <2>2, PushProperties DEF TapSubclass, savePreviousState, TypeOK, StacksFollowPath
  <2>5. /\ stackOfIsSubclassBools' \in Seq(BOOLEAN) /\ Len(stackOfIsSubclassBools') = 2
        /\ stackOfIsSubclassBools'[1] = FALSE /\ stackOfIsSubclassBools'[2] = TRUE
    BY <2>2, PushProperties DEF TapSubclass, savePreviousState, TypeOK, StacksFollowPath
  <2>6. /\ stackOfIsActualItemBools' \in Seq(BOOLEAN) /\ Len(stackOfIsActualItemBools') = 2
        /\ ~stackOfIsActualItemBools'[1] /\ ~stackOfIsActualItemBools'[2]
    BY <2>2, PushProperties DEF TapSubclass, savePreviousState, TypeOK, StacksFollowPath
  <2>7. currentMenuItems' \subseteq Texts
    BY QueriesReturnTexts DEF TapSubclass
  <2>8. TypeOK'
    BY <2>1, <2>3, <2>4, <2>5, <2>6, <2>7 DEF TapSubclass, TypeOK
  <2>9. StacksFollowPath'
    BY <2>2, <2>3, <2>4, <2>5, <2>6 DEF TapSubclass, StacksFollowPath
  <2>10. ASSUME homeDB'
         PROVE  /\ currentMenuItems' = MenuAt(2, path')
                /\ (isActualItems' <=> ItemsAt(2, path'))
                /\ stackOfMenus'[1] = MenuAt(0, path') /\ stackOfMenus'[2] = MenuAt(1, path')
                /\ ~ItemsAt(0, path') /\ ~ItemsAt(1, path')
    <3>1. homeDB = TRUE
      BY <2>10 DEF TapSubclass, TypeOK
    <3>2. /\ currentMenuItems = MenuAt(1, path) /\ (isActualItems <=> ItemsAt(1, path))
          /\ stackOfMenus[1] = MenuAt(0, path)
          /\ ~ItemsAt(0, path)
      BY <2>2, <3>1 DEF TapSubclass, MenuFollowsPath
    <3>3. MenuAt(1, path') = MenuAt(1, path) /\ (ItemsAt(1, path') <=> ItemsAt(1, path))
      BY <2>3, MenusAlongPath
    <3>4. MenuAt(0, path') = MenuAt(0, path) /\ (ItemsAt(0, path') <=> ItemsAt(0, path))
      BY MenusAlongPath
    <3>5. currentMenuItems' = MenuAt(2, path') /\ (isActualItems' <=> ItemsAt(2, path'))
      BY <2>3, <3>1, MenusAlongPath DEF TapSubclass
    <3>6. ~isActualItems
      BY DEF TapSubclass, TypeOK
    <3> QED
      BY <2>4, <2>6, <3>2, <3>3, <3>4, <3>5, <3>6
  <2> QED
    BY <2>3, <2>8, <2>9, <2>10 DEF MenuFollowsPath
<1>7. CASE \E name \in currentMenuItems : TapItem(name)
  <2> PICK name \in currentMenuItems : TapItem(name)
    BY <1>7
  <2>1. CASE Crash
    <3>1. TypeOK'
      BY <2>1, NewMenuTyped DEF Crash, TypeOK
    <3> QED
      BY <2>1, <3>1 DEF Crash, MenuFollowsPath
  <2>2. CASE ~Crash
    <3>1. /\ selectedItemId' \in itemIdWhereClassIs(homeDB, classNameForDatabase,
                                                    subclassNameForDatabase, name)
          /\ nameOfSelected' = name
          /\ UNCHANGED <<screen, homeDB, menuVars, classNameForDatabase,
                         subclassNameForDatabase>>
      BY <2>2 DEF TapItem
    <3>2. selectedItemId' \in {row.id : row \in tblItems}
      BY <3>1 DEF itemIdWhereClassIs, OfClass, Rows
    <3>3. TypeOK'
      BY <3>1, <3>2 DEF TypeOK, menuVars, stackVars
    <3>4. StacksFollowPath => StacksFollowPath'
      BY <3>1 DEF StacksFollowPath, menuVars, stackVars
    <3> QED
      BY <3>1, <3>3, <3>4 DEF MenuFollowsPath, MenuAt, ItemsAt, menuVars, stackVars
  <2> QED
    BY <2>1, <2>2
<1>8. CASE TapNothing
  <2>1. TypeOK'
    BY <1>8, NewMenuTyped DEF TapNothing, Crash, TypeOK
  <2> QED
    BY <1>8, <2>1 DEF TapNothing, Crash, MenuFollowsPath
<1>9. CASE flipBackMenuItems
  <2>1. screen = "menu" /\ StacksFollowPath /\ TypeOK
    BY <1>9 DEF flipBackMenuItems, MenuFollowsPath
  <2>2. Len(path) \in {1, 2} /\ Len(stackOfMenus) = Len(path)
    BY <1>9, <2>1 DEF flipBackMenuItems, StacksFollowPath, TypeOK
  <2>3. /\ path' \in Seq(Texts) /\ Len(path') = Len(path) - 1
        /\ \A i \in 1..(Len(path) - 1) : path'[i] = path[i]
    <3>1. path \in Seq(Texts) /\ Len(path) > 0 /\ path' = Front(path)
      BY <1>9, <2>1, <2>2 DEF flipBackMenuItems, TypeOK
    <3> QED
      BY <3>1, FrontProperties, Zenon
  <2>4. /\ stackOfMenus' \in Seq(SUBSET Texts) /\ Len(stackOfMenus') = Len(path) - 1
        /\ \A i \in 1..(Len(path) - 1) : stackOfMenus'[i] = stackOfMenus[i]
        /\ currentMenuItems' \in SUBSET Texts
        /\ currentMenuItems' = stackOfMenus[Len(path)]
    BY <1>9, <2>1, <2>2, FrontProperties DEF flipBackMenuItems, TypeOK, StacksFollowPath
  <2>5. /\ stackOfIsSubclassBools' \in Seq(BOOLEAN)
        /\ Len(stackOfIsSubclassBools') = Len(path) - 1
        /\ \A i \in 1..(Len(path) - 1) : stackOfIsSubclassBools'[i] = stackOfIsSubclassBools[i]
        /\ isSubclass' \in BOOLEAN
        /\ isSubclass' = stackOfIsSubclassBools[Len(path)]
    BY <1>9, <2>1, <2>2, FrontProperties DEF flipBackMenuItems, TypeOK, StacksFollowPath
  <2>6. /\ stackOfIsActualItemBools' \in Seq(BOOLEAN)
        /\ Len(stackOfIsActualItemBools') = Len(path) - 1
        /\ \A i \in 1..(Len(path) - 1) :
             stackOfIsActualItemBools'[i] = stackOfIsActualItemBools[i]
        /\ isActualItems' \in BOOLEAN
        /\ ~isActualItems'
    BY <1>9, <2>1, <2>2, FrontProperties DEF flipBackMenuItems, TypeOK, StacksFollowPath
  <2>7. TypeOK'
    BY <1>9, <2>1, <2>3, <2>4, <2>5, <2>6 DEF flipBackMenuItems, TypeOK, nameVars
  <2>8. StacksFollowPath'
    BY <1>9, <2>1, <2>2, <2>3, <2>4, <2>5, <2>6
       DEF flipBackMenuItems, StacksFollowPath, nameVars
  <2>9. ASSUME homeDB'
        PROVE  /\ currentMenuItems' = MenuAt(Len(path'), path')
               /\ (isActualItems' <=> ItemsAt(Len(path'), path'))
               /\ \A i \in 1..Len(path') :
                    /\ stackOfMenus'[i] = MenuAt(i - 1, path')
                    /\ ~ItemsAt(i - 1, path')
    <3>1. homeDB
      BY <1>9, <2>9 DEF flipBackMenuItems
    <3>2. \A i \in 1..Len(path) :
            /\ stackOfMenus[i] = MenuAt(i - 1, path)
            /\ ~ItemsAt(i - 1, path)
      BY <2>1, <3>1 DEF MenuFollowsPath
    <3>3. CASE Len(path) = 1
      <4>1. MenuAt(0, path') = MenuAt(0, path) /\ (ItemsAt(0, path') <=> ItemsAt(0, path))
        BY MenusAlongPath
      <4> QED
        BY <2>3, <2>4, <2>6, <3>2, <3>3, <4>1
    <3>4. CASE Len(path) = 2
      <4>1. MenuAt(0, path') = MenuAt(0, path) /\ (ItemsAt(0, path') <=> ItemsAt(0, path))
        BY MenusAlongPath
      <4>2. MenuAt(1, path') = MenuAt(1, path) /\ (ItemsAt(1, path') <=> ItemsAt(1, path))
        <5>1. path'[1] = path[1]
          BY <2>3, <3>4
        <5> QED
          BY <5>1, MenusAlongPath
      <4> QED
        BY <2>3, <2>4, <2>6, <3>2, <3>4, <4>1, <4>2
    <3> QED
      BY <2>2, <3>3, <3>4
  <2> QED
    BY <2>7, <2>8, <2>9 DEF MenuFollowsPath
<1>10. CASE OpenRaises
  <2>1. TypeOK'
    BY <1>10, NewMenuTyped DEF OpenRaises, viewDidLoadRaises, Crash, TypeOK
  <2> QED
    BY <1>10, <2>1 DEF OpenRaises, viewDidLoadRaises, Crash, MenuFollowsPath
<1>11. CASE UNCHANGED vars
  <2>1. TypeOK'
    BY <1>11 DEF TypeOK, vars, menuVars, stackVars, nameVars
  <2>2. StacksFollowPath => StacksFollowPath'
    BY <1>11 DEF StacksFollowPath, vars, menuVars, stackVars, nameVars
  <2> QED
    BY <1>11, <2>1, <2>2 DEF MenuFollowsPath, MenuAt, ItemsAt, vars, menuVars, stackVars
<1> QED
  BY <1>1, <1>2, <1>3, <1>4, <1>5, <1>6, <1>7, <1>8, <1>9, <1>10, <1>11 DEF Next

\* The invariant holds on the home screen of a new launch.
LEMMA InitMenu == Init => MenuInv
<1> SUFFICES ASSUME Init PROVE MenuInv
  OBVIOUS
<1>0. /\ currentMenuItems \subseteq Texts
      /\ stackOfMenus \in Seq(SUBSET Texts)
      /\ stackOfIsSubclassBools \in Seq(BOOLEAN)
      /\ stackOfIsActualItemBools \in Seq(BOOLEAN)
      /\ path \in Seq(Texts)
  BY DEF Init, Closed
<1>1. TypeOK
  BY <1>0 DEF Init, Closed, TypeOK
<1> QED
  BY <1>1 DEF Init, Closed, MenuInv, MenuFollowsPath, NoItemsOffMenu

\* Every variable of the menu keeps its kind, and every menu is of texts.
THEOREM MenuTypesHold == Spec => []TypeOK
<1>1. Init => MenuInv
  BY InitMenu
<1>2. MenuInv => TypeOK
  BY DEF MenuInv
<1> QED
  BY <1>1, <1>2, MenuStep, PTL DEF Spec

\* The menu, its flags and its three stacks follow the user's path through
\* every sequence of taps and Backs (handleOneTap, flipBackMenuItems).
THEOREM MenuStaysOnPath == Spec => []MenuFollowsPath
<1>1. Init => MenuInv
  BY InitMenu
<1>2. MenuInv => MenuFollowsPath
  BY DEF MenuInv
<1> QED
  BY <1>1, <1>2, MenuStep, PTL DEF Spec

\* What OrderedIsTapped says of one step.
TappedStep ==
    isActualItems /\ screen' = "menu" /\ homeDB' = homeDB /\ path' = path =>
         \E row \in tblItems :
             /\ row.id = selectedItemId'
             /\ asString(row.name) = nameOfSelected'
             /\ asString(row.class) = path[1]
             /\ Len(path) = 2 => asString(row.subclass) = path[2]

\* A column that a text of the screen finds is shown as this text.
LEMMA FoundIsShown ==
    ASSUME UnmistakenTexts, NEW row \in tblItems, NEW text \in Texts
    PROVE  /\ Matches(row.class, text) => asString(row.class) = text
           /\ Matches(row.subclass, text) => asString(row.subclass) = text
           /\ Matches(row.name, text) => asString(row.name) = text
<1>1. \A column \in {row.class, row.subclass, row.name} \ {Null} : column \in Columns
  BY DEF Columns
<1>2. \A column : Matches(column, text) => column # Null
  BY DEF Matches
<1> QED
  BY <1>1, <1>2 DEF UnmistakenTexts

\* The only step that leaves a menu of items as it is, is a tap on an item.
LEMMA OrderingStep ==
    ASSUME UnmistakenTexts
    PROVE  MenuInv /\ [Next]_vars => [TappedStep]_vars
<1> SUFFICES ASSUME TypeOK, MenuFollowsPath, NoItemsOffMenu, Next,
                    isActualItems, screen' = "menu", homeDB' = homeDB, path' = path
             PROVE  \E row \in tblItems :
                        /\ row.id = selectedItemId'
                        /\ asString(row.name) = nameOfSelected'
                        /\ asString(row.class) = path[1]
                        /\ Len(path) = 2 => asString(row.subclass) = path[2]
  BY DEF MenuInv, TappedStep
<1>1. screen = "menu"
  BY DEF NoItemsOffMenu
<1>2. ~flipBackMenuItems
  <2> SUFFICES ASSUME flipBackMenuItems PROVE FALSE
    OBVIOUS
  <2>1. path \in Seq(Texts) /\ path' = Front(path) /\ StacksFollowPath
    BY <1>1 DEF flipBackMenuItems, TypeOK, MenuFollowsPath
  <2>2. Len(path) \in Nat /\ Len(path) > 0
    <3>1. stackOfMenus \in Seq(SUBSET Texts) /\ stackOfMenus # <<>>
      BY DEF flipBackMenuItems, TypeOK
    <3>2. Len(stackOfMenus) = Len(path)
      BY <2>1 DEF StacksFollowPath
    <3> QED
      BY <3>1, <3>2
  <2>3. Len(path') = Len(path) - 1
    BY <2>1, <2>2, FrontProperties, Zenon
  <2> QED
    BY <2>2, <2>3
<1>3. PICK name \in currentMenuItems : TapItem(name)
  BY <1>1, <1>2 DEF Next, Open, OpenRaises, viewDidLoadRaises, GoHome, Relaunch,
                    LoseConnection, TapClass, TapSubclass, TapNothing, Crash, TypeOK
<1>4. /\ nameOfSelected' = name
      /\ selectedItemId' \in itemIdWhereClassIs(homeDB, classNameForDatabase,
                                                subclassNameForDatabase, name)
  BY <1>3 DEF TapItem, Crash
<1>5. PICK row \in OfClass(homeDB, classNameForDatabase) :
            /\ row.id = selectedItemId'
            /\ subclassNameForDatabase # Nil => Matches(row.subclass, subclassNameForDatabase)
            /\ Matches(row.name, name)
  BY <1>4 DEF itemIdWhereClassIs
<1>6. row \in tblItems /\ Matches(row.class, classNameForDatabase) /\ homeDB
  BY <1>5 DEF OfClass, Rows
<1>7. Len(path) \in {1, 2} /\ classNameForDatabase = path[1]
  <2>1. ItemsAt(Len(path), path)
    BY <1>1, <1>6 DEF MenuFollowsPath
  <2>2. Len(path) = 1 \/ Len(path) = 2
    BY <2>1 DEF ItemsAt
  <2> QED
    BY <1>1, <2>2 DEF MenuFollowsPath, StacksFollowPath
<1>8. name \in Texts /\ path[1] \in Texts /\ (Len(path) = 2 => path[2] \in Texts)
  <2>1. path \in Seq(Texts) /\ currentMenuItems \subseteq Texts
    BY DEF TypeOK
  <2> QED
    BY <1>7, <2>1
<1>9. Len(path) = 2 => Matches(row.subclass, path[2])
  <2> SUFFICES ASSUME Len(path) = 2 PROVE Matches(row.subclass, path[2])
    OBVIOUS
  <2>1. subclassNameForDatabase = path[2]
    BY <1>1 DEF MenuFollowsPath, StacksFollowPath
  <2>2. path[2] # Nil
    BY <1>8, MenuAssumption
  <2> QED
    BY <1>5, <2>1, <2>2
<1>10. asString(row.name) = name /\ asString(row.class) = path[1]
  BY <1>5, <1>6, <1>7, <1>8, FoundIsShown
<1>11. Len(path) = 2 => asString(row.subclass) = path[2]
  BY <1>6, <1>8, <1>9, FoundIsShown
<1> QED
  BY <1>4, <1>5, <1>6, <1>10, <1>11

\* A tap orders an item of the tapped name, class and subclass, if no text of
\* the screen is taken for another column.
THEOREM TapOrdersWhatItNames ==
    ASSUME UnmistakenTexts
    PROVE  Spec => OrderedIsTapped
<1>1. Init => MenuInv
  BY InitMenu
<1>2. MenuInv /\ [Next]_vars => [TappedStep]_vars
  BY OrderingStep
<1> QED
  BY <1>1, <1>2, MenuStep, PTL DEF Spec, OrderedIsTapped, TappedStep

-----------------------------------------------------------------------------
(* Why a tap fails. *)

\* The causes that TapsFailForCause names.
Cause ==
    \/ tblItems = {}
    \/ \E i \in DOMAIN path : path[i] \in LostTexts
    \/ currentMenuItems \cap LostTexts # {}
    \/ Len(path) = 2 /\ SharedSubclass(path[1], path[2])
    \/ Len(path) = 1 /\ LeftOverSubclass(path[1], subclassNameForDatabase)

\* What is needed beyond MenuInv: the path leads through cells that were on
\* show, and so did the one that left the subclass behind.
SubclassShown(class, subclass) ==
    /\ ~HasOneSubclass(TRUE, class)
    /\ subclass \in {asString(s) : s \in subclassWhereClassIs(TRUE, class)}

PathOnShow ==
    screen = "menu" /\ homeDB =>
        /\ Len(path) > 0 => path[1] \in classNames(TRUE)
        /\ Len(path) = 2 => path[2] \in MenuAt(1, path)
        /\ subclassNameForDatabase # Nil =>
             \E class \in classNames(TRUE) : SubclassShown(class, subclassNameForDatabase)

\* A text that is not lost finds each column it is shown for.
LEMMA ShownIsFound ==
    ASSUME NEW row \in tblItems
    PROVE  /\ asString(row.class) \notin LostTexts => Matches(row.class, asString(row.class))
           /\ asString(row.subclass) \notin LostTexts =>
                Matches(row.subclass, asString(row.subclass))
           /\ asString(row.name) \notin LostTexts => Matches(row.name, asString(row.name))
<1>1. {row.class, row.subclass, row.name} \subseteq Columns \cup {Null}
  BY DEF Columns
<1>2. \A column \in Columns \cup {Null} :
        asString(column) \notin LostTexts => Matches(column, asString(column))
  BY DEF LostTexts
<1> QED
  BY <1>1, <1>2

\* Without a cause no menu is empty and every item on show is found.
LEMMA ItemsFound ==
    ASSUME MenuInv, PathOnShow, screen = "menu", homeDB, ~Cause
    PROVE  /\ currentMenuItems # {}
           /\ isActualItems =>
                \A name \in currentMenuItems :
                    itemIdWhereClassIs(homeDB, classNameForDatabase,
                                       subclassNameForDatabase, name) # {}
<1> USE DEF MenuInv
<1>0. homeDB = TRUE /\ path \in Seq(Texts)
  BY DEF TypeOK
<1>1. /\ currentMenuItems = MenuAt(Len(path), path)
      /\ (isActualItems <=> ItemsAt(Len(path), path))
      /\ StacksFollowPath
      /\ \A i \in 1..Len(path) : ~ItemsAt(i - 1, path)
  BY DEF MenuFollowsPath
<1>2. Len(path) \in {0, 1, 2}
  BY <1>0, <1>1 DEF StacksFollowPath
<1>3. CASE Len(path) = 0
  <2>1. ~isActualItems /\ currentMenuItems = classNames(TRUE)
    BY <1>1, <1>3, MenusAlongPath
  <2>2. classNames(TRUE) # {}
    BY DEF Cause, classNames, Rows
  <2> QED
    BY <2>1, <2>2
<1>4. ASSUME Len(path) \in {1, 2}
      PROVE  \E row \in tblItems : asString(row.class) = path[1] /\ Matches(row.class, path[1])
  <2>1. path[1] \in classNames(TRUE)
    <3>1. Len(path) > 0
      BY <1>4
    <3> QED
      BY <3>1, Zenon DEF PathOnShow
  <2>2. path[1] \notin LostTexts
    BY <1>0, <1>4 DEF Cause
  <2>3. PICK row \in tblItems : asString(row.class) = path[1]
    BY <2>1 DEF classNames, Rows
  <2> QED
    BY <2>2, <2>3, ShownIsFound
<1>5. CASE Len(path) = 1
  <2>1. PICK row \in OfClass(TRUE, path[1]) : TRUE
    BY <1>4, <1>5 DEF OfClass, Rows
  <2>2. classNameForDatabase = path[1]
    BY <1>1, <1>5 DEF StacksFollowPath
  <2>3. CASE HasOneSubclass(TRUE, path[1])
    <3>1. currentMenuItems = itemsWhereClassIs(TRUE, path[1])
      BY <1>1, <1>5, <2>3, MenusAlongPath
    <3>2. currentMenuItems # {}
      BY <2>1, <3>1 DEF itemsWhereClassIs
    <3>3. subclassNameForDatabase = Nil
      BY <1>5, <2>3 DEF PathOnShow, SubclassShown, Cause, LeftOverSubclass
    <3>4. ASSUME NEW name \in currentMenuItems
          PROVE  itemIdWhereClassIs(TRUE, path[1], Nil, name) # {}
      <4>1. PICK item \in OfClass(TRUE, path[1]) : asString(item.name) = name
        BY <3>1 DEF itemsWhereClassIs
      <4>2. item \in tblItems
        BY DEF OfClass, Rows
      <4>3. name \notin LostTexts
        BY DEF Cause
      <4>4. Matches(item.name, name)
        BY <4>1, <4>2, <4>3, ShownIsFound
      <4> QED
        BY <4>4 DEF itemIdWhereClassIs
    <3> QED
      BY <1>0, <2>2, <3>2, <3>3, <3>4
  <2>4. CASE ~HasOneSubclass(TRUE, path[1])
    <3>1. ~isActualItems
      BY <1>1, <1>5, <2>4, MenusAlongPath
    <3>2. currentMenuItems = {asString(s) : s \in subclassWhereClassIs(TRUE, path[1])}
      BY <1>1, <1>5, <2>4, MenusAlongPath
    <3>3. currentMenuItems # {}
      BY <2>1, <3>2 DEF subclassWhereClassIs
    <3> QED
      BY <3>1, <3>3
  <2> QED
    BY <2>3, <2>4
<1>6. CASE Len(path) = 2
  <2>1. ~HasOneSubclass(TRUE, path[1])
    <3>1. ~ItemsAt(1, path)
      BY <1>1, <1>6
    <3> QED
      BY <3>1, MenusAlongPath
  <2>2. path[2] \in {asString(s) : s \in subclassWhereClassIs(TRUE, path[1])}
    <3>1. path[2] \in MenuAt(1, path)
      BY <1>6 DEF PathOnShow
    <3> QED
      BY <2>1, <3>1, MenusAlongPath
  <2>3. path[2] \notin LostTexts
    BY <1>0, <1>6 DEF Cause
  <2>4. PICK row \in tblItems : Matches(row.subclass, path[2])
    <3>1. PICK row \in tblItems : asString(row.subclass) = path[2]
      BY <2>2 DEF subclassWhereClassIs, OfClass, Rows
    <3> QED
      BY <2>3, <3>1, ShownIsFound
  <2>5. currentMenuItems = itemsWhereSubclassIs(TRUE, path[2])
    BY <1>1, <1>6, MenusAlongPath
  <2>6. currentMenuItems # {}
    BY <2>4, <2>5 DEF itemsWhereSubclassIs, Rows
  <2>7. classNameForDatabase = path[1] /\ subclassNameForDatabase = path[2]
    BY <1>1, <1>6 DEF StacksFollowPath
  <2>8. ASSUME NEW name \in currentMenuItems
        PROVE  itemIdWhereClassIs(TRUE, path[1], path[2], name) # {}
    <3>1. PICK item \in tblItems :
                Matches(item.subclass, path[2]) /\ asString(item.name) = name
      BY <2>5 DEF itemsWhereSubclassIs, Rows
    <3>2. Matches(item.class, path[1])
      BY <1>6, <3>1 DEF Cause, SharedSubclass
    <3>3. name \notin LostTexts
      BY DEF Cause
    <3>4. Matches(item.name, name)
      BY <3>1, <3>3, ShownIsFound
    <3> QED
      BY <3>1, <3>2, <3>4 DEF itemIdWhereClassIs, OfClass, Rows
  <2> QED
    BY <1>0, <2>6, <2>7, <2>8
<1> QED
  BY <1>2, <1>3, <1>5, <1>6

\* The path leads through what is on show, one step at a time.
LEMMA PathStep == MenuInv /\ PathOnShow /\ [Next]_vars => PathOnShow'
<1> SUFFICES ASSUME TypeOK, MenuFollowsPath, PathOnShow, [Next]_vars, screen' = "menu", homeDB'
             PROVE  PathOnShow'
  BY DEF MenuInv, PathOnShow
<1>1. CASE Open
  BY <1>1 DEF Open, NewMenu, PathOnShow
<1>2. CASE OpenRaises \/ GoHome \/ Relaunch \/ TapNothing
  BY <1>2 DEF OpenRaises, viewDidLoadRaises, GoHome, Relaunch, TapNothing, Crash
<1>3. CASE LoseConnection
  BY <1>3 DEF LoseConnection
<1>4. CASE \E name \in currentMenuItems : TapClass(name)
  <2> PICK name \in currentMenuItems : TapClass(name)
    BY <1>4
  <2>1. Len(path) = 0 /\ path \in Seq(Texts) /\ name \in Texts
    BY DEF TapClass, MenuFollowsPath, StacksFollowPath, TypeOK
  <2>2. Len(path') = 1 /\ path'[1] = name
    BY <2>1, PushProperties DEF TapClass
  <2>3. homeDB /\ screen = "menu" /\ subclassNameForDatabase' = subclassNameForDatabase
    BY DEF TapClass, TypeOK
  <2>4. name \in classNames(TRUE)
    BY <2>1, <2>3, MenusAlongPath DEF MenuFollowsPath
  <2>5. Len(path') # 2
    BY <2>2
  <2> QED
    BY <2>2, <2>3, <2>4, <2>5 DEF PathOnShow
<1>5. CASE \E name \in currentMenuItems : TapSubclass(name)
  <2> PICK name \in currentMenuItems : TapSubclass(name)
    BY <1>5
  <2>0. path \in Seq(Texts) /\ name \in Texts /\ screen = "menu" /\ homeDB
    BY DEF TapSubclass, TypeOK
  <2>1. Len(path) = 1
    BY <2>0 DEF TapSubclass, MenuFollowsPath, StacksFollowPath, TypeOK
  <2>2. Len(path') = 2 /\ path'[1] = path[1] /\ path'[2] = name
    BY <2>0, <2>1, PushProperties DEF TapSubclass
  <2>3. name \in MenuAt(1, path) /\ MenuAt(1, path') = MenuAt(1, path)
    BY <2>0, <2>1, <2>2, MenusAlongPath DEF MenuFollowsPath
  <2>4. ~HasOneSubclass(TRUE, path[1])
    BY <2>0, <2>1, MenusAlongPath DEF MenuFollowsPath, TapSubclass
  <2>5. path[1] \in classNames(TRUE)
    <3>1. Len(path) > 0
      BY <2>1
    <3> QED
      BY <2>0, <3>1, Zenon DEF PathOnShow
  <2>6. SubclassShown(path[1], name)
    BY <2>3, <2>4, MenusAlongPath DEF SubclassShown
  <2>7. subclassNameForDatabase' = name
    BY DEF TapSubclass
  <2> QED
    BY <2>2, <2>3, <2>5, <2>6, <2>7 DEF PathOnShow
<1>6. CASE \E name \in currentMenuItems : TapItem(name)
  <2> PICK name \in currentMenuItems : TapItem(name)
    BY <1>6
  <2>1. UNCHANGED <<screen, homeDB, path, subclassNameForDatabase>>
    BY DEF TapItem, Crash, menuVars
  <2> QED
    BY <2>1 DEF PathOnShow
<1>7. CASE flipBackMenuItems
  <2>0. path \in Seq(Texts) /\ screen = "menu" /\ StacksFollowPath
    BY <1>7 DEF flipBackMenuItems, TypeOK, MenuFollowsPath
  <2>1. Len(path) \in {1, 2}
    <3>1. stackOfMenus \in Seq(SUBSET Texts) /\ stackOfMenus # <<>>
      BY <1>7 DEF flipBackMenuItems, TypeOK
    <3>2. Len(stackOfMenus) = Len(path) /\ Len(path) <= 2
      BY <2>0 DEF StacksFollowPath
    <3> QED
      BY <3>1, <3>2
  <2>2. path' = Front(path)
    BY <1>7 DEF flipBackMenuItems
  <2>3. Len(path') = Len(path) - 1 /\ \A i \in 1..(Len(path) - 1) : path'[i] = path[i]
    <3>1. Len(path) > 0
      BY <2>1
    <3> QED
      BY <2>0, <2>2, <3>1, FrontProperties, Zenon
  <2>4. homeDB' = homeDB /\ subclassNameForDatabase' = subclassNameForDatabase
    BY <1>7 DEF flipBackMenuItems, nameVars
  <2>5. Len(path') > 0 => path'[1] = path[1] /\ Len(path) > 0
    BY <2>1, <2>3
  <2>6. Len(path') # 2
    BY <2>1, <2>3
  <2> QED
    BY <2>0, <2>4, <2>5, <2>6 DEF PathOnShow
<1>8. CASE UNCHANGED vars
  BY <1>8 DEF vars, menuVars, nameVars, PathOnShow
<1> QED
  BY <1>1, <1>2, <1>3, <1>4, <1>5, <1>6, <1>7, <1>8 DEF Next

\* What TapsFailForCause says of one step.
FailingStep == screen = "menu" /\ screen' = "crashed" /\ homeDB => Cause

LEMMA FailureHasCause == MenuInv /\ PathOnShow /\ [Next]_vars => [FailingStep]_vars
<1> SUFFICES ASSUME MenuInv, PathOnShow, Next, screen = "menu", screen' = "crashed",
                    homeDB, ~Cause
             PROVE  FALSE
  BY DEF FailingStep
<1>1. CASE TapNothing
  BY <1>1, ItemsFound DEF TapNothing
<1>2. CASE \E name \in currentMenuItems : TapItem(name)
  <2> PICK name \in currentMenuItems : TapItem(name)
    BY <1>2
  <2>1. isActualItems
    BY DEF TapItem
  <2>2. itemIdWhereClassIs(homeDB, classNameForDatabase,
                           subclassNameForDatabase, name) # {}
    BY <2>1, ItemsFound
  <2> QED
    BY <2>2 DEF TapItem
<1> QED
  BY <1>1, <1>2 DEF Next, Open, OpenRaises, GoHome, Relaunch, LoseConnection, TapClass,
                    TapSubclass, flipBackMenuItems

\* For any items table, and whatever was visited before, a tap that ends the app
\* with the connection up does so for a cause of TapsFailForCause.
THEOREM FailuresHaveCauses == Spec => TapsFailForCause
<1>1. Init => MenuInv /\ PathOnShow
  <2>1. Init => MenuInv
    BY InitMenu
  <2> QED
    BY <2>1 DEF Init, PathOnShow
<1> QED
  BY <1>1, MenuStep, PathStep, FailureHasCause, PTL
     DEF Spec, TapsFailForCause, FailingStep, Cause

-----------------------------------------------------------------------------
(* The tables. *)

\* Every controller has the order and the number of its table.
OrdersFollowTables ==
    /\ \A table \in DOMAIN quickServeDictionary :
         /\ {"order", "tableNumber"} \subseteq DOMAIN quickServeDictionary[table]
         /\ quickServeDictionary[table].order = table
         /\ quickServeDictionary[table].tableNumber = table
    /\ serving = Nil => order = Quick
    /\ serving # Nil => serving \in DOMAIN quickServeDictionary /\ order = serving
    /\ tableNumber = serving
    /\ screen # "menu" => serving = Nil

\* What is in an order was tapped for its table; nothing was, for a free one.
OrdersFollowTaps ==
    /\ orders \in [Orders -> SUBSET Ids]
    /\ tapped \in [Tables -> SUBSET Ids]
    /\ \A table \in DOMAIN quickServeDictionary : orders[table] = tapped[table]
    /\ \A table \in Tables \ DOMAIN quickServeDictionary : tapped[table] = {}

TableInv ==
    /\ DOMAIN quickServeDictionary \subseteq Tables
    /\ listOfTables \subseteq {TextOf(table) : table \in Tables}
    /\ FreeOrOccupied
    /\ OrdersFollowTables
    /\ OrdersFollowTaps

-----------------------------------------------------------------------------
\* A table number and its text.
LEMMA TextIsOfOneTable ==
    \A s, t : /\ TextOf(s) = TextOf(t) => s = t
              /\ integerValue(TextOf(t)) = t
BY DEF TextOf, integerValue

\* With no table occupied the invariant holds.
LEMMA FreshIsInv == ASSUME Fresh PROVE TableInv
<1>1. DOMAIN quickServeDictionary = {}
  BY DEF Fresh
<1>2. listOfTables = {TextOf(table) : table \in Tables}
  BY DEF Fresh
<1>3. FreeOrOccupied
  BY <1>1, <1>2 DEF FreeOrOccupied
<1>4. OrdersFollowTables
  BY <1>1 DEF OrdersFollowTables, Fresh
<1>5. OrdersFollowTaps
  BY <1>1 DEF OrdersFollowTaps, Fresh, Orders
<1> QED
  BY <1>1, <1>2, <1>3, <1>4, <1>5 DEF TableInv

\* The end of the app is such a state.
LEMMA LosingTables == ASSUME LoseTables PROVE TableInv'
<1>1. Fresh'
  BY DEF LoseTables, Fresh
<1>2. DOMAIN quickServeDictionary' = {}
  BY <1>1 DEF Fresh
<1>3. listOfTables' = {TextOf(table) : table \in Tables}
  BY <1>1 DEF Fresh
<1>4. FreeOrOccupied'
  BY <1>2, <1>3 DEF FreeOrOccupied
<1>5. OrdersFollowTables'
  BY <1>1, <1>2 DEF OrdersFollowTables, Fresh
<1>6. OrdersFollowTaps'
  BY <1>1, <1>2 DEF OrdersFollowTaps, Fresh, Orders
<1> QED
  BY <1>2, <1>3, <1>4, <1>5, <1>6 DEF TableInv

\* A step that stays on the menu, or between the other screens.
LEMMA TablesUnchanged ==
    ASSUME TableInv,
           UNCHANGED <<listOfTables, quickServeDictionary, order, tableNumber, orders,
                       serving, tapped>>,
           screen' # "menu" => serving = Nil
    PROVE  TableInv'
<1>1. FreeOrOccupied'
  BY DEF TableInv, FreeOrOccupied
<1>2. OrdersFollowTables'
  BY DEF TableInv, OrdersFollowTables
<1>3. OrdersFollowTaps'
  BY DEF TableInv, OrdersFollowTaps
<1> QED
  BY <1>1, <1>2, <1>3 DEF TableInv

\* A free table becomes occupied, with a new order.
LEMMA FreeTableSelected ==
    ASSUME TableInv, NEW text \in listOfTables, SelectFreeTable(text)
    PROVE  TableInv'
<1>1. PICK number \in Tables : text = TextOf(number)
  BY DEF TableInv
<1>2. integerValue(text) = number
  BY <1>1, TextIsOfOneTable
<1>3. number \notin DOMAIN quickServeDictionary
  BY <1>1 DEF TableInv, FreeOrOccupied
<1>4. /\ DOMAIN quickServeDictionary' = DOMAIN quickServeDictionary \cup {number}
      /\ \A table \in DOMAIN quickServeDictionary :
           quickServeDictionary'[table] = quickServeDictionary[table]
      /\ quickServeDictionary'[number] = Controller'
  BY <1>2, <1>3 DEF SelectFreeTable
<1>5. listOfTables' = listOfTables \ {TextOf(number)}
  BY <1>2 DEF SelectFreeTable, removeObject
<1>6. /\ screen' = "menu" /\ serving' = number /\ tableNumber' = number /\ order' = number
      /\ orders' = [orders EXCEPT ![number] = {}] /\ tapped' = tapped
  BY <1>2 DEF SelectFreeTable
<1>7. FreeOrOccupied'
  BY <1>4, <1>5, TextIsOfOneTable DEF TableInv, FreeOrOccupied
<1>8. /\ {"order", "tableNumber"} \subseteq DOMAIN Controller'
      /\ Controller'.order = order' /\ Controller'.tableNumber = tableNumber'
  BY DEF Controller
<1>9. OrdersFollowTables'
  BY <1>3, <1>4, <1>6, <1>8, TablesAssumption DEF TableInv, OrdersFollowTables
<1>10. OrdersFollowTaps'
  BY <1>1, <1>3, <1>4, <1>6 DEF TableInv, OrdersFollowTaps, Orders
<1> QED
  BY <1>1, <1>4, <1>5, <1>7, <1>9, <1>10 DEF TableInv

\* A reopened table is given its own order back.
LEMMA OccupiedTableSelected ==
    ASSUME TableInv, NEW number \in DOMAIN quickServeDictionary, SelectOccupiedTable(number)
    PROVE  TableInv'
<1>1. /\ screen' = "menu" /\ serving' = number
      /\ order' = quickServeDictionary[number].order
      /\ tableNumber' = quickServeDictionary[number].tableNumber
      /\ UNCHANGED <<listOfTables, quickServeDictionary, orders, tapped>>
  BY DEF SelectOccupiedTable, shareOrder
<1>2. OrdersFollowTables'
  BY <1>1, TablesAssumption DEF TableInv, OrdersFollowTables
<1>3. OrdersFollowTaps'
  BY <1>1 DEF TableInv, OrdersFollowTaps
<1> QED
  BY <1>1, <1>2, <1>3 DEF TableInv, FreeOrOccupied

\* What is left behind has the order it had.
LEMMA MenuLeft ==
    ASSUME TableInv, NEW to, LeaveMenu(to) PROVE TableInv'
<1>1. /\ serving' = Nil /\ order' = Quick /\ tableNumber' = Nil
      /\ UNCHANGED <<listOfTables, orders, tapped>>
  BY DEF LeaveMenu
<1>2. \/ quickServeDictionary' = quickServeDictionary
      \/ /\ serving # Nil
         /\ quickServeDictionary' = [quickServeDictionary EXCEPT ![serving] = Controller]
      \/ /\ serving # Nil
         /\ quickServeDictionary' =
              [quickServeDictionary EXCEPT
                 ![serving].stackOfMenus = stackOfMenus,
                 ![serving].stackOfIsSubclassBools = stackOfIsSubclassBools,
                 ![serving].stackOfIsActualItemBools = stackOfIsActualItemBools]
  BY DEF LeaveMenu
<1>3. DOMAIN quickServeDictionary' = DOMAIN quickServeDictionary
  BY <1>2
<1>4. \A table \in DOMAIN quickServeDictionary :
        /\ {"order", "tableNumber"} \subseteq DOMAIN quickServeDictionary'[table]
        /\ quickServeDictionary'[table].order = table
        /\ quickServeDictionary'[table].tableNumber = table
  <2>1. CASE quickServeDictionary' = quickServeDictionary
    BY <2>1 DEF TableInv, OrdersFollowTables
  <2>2. CASE /\ serving # Nil
             /\ quickServeDictionary' = [quickServeDictionary EXCEPT ![serving] = Controller]
    <3>1. /\ {"order", "tableNumber"} \subseteq DOMAIN Controller
          /\ Controller.order = order /\ Controller.tableNumber = tableNumber
      BY DEF Controller
    <3> QED
      BY <2>2, <3>1 DEF TableInv, OrdersFollowTables
  <2>3. CASE /\ serving # Nil
             /\ quickServeDictionary' =
                  [quickServeDictionary EXCEPT
                     ![serving].stackOfMenus = stackOfMenus,
                     ![serving].stackOfIsSubclassBools = stackOfIsSubclassBools,
                     ![serving].stackOfIsActualItemBools = stackOfIsActualItemBools]
    <3> SUFFICES ASSUME NEW table \in DOMAIN quickServeDictionary
                 PROVE  /\ {"order", "tableNumber"} \subseteq DOMAIN quickServeDictionary'[table]
                        /\ quickServeDictionary'[table].order = quickServeDictionary[table].order
                        /\ quickServeDictionary'[table].tableNumber =
                             quickServeDictionary[table].tableNumber
      BY DEF TableInv, OrdersFollowTables
    <3>1. {"order", "tableNumber"} \subseteq DOMAIN quickServeDictionary[table]
      BY DEF TableInv, OrdersFollowTables
    <3> QED
      BY <2>3, <3>1
  <2> QED
    BY <1>2, <2>1, <2>2, <2>3
<1>5. FreeOrOccupied'
  BY <1>1, <1>3 DEF TableInv, FreeOrOccupied
<1>6. OrdersFollowTables'
  BY <1>1, <1>3, <1>4 DEF OrdersFollowTables
<1>7. OrdersFollowTaps'
  BY <1>1, <1>3 DEF TableInv, OrdersFollowTaps
<1> QED
  BY <1>1, <1>3, <1>5, <1>6, <1>7 DEF TableInv

\* A tapped item goes to the order of the open table and to no other.
LEMMA ItemTapped ==
    ASSUME TableInv, NEW name, TapItemOfTable(name)
    PROVE  TableInv'
<1>1. CASE screen' = "crashed" /\ LoseTables
  BY <1>1, LosingTables
<1>2. CASE ~(screen' = "crashed" /\ LoseTables)
  <2>1. /\ screen' = "menu" /\ screen = "menu"
        /\ orders' = [orders EXCEPT ![order] = @ \cup {selectedItemId'}]
        /\ tapped' = IF serving = Nil THEN tapped
                     ELSE [tapped EXCEPT ![serving] = @ \cup {selectedItemId'}]
        /\ UNCHANGED <<listOfTables, quickServeDictionary, order, tableNumber, serving>>
    BY <1>2 DEF TapItemOfTable, TapItem
  <2>2. selectedItemId' \in Ids
    <3>1. selectedItemId' \in itemIdWhereClassIs(homeDB, classNameForDatabase,
                                                 subclassNameForDatabase, name)
      BY <2>1 DEF TapItemOfTable, TapItem, Crash
    <3> QED
      BY <3>1 DEF itemIdWhereClassIs, OfClass, Rows, Ids
  <2>3. OrdersFollowTables'
    BY <2>1 DEF TableInv, OrdersFollowTables
  <2>4. OrdersFollowTaps'
    <3>1. CASE serving = Nil
      BY <2>1, <2>2, <3>1, TablesAssumption
      DEF TableInv, OrdersFollowTables, OrdersFollowTaps, Orders
    <3>2. CASE serving # Nil
      BY <2>1, <2>2, <3>2 DEF TableInv, OrdersFollowTables, OrdersFollowTaps, Orders
    <3> QED
      BY <3>1, <3>2
  <2> QED
    BY <2>1, <2>3, <2>4 DEF TableInv, FreeOrOccupied
<1> QED
  BY <1>1, <1>2

\* A menu of no table starts an order of its own.
LEMMA QuickServed == ASSUME TableInv, QuickServe PROVE TableInv'
<1>1. /\ screen' = "menu" /\ orders' = [orders EXCEPT ![Quick] = {}]
      /\ UNCHANGED <<listOfTables, quickServeDictionary, order, tableNumber, serving, tapped>>
  BY DEF QuickServe, Open
<1>2. OrdersFollowTables'
  BY <1>1 DEF TableInv, OrdersFollowTables
<1>3. OrdersFollowTaps'
  BY <1>1, TablesAssumption DEF TableInv, OrdersFollowTaps, Orders
<1> QED
  BY <1>1, <1>2, <1>3 DEF TableInv, FreeOrOccupied

-----------------------------------------------------------------------------
\* TableInv is inductive: one case per action.
LEMMA TableInvStep == TableInv /\ [TablesNext]_tablesVars => TableInv'
<1> SUFFICES ASSUME TableInv, [TablesNext]_tablesVars PROVE TableInv'
  OBVIOUS
<1>0. screen # "menu" => serving = Nil
  BY DEF TableInv, OrdersFollowTables
<1>1. CASE PickTable \/ ShowTables \/ LeaveList
  BY <1>0, <1>1, TablesUnchanged DEF PickTable, ShowTables, LeaveList, tableVars
<1>2. CASE QuickServe
  BY <1>2, QuickServed
<1>3. CASE \E text \in listOfTables : SelectFreeTable(text)
  BY <1>3, FreeTableSelected
<1>4. CASE \E number \in DOMAIN quickServeDictionary : SelectOccupiedTable(number)
  BY <1>4, OccupiedTableSelected
<1>5. CASE \E to \in {from, "home"} : LeaveMenu(to)
  BY <1>5, MenuLeft
<1>6. ASSUME NEW name, TapMenu(name) PROVE TableInv'
  BY <1>6, <1>0, TablesUnchanged DEF TapMenu, TapClass, TapSubclass, tableVars
<1>7. ASSUME NEW name, TapItemOfTable(name) PROVE TableInv'
  BY <1>7, ItemTapped
<1>8. CASE FlipBack
  BY <1>8, <1>0, TablesUnchanged DEF FlipBack, flipBackMenuItems, tableVars
<1>9. CASE TapEmptyMenu
  BY <1>9, LosingTables DEF TapEmptyMenu
<1>10. CASE MenuRaises
  BY <1>10, LosingTables DEF MenuRaises
<1>11. CASE (Relaunch \/ LoseConnection) /\ UNCHANGED tableVars
  BY <1>11, <1>0, TablesUnchanged DEF Relaunch, LoseConnection, tableVars
<1>12. CASE UNCHANGED tablesVars
  BY <1>12, <1>0, TablesUnchanged DEF tablesVars, tableVars, vars
<1> QED
  BY <1>1, <1>2, <1>3, <1>4, <1>5, <1>6, <1>7, <1>8, <1>9, <1>10, <1>11, <1>12
     DEF TablesNext

\* TableInv holds in every state.
LEMMA TableInvHolds == TablesSpec => []TableInv
<1>1. TablesInit => TableInv
  BY FreshIsInv DEF TablesInit
<1> QED
  BY <1>1, TableInvStep, PTL DEF TablesSpec

\* PickTableNumberCollectionController.m 94-97: a table is never in the list
\* of free tables and in the dictionary, and never in neither.
THEOREM TablesAreFreeOrOccupied == TablesSpec => []FreeOrOccupied
<1>1. TableInv => FreeOrOccupied
  BY DEF TableInv
<1> QED
  BY <1>1, TableInvHolds, PTL

\* The order of a table has what was tapped for that table, through every
\* leaving and reopening of it and of others (OccupiedTableCollection-
\* ViewController.m 87-115).
THEOREM TablesKeepTheirOrders == TablesSpec => []TableKeepsItsOrder
<1>1. TableInv => TableKeepsItsOrder
  BY DEF TableInv, OrdersFollowTables, OrdersFollowTaps, TableKeepsItsOrder
<1> QED
  BY <1>1, TableInvHolds, PTL
-----------------------------------------------------------------------------
(* The kinds of values, of the controller on screen and of every kept one. *)

SameDepth(menus, subclassBools, actualBools) ==
    Len(subclassBools) = Len(menus) /\ Len(actualBools) = Len(menus)

\* The flags of a level are there whenever its menu is: Back takes all three.
ScreenTyped ==
    /\ currentMenuItems \in SUBSET Texts /\ isSubclass \in BOOLEAN /\ isActualItems \in BOOLEAN
    /\ nameOfSelected \in Texts \cup {Nil} /\ classNameForDatabase \in Texts \cup {Nil}
    /\ subclassNameForDatabase \in Texts \cup {Nil} /\ selectedItemId \in Ids \cup {Nil}
    /\ stackOfMenus \in Seq(SUBSET Texts)
    /\ stackOfIsSubclassBools \in Seq(BOOLEAN)
    /\ stackOfIsActualItemBools \in Seq(BOOLEAN)
    /\ SameDepth(stackOfMenus, stackOfIsSubclassBools, stackOfIsActualItemBools)

KeptTyped(c) ==
    /\ c \in Controllers
    /\ SameDepth(c.stackOfMenus, c.stackOfIsSubclassBools, c.stackOfIsActualItemBools)

TypeInv ==
    /\ screen \in {"home", "pick", "tables", "menu", "crashed"}
    /\ homeDB \in BOOLEAN
    /\ ScreenTyped
    /\ \A table \in DOMAIN quickServeDictionary : KeptTyped(quickServeDictionary[table])
    /\ pickMenu \in SUBSET Texts
    /\ from \in {"home", "pick", "tables"}
    /\ kept \in BOOLEAN

\* A new controller.
LEMMA NewScreenTyped ==
    ASSUME NEW items \in SUBSET Texts, NewMenu(items) PROVE ScreenTyped'
<1>1. /\ currentMenuItems' \in SUBSET Texts
      /\ isSubclass' = FALSE /\ isActualItems' = FALSE
      /\ nameOfSelected' = Nil /\ classNameForDatabase' = Nil
      /\ subclassNameForDatabase' = Nil /\ selectedItemId' = Nil
  BY DEF NewMenu
<1>2. /\ stackOfMenus' = <<>> /\ stackOfIsSubclassBools' = <<>>
      /\ stackOfIsActualItemBools' = <<>>
  BY DEF NewMenu
<1>3. /\ stackOfMenus' \in Seq(SUBSET Texts)
      /\ stackOfIsSubclassBools' \in Seq(BOOLEAN)
      /\ stackOfIsActualItemBools' \in Seq(BOOLEAN)
  BY <1>2
<1>4. SameDepth(stackOfMenus', stackOfIsSubclassBools', stackOfIsActualItemBools')
  BY <1>2 DEF SameDepth
<1> QED
  BY <1>1, <1>3, <1>4 DEF ScreenTyped

\* A controller with the fields of another.
LEMMA CopiedScreenTyped ==
    ASSUME NEW c, KeptTyped(c), CopyMenu(c), shareStacks(c) PROVE ScreenTyped'
BY DEF KeptTyped, CopyMenu, shareStacks, ScreenTyped, Controllers

\* savePreviousState puts one level on each stack.
LEMMA PushedScreenTyped ==
    ASSUME ScreenTyped, savePreviousState
    PROVE  /\ stackOfMenus' \in Seq(SUBSET Texts)
           /\ stackOfIsSubclassBools' \in Seq(BOOLEAN)
           /\ stackOfIsActualItemBools' \in Seq(BOOLEAN)
           /\ SameDepth(stackOfMenus', stackOfIsSubclassBools', stackOfIsActualItemBools')
BY DEF ScreenTyped, savePreviousState, SameDepth

LEMMA TappedScreenTyped ==
    ASSUME ScreenTyped, homeDB \in BOOLEAN, NEW name \in currentMenuItems,
           TapClass(name) \/ TapSubclass(name)
    PROVE  ScreenTyped' /\ homeDB' \in BOOLEAN
<1>1. name \in Texts
  BY DEF ScreenTyped
<1>2. CASE TapClass(name)
  <2>1. currentMenuItems' \in SUBSET Texts /\ isActualItems' \in BOOLEAN
    <3>1. CASE HasOneSubclass(homeDB, name)
      BY <1>2, <3>1, QueriesReturnTexts DEF TapClass
    <3>2. CASE ~HasOneSubclass(homeDB, name)
      BY <1>2, <3>2, QueriesReturnTexts, Zenon DEF TapClass, ScreenTyped
    <3> QED
      BY <3>1, <3>2
  <2> QED
    BY <1>1, <1>2, <2>1, PushedScreenTyped DEF TapClass, ScreenTyped
<1>3. CASE TapSubclass(name)
  <2>1. currentMenuItems' \in SUBSET Texts
    BY <1>3, QueriesReturnTexts DEF TapSubclass
  <2> QED
    BY <1>1, <1>3, <2>1, PushedScreenTyped DEF TapSubclass, ScreenTyped
<1> QED
  BY <1>2, <1>3

\* flipBackMenuItems takes one level of each.
LEMMA FlippedScreenTyped ==
    ASSUME ScreenTyped, flipBackMenuItems PROVE ScreenTyped'
<1>1. Len(stackOfMenus) > 0
  BY DEF flipBackMenuItems, ScreenTyped
<1>2. /\ Front(stackOfMenus) \in Seq(SUBSET Texts)
      /\ Len(Front(stackOfMenus)) = Len(stackOfMenus) - 1
      /\ Last(stackOfMenus) \in SUBSET Texts
  BY <1>1, FrontProperties DEF ScreenTyped
<1>3. /\ Front(stackOfIsSubclassBools) \in Seq(BOOLEAN)
      /\ Len(Front(stackOfIsSubclassBools)) = Len(stackOfMenus) - 1
      /\ Last(stackOfIsSubclassBools) \in BOOLEAN
  BY <1>1, FrontProperties DEF ScreenTyped, SameDepth
<1>4. /\ Front(stackOfIsActualItemBools) \in Seq(BOOLEAN)
      /\ Len(Front(stackOfIsActualItemBools)) = Len(stackOfMenus) - 1
      /\ Last(stackOfIsActualItemBools) \in BOOLEAN
  BY <1>1, FrontProperties DEF ScreenTyped, SameDepth
<1> QED
  BY <1>2, <1>3, <1>4 DEF flipBackMenuItems, ScreenTyped, SameDepth, nameVars

\* What LeaveMenu keeps of the controller on screen.
LEMMA LeftControllersTyped ==
    ASSUME TypeInv, TableInv, NEW to, LeaveMenu(to),
           NEW table \in DOMAIN quickServeDictionary'
    PROVE  KeptTyped(quickServeDictionary'[table])
<1>1. table \in DOMAIN quickServeDictionary
  BY Zenon DEF LeaveMenu
<1>2. KeptTyped(quickServeDictionary[table])
  BY <1>1 DEF TypeInv
<1>3. CASE serving # table
  <2>1. quickServeDictionary'[table] = quickServeDictionary[table]
    BY <1>1, <1>3 DEF LeaveMenu
  <2> QED
    BY <1>2, <2>1
<1>4. CASE serving = table /\ kept
  <2>1. quickServeDictionary'[table] = Controller
    BY <1>1, <1>4, TablesAssumption DEF LeaveMenu, TableInv
  <2>2. order \in Orders /\ tableNumber \in Tables \cup {Nil}
    BY <1>1, <1>4 DEF TableInv, OrdersFollowTables, Orders
  <2> QED
    BY <2>1, <2>2 DEF TypeInv, ScreenTyped, KeptTyped, Controller, Controllers
<1>5. CASE serving = table /\ ~kept
  <2>1. quickServeDictionary'[table] =
          [quickServeDictionary[table] EXCEPT
             !.stackOfMenus = stackOfMenus,
             !.stackOfIsSubclassBools = stackOfIsSubclassBools,
             !.stackOfIsActualItemBools = stackOfIsActualItemBools]
    BY <1>1, <1>5, TablesAssumption DEF LeaveMenu, TableInv
  <2> QED
    BY <1>2, <2>1 DEF TypeInv, ScreenTyped, KeptTyped, Controllers
<1> QED
  BY <1>3, <1>4, <1>5

\* A controller that stays as it is.
LEMMA SameScreenTyped ==
    ASSUME ScreenTyped, UNCHANGED <<menuVars, nameOfSelected, nameVars>> PROVE ScreenTyped'
BY DEF ScreenTyped, menuVars, stackVars, nameVars

\* The end of the app.
LEMMA LostTablesTyped ==
    ASSUME Crash, LoseTables, homeDB \in BOOLEAN PROVE TypeInv'
<1>1. ScreenTyped'
  BY NewScreenTyped DEF Crash
<1>2. DOMAIN quickServeDictionary' = {}
  BY DEF LoseTables
<1> QED
  BY <1>1, <1>2 DEF TypeInv, Crash, LoseTables

\* The lists of tables come and go.
LEMMA ListsTyped ==
    ASSUME TypeInv, PickTable \/ ShowTables \/ LeaveList PROVE TypeInv'
<1>1. ScreenTyped'
  BY SameScreenTyped DEF TypeInv, PickTable, ShowTables, LeaveList, controllerVars
<1>2. classNames(homeDB) \subseteq Texts
  BY QueriesReturnTexts
<1> QED
  BY <1>1, <1>2 DEF TypeInv, PickTable, ShowTables, LeaveList, tableVars

LEMMA FreeTableTyped ==
    ASSUME TypeInv, TableInv, NEW text \in listOfTables, SelectFreeTable(text) PROVE TypeInv'
<1> DEFINE number == integerValue(text)
<1>1. number \in Tables
  BY TextIsOfOneTable DEF TableInv
<1>2. ScreenTyped'
  BY NewScreenTyped DEF TypeInv, SelectFreeTable
<1>3. order' \in Orders /\ tableNumber' \in Tables
  BY <1>1 DEF SelectFreeTable, Orders
<1>4. KeptTyped(Controller')
  BY <1>2, <1>3 DEF ScreenTyped, KeptTyped, Controller, Controllers
<1>5. ASSUME NEW table \in DOMAIN quickServeDictionary'
      PROVE  KeptTyped(quickServeDictionary'[table])
  <2>1. quickServeDictionary' =
             [t \in DOMAIN quickServeDictionary \cup {number} |->
                IF t = number THEN Controller' ELSE quickServeDictionary[t]]
    BY DEF SelectFreeTable
  <2> HIDE DEF number
  <2>2. CASE table = number
    BY <1>4, <2>1, <2>2
  <2>3. CASE table # number
    BY <1>5, <2>1, <2>3 DEF TypeInv
  <2> QED
    BY <2>2, <2>3
<1> QED
  BY <1>2, <1>5 DEF TypeInv, SelectFreeTable

LEMMA OccupiedTableTyped ==
    ASSUME TypeInv, NEW number \in DOMAIN quickServeDictionary, SelectOccupiedTable(number)
    PROVE  TypeInv'
<1>1. ScreenTyped'
  BY CopiedScreenTyped DEF TypeInv, SelectOccupiedTable
<1> QED
  BY <1>1 DEF TypeInv, SelectOccupiedTable

LEMMA LeftMenuTyped ==
    ASSUME TypeInv, TableInv, NEW to \in {from, "home"}, LeaveMenu(to) PROVE TypeInv'
<1>1. ScreenTyped'
  BY NewScreenTyped DEF LeaveMenu
<1>2. \A table \in DOMAIN quickServeDictionary' : KeptTyped(quickServeDictionary'[table])
  BY LeftControllersTyped
<1>3. /\ screen' \in {"home", "pick", "tables"} /\ pickMenu' \in SUBSET Texts
      /\ from' = "home" /\ kept' = FALSE /\ homeDB' = homeDB
  BY DEF TypeInv, LeaveMenu
<1> QED
  BY <1>1, <1>2, <1>3 DEF TypeInv

\* An item adds an id.
LEMMA TappedItemTyped ==
    ASSUME TypeInv, NEW name \in currentMenuItems, TapItemOfTable(name) PROVE TypeInv'
<1>1. CASE screen' = "crashed"
  BY <1>1, LostTablesTyped DEF TypeInv, TapItemOfTable, TapItem, Crash
<1>2. CASE screen' # "crashed"
  <2>1. /\ selectedItemId' \in itemIdWhereClassIs(homeDB, classNameForDatabase,
                                                  subclassNameForDatabase, name)
        /\ nameOfSelected' = name
        /\ UNCHANGED <<screen, homeDB, menuVars, classNameForDatabase,
                       subclassNameForDatabase>>
    BY <1>2 DEF TapItemOfTable, TapItem, Crash
  <2>2. selectedItemId' \in Ids
    BY <2>1 DEF itemIdWhereClassIs, OfClass, Rows, Ids
  <2>3. name \in Texts
    BY DEF TypeInv, ScreenTyped
  <2>4. ScreenTyped'
    BY <2>1, <2>2, <2>3 DEF TypeInv, ScreenTyped, menuVars, stackVars
  <2> QED
    BY <1>2, <2>1, <2>4 DEF TypeInv, TapItemOfTable
<1> QED
  BY <1>1, <1>2

\* TypeInv is inductive: one case per action.
LEMMA TypeInvStep == TypeInv /\ TableInv /\ [TablesNext]_tablesVars => TypeInv'
<1> SUFFICES ASSUME TypeInv, TableInv, [TablesNext]_tablesVars PROVE TypeInv'
  OBVIOUS
<1>1. CASE PickTable \/ ShowTables \/ LeaveList
  BY <1>1, ListsTyped
<1>2. CASE QuickServe
  <2>1. classNames(homeDB) \in SUBSET Texts
    BY QueriesReturnTexts
  <2>2. ScreenTyped'
    BY <1>2, <2>1, NewScreenTyped DEF QuickServe, Open
  <2> QED
    BY <1>2, <2>2 DEF TypeInv, QuickServe, Open
<1>3. CASE \E text \in listOfTables : SelectFreeTable(text)
  BY <1>3, FreeTableTyped
<1>4. CASE \E number \in DOMAIN quickServeDictionary : SelectOccupiedTable(number)
  BY <1>4, OccupiedTableTyped
<1>5. CASE \E to \in {from, "home"} : LeaveMenu(to)
  BY <1>5, LeftMenuTyped
<1>6. ASSUME NEW name \in currentMenuItems, TapMenu(name) PROVE TypeInv'
  <2>1. ScreenTyped' /\ homeDB' \in BOOLEAN
    BY <1>6, TappedScreenTyped DEF TypeInv, TapMenu
  <2> QED
    BY <1>6, <2>1 DEF TypeInv, TapMenu, TapClass, TapSubclass, tableVars
<1>7. ASSUME NEW name \in currentMenuItems, TapItemOfTable(name) PROVE TypeInv'
  BY <1>7, TappedItemTyped
<1>8. CASE FlipBack
  <2>1. ScreenTyped'
    BY <1>8, FlippedScreenTyped DEF FlipBack, TypeInv
  <2> QED
    BY <1>8, <2>1 DEF TypeInv, FlipBack, flipBackMenuItems, tableVars
<1>9. CASE TapEmptyMenu
  BY <1>9, LostTablesTyped DEF TypeInv, TapEmptyMenu, TapNothing
<1>10. CASE MenuRaises
  BY <1>10, LostTablesTyped DEF TypeInv, MenuRaises, viewDidLoadRaises
<1>11. CASE (Relaunch \/ LoseConnection) /\ UNCHANGED tableVars
  <2>1. ScreenTyped'
    BY <1>11, SameScreenTyped DEF TypeInv, Relaunch, LoseConnection
  <2> QED
    BY <1>11, <2>1 DEF TypeInv, Relaunch, LoseConnection, tableVars
<1>12. CASE UNCHANGED tablesVars
  <2>1. ScreenTyped'
    BY <1>12, SameScreenTyped DEF TypeInv, tablesVars, vars
  <2> QED
    BY <1>12, <2>1 DEF TypeInv, tablesVars, vars, tableVars
<1> QED
  BY <1>1, <1>2, <1>3, <1>4, <1>5, <1>6, <1>7, <1>8, <1>9, <1>10, <1>11, <1>12
     DEF TablesNext

LEMMA TablesInitTyped == TablesInit => TypeInv
<1> SUFFICES ASSUME TablesInit PROVE TypeInv
  OBVIOUS
<1>1. /\ stackOfMenus = <<>> /\ stackOfIsSubclassBools = <<>>
      /\ stackOfIsActualItemBools = <<>>
  BY DEF TablesInit, Init, Closed
<1>2. /\ stackOfMenus \in Seq(SUBSET Texts)
      /\ stackOfIsSubclassBools \in Seq(BOOLEAN)
      /\ stackOfIsActualItemBools \in Seq(BOOLEAN)
  BY <1>1
<1>3. SameDepth(stackOfMenus, stackOfIsSubclassBools, stackOfIsActualItemBools)
  BY <1>1 DEF SameDepth
<1>4. ScreenTyped
  BY <1>2, <1>3 DEF TablesInit, Init, Closed, ScreenTyped
<1>5. DOMAIN quickServeDictionary = {}
  BY DEF TablesInit, Fresh
<1> QED
  BY <1>4, <1>5 DEF TypeInv, TablesInit, Init, Fresh

\* The list holds texts of tables, the dictionary controllers with the fields of
\* a controller, and the stacks only menus and flags, for any tables and menus.
THEOREM TableTypesHold == TablesSpec => []TablesTypeOK
<1>1. TypeInv /\ TableInv => TablesTypeOK
  <2> SUFFICES ASSUME TypeInv, TableInv PROVE TablesTypeOK
    OBVIOUS
  <2>1. serving \in Tables \cup {Nil} /\ tableNumber \in Tables \cup {Nil} /\ order \in Orders
    BY DEF TableInv, OrdersFollowTables, Orders
  <2>2. Controller \in Controllers
    BY <2>1 DEF TypeInv, ScreenTyped, Controller, Controllers
  <2> QED
    BY <2>1, <2>2 DEF TypeInv, TableInv, OrdersFollowTaps, KeptTyped, TablesTypeOK
<1>2. TablesInit => TypeInv
  BY TablesInitTyped
<1> QED
  BY <1>1, <1>2, TypeInvStep, TableInvHolds, PTL DEF TablesSpec

-----------------------------------------------------------------------------
(* Every level of a menu is read as it is shown.                           *)

LevelsRead(menus, subclassBools, actualBools) ==
    \A i \in DOMAIN menus : ReadAs(menus[i], subclassBools[i], actualBools[i])

ScreenRead ==
    /\ ReadAs(currentMenuItems, isSubclass, isActualItems)
    /\ LevelsRead(stackOfMenus, stackOfIsSubclassBools, stackOfIsActualItemBools)

\* The menu of a kept controller, and, unless one with its stacks is on screen
\* and ahead of it, the levels below.
KeptMenuRead(c) == ReadAs(c.currentMenuItems, c.isSubclass, c.isActualItems)

KeptRead(c) ==
    /\ KeptMenuRead(c)
    /\ LevelsRead(c.stackOfMenus, c.stackOfIsSubclassBools, c.stackOfIsActualItemBools)

\* Besides the menus this follows pickMenu, which the next table starts from
\* and which outlives a table that was left to the list.
ReadInv ==
    /\ screen = "crashed" => DOMAIN quickServeDictionary = {}
    /\ screen # "menu" => from = "home"
    /\ homeDB =>
         /\ screen = "menu" => ScreenRead
         /\ screen = "pick" \/ from = "pick" => pickMenu = classNames(TRUE)
         /\ \A table \in DOMAIN quickServeDictionary :
              /\ KeptMenuRead(quickServeDictionary[table])
              /\ serving # table => KeptRead(quickServeDictionary[table])

\* The first menu of a controller.
LEMMA NewScreenRead ==
    ASSUME NewMenu(classNames(TRUE)) PROVE ScreenRead'
<1>1. /\ currentMenuItems' = classNames(TRUE) /\ isSubclass' = FALSE /\ isActualItems' = FALSE
      /\ DOMAIN stackOfMenus' = {}
  BY DEF NewMenu
<1> QED
  BY <1>1 DEF ScreenRead, ReadAs, LevelsRead

\* A tap on a class or a subclass saves a level that was read as shown.
LEMMA PushedScreenRead ==
    ASSUME ScreenTyped, ScreenRead, savePreviousState
    PROVE  LevelsRead(stackOfMenus', stackOfIsSubclassBools', stackOfIsActualItemBools')
<1> DEFINE n == Len(stackOfMenus)
<1>1. n \in Nat /\ DOMAIN stackOfMenus = 1..n
  BY DEF ScreenTyped
<1>2. /\ Len(stackOfMenus') = n + 1 /\ stackOfMenus'[n + 1] = currentMenuItems
      /\ \A i \in 1..n : stackOfMenus'[i] = stackOfMenus[i]
      /\ DOMAIN stackOfMenus' = 1..(n + 1)
  BY <1>1, PushProperties DEF ScreenTyped, savePreviousState
<1>3. /\ stackOfIsSubclassBools'[n + 1] = isSubclass
      /\ \A i \in 1..n : stackOfIsSubclassBools'[i] = stackOfIsSubclassBools[i]
  BY <1>1, PushProperties DEF ScreenTyped, savePreviousState, SameDepth
<1>4. /\ stackOfIsActualItemBools'[n + 1] = isActualItems
      /\ \A i \in 1..n : stackOfIsActualItemBools'[i] = stackOfIsActualItemBools[i]
  BY <1>1, PushProperties DEF ScreenTyped, savePreviousState, SameDepth
<1>5. ASSUME NEW i \in 1..(n + 1)
      PROVE  ReadAs(stackOfMenus'[i], stackOfIsSubclassBools'[i], stackOfIsActualItemBools'[i])
  <2>1. CASE i = n + 1
    BY <1>2, <1>3, <1>4, <2>1 DEF ScreenRead
  <2>2. CASE i \in 1..n
    BY <1>1, <1>2, <1>3, <1>4, <2>2 DEF ScreenRead, LevelsRead
  <2> QED
    BY <1>1, <1>5, <2>1, <2>2
<1> QED
  BY <1>2, <1>5 DEF LevelsRead

LEMMA TappedScreenRead ==
    ASSUME ScreenTyped, ScreenRead, homeDB \in BOOLEAN, homeDB',
           NEW name \in currentMenuItems, TapClass(name) \/ TapSubclass(name)
    PROVE  ScreenRead'
<1>1. name \in Texts
  BY DEF ScreenTyped
<1>2. CASE TapClass(name)
  <2>1. homeDB = TRUE /\ homeDB' = TRUE
    BY <1>2 DEF TapClass
  <2>2. ReadAs(currentMenuItems', isSubclass', isActualItems')
    <3>1. CASE HasOneSubclass(TRUE, name)
      BY <1>1, <1>2, <2>1, <3>1 DEF TapClass, ReadAs
    <3>2. CASE ~HasOneSubclass(TRUE, name)
      <4>1. /\ currentMenuItems' = {asString(s) : s \in subclassWhereClassIs(TRUE, name)}
            /\ isSubclass' = TRUE /\ ~isActualItems'
        BY <1>2, <2>1, <3>2 DEF TapClass
      <4> QED
        BY <1>1, <4>1 DEF ReadAs
    <3> QED
      BY <3>1, <3>2
  <2> QED
    BY <1>2, <2>2, PushedScreenRead DEF TapClass, ScreenRead
<1>3. CASE TapSubclass(name)
  <2>1. homeDB = TRUE
    BY <1>3 DEF TapSubclass
  <2>2. /\ currentMenuItems' = itemsWhereSubclassIs(TRUE, name)
        /\ isSubclass' /\ isActualItems'
    BY <1>3, <2>1 DEF TapSubclass
  <2>3. ReadAs(currentMenuItems', isSubclass', isActualItems')
    BY <1>1, <2>2 DEF ReadAs
  <2> QED
    BY <1>3, <2>3, PushedScreenRead DEF TapSubclass, ScreenRead
<1> QED
  BY <1>2, <1>3

\* Back shows a level that was saved, and leaves the ones below.
LEMMA FlippedScreenRead ==
    ASSUME ScreenTyped, ScreenRead, flipBackMenuItems PROVE ScreenRead'
<1> DEFINE n == Len(stackOfMenus)
<1>1. n \in Nat /\ n > 0 /\ DOMAIN stackOfMenus = 1..n
  BY DEF flipBackMenuItems, ScreenTyped
<1>2. /\ \A i \in 1..(n - 1) : stackOfMenus'[i] = stackOfMenus[i]
      /\ DOMAIN stackOfMenus' = 1..(n - 1)
      /\ currentMenuItems' = stackOfMenus[n]
  BY <1>1, FrontProperties DEF flipBackMenuItems, ScreenTyped
<1>3. /\ \A i \in 1..(n - 1) : stackOfIsSubclassBools'[i] = stackOfIsSubclassBools[i]
      /\ isSubclass' = stackOfIsSubclassBools[n]
  BY <1>1, FrontProperties DEF flipBackMenuItems, ScreenTyped, SameDepth
<1>4. /\ \A i \in 1..(n - 1) : stackOfIsActualItemBools'[i] = stackOfIsActualItemBools[i]
      /\ isActualItems' = stackOfIsActualItemBools[n]
  BY <1>1, FrontProperties DEF flipBackMenuItems, ScreenTyped, SameDepth
<1>5. \A i \in 1..n :
        ReadAs(stackOfMenus[i], stackOfIsSubclassBools[i], stackOfIsActualItemBools[i])
  BY <1>1 DEF ScreenRead, LevelsRead
<1>6. ReadAs(currentMenuItems', isSubclass', isActualItems')
  BY <1>1, <1>2, <1>3, <1>4, <1>5
<1>7. \A i \in 1..(n - 1) :
        ReadAs(stackOfMenus'[i], stackOfIsSubclassBools'[i], stackOfIsActualItemBools'[i])
  BY <1>1, <1>2, <1>3, <1>4, <1>5
<1> QED
  BY <1>2, <1>6, <1>7 DEF ScreenRead, LevelsRead

\* A controller that stays as it is.
LEMMA SameScreenRead ==
    ASSUME ScreenRead, UNCHANGED menuVars PROVE ScreenRead'
BY DEF ScreenRead, menuVars, stackVars

LEMMA LostTablesRead ==
    ASSUME Crash, LoseTables PROVE ReadInv'
<1>1. screen' = "crashed" /\ from' = "home" /\ DOMAIN quickServeDictionary' = {}
  BY DEF Crash, LoseTables
<1> QED
  BY <1>1 DEF ReadInv

\* What no step of the tables touches.
LEMMA SameTablesRead ==
    ASSUME ReadInv, UNCHANGED <<screen, quickServeDictionary, pickMenu, from, serving>>,
           homeDB' => homeDB /\ (screen = "menu" => ScreenRead')
    PROVE  ReadInv'
BY DEF ReadInv

LEMMA ListsRead ==
    ASSUME ReadInv, TypeInv, PickTable \/ ShowTables \/ LeaveList PROVE ReadInv'
<1>1. /\ screen # "menu" /\ screen' # "menu" /\ screen' # "crashed"
      /\ UNCHANGED <<homeDB, quickServeDictionary, from, serving>>
  BY DEF PickTable, ShowTables, LeaveList, tableVars
<1>2. ASSUME homeDB, screen' = "pick" PROVE pickMenu' = classNames(TRUE)
  <2>1. homeDB = TRUE
    BY <1>2 DEF TypeInv
  <2> QED
    BY <1>2, <2>1 DEF PickTable, ShowTables, LeaveList
<1> QED
  BY <1>1, <1>2 DEF ReadInv

LEMMA FreeTableRead ==
    ASSUME ReadInv, TypeInv, TableInv, NEW text, SelectFreeTable(text) PROVE ReadInv'
<1> DEFINE number == integerValue(text)
<1>1. /\ screen' = "menu" /\ from' = "pick" /\ serving' = number
      /\ UNCHANGED <<homeDB, pickMenu>>
  BY DEF SelectFreeTable
<1>2. ASSUME homeDB PROVE ScreenRead' /\ pickMenu' = classNames(TRUE)
  <2>1. pickMenu = classNames(TRUE)
    BY <1>2 DEF ReadInv, SelectFreeTable
  <2> QED
    BY <1>1, <2>1, NewScreenRead DEF SelectFreeTable
<1>3. ASSUME homeDB, NEW table \in DOMAIN quickServeDictionary'
      PROVE  /\ KeptMenuRead(quickServeDictionary'[table])
             /\ serving' # table => KeptRead(quickServeDictionary'[table])
  <2>1. quickServeDictionary' =
             [t \in DOMAIN quickServeDictionary \cup {number} |->
                IF t = number THEN Controller' ELSE quickServeDictionary[t]]
    BY DEF SelectFreeTable
  <2> HIDE DEF number
  <2>2. CASE table = number
    <3>1. quickServeDictionary'[table] = Controller'
      BY <2>1, <2>2
    <3>2. KeptMenuRead(Controller')
      BY <1>2, <1>3 DEF ScreenRead, KeptMenuRead, Controller
    <3> QED
      BY <1>1, <2>2, <3>1, <3>2
  <2>3. CASE table # number
    <3>1. /\ table \in DOMAIN quickServeDictionary
          /\ quickServeDictionary'[table] = quickServeDictionary[table]
      BY <1>3, <2>1, <2>3
    <3>2. serving # table
      BY <3>1, TablesAssumption DEF SelectFreeTable, TableInv, OrdersFollowTables
    <3>3. homeDB
      BY <1>1, <1>3
    <3> QED
      BY <3>1, <3>2, <3>3 DEF ReadInv
  <2> QED
    BY <2>2, <2>3
<1> QED
  BY <1>1, <1>2, <1>3 DEF ReadInv

LEMMA OccupiedTableRead ==
    ASSUME ReadInv, TableInv, NEW number \in DOMAIN quickServeDictionary,
           SelectOccupiedTable(number)
    PROVE  ReadInv'
<1>1. /\ screen = "tables" /\ screen' = "menu" /\ from' = "tables"
      /\ UNCHANGED <<homeDB, quickServeDictionary>>
  BY DEF SelectOccupiedTable
<1>2. \A table \in DOMAIN quickServeDictionary : serving # table
  BY <1>1, TablesAssumption DEF TableInv, OrdersFollowTables
<1>3. ASSUME homeDB, NEW table \in DOMAIN quickServeDictionary
      PROVE  KeptRead(quickServeDictionary[table])
  BY <1>2, <1>3 DEF ReadInv
<1>4. ASSUME homeDB PROVE ScreenRead'
  <2>1. KeptRead(quickServeDictionary[number])
    BY <1>3, <1>4
  <2> QED
    BY <2>1 DEF SelectOccupiedTable, CopyMenu, shareStacks, ScreenRead, KeptRead,
                KeptMenuRead
<1>5. \A c : KeptRead(c) => KeptMenuRead(c)
  BY DEF KeptRead
<1> QED
  BY <1>1, <1>3, <1>4, <1>5 DEF ReadInv

\* The controllers that are left when the menu is.
LEMMA LeftControllersRead ==
    ASSUME ReadInv, TypeInv, TableInv, homeDB, NEW to, LeaveMenu(to),
           NEW table \in DOMAIN quickServeDictionary'
    PROVE  KeptRead(quickServeDictionary'[table])
<1>1. table \in DOMAIN quickServeDictionary
  BY Zenon DEF LeaveMenu
<1>2. ScreenRead
  BY DEF ReadInv, LeaveMenu
<1>3. CASE serving # table
  <2>1. quickServeDictionary'[table] = quickServeDictionary[table]
    BY <1>1, <1>3 DEF LeaveMenu
  <2> QED
    BY <1>1, <1>3, <2>1 DEF ReadInv
<1>4. CASE serving = table /\ kept
  <2>1. quickServeDictionary'[table] = Controller
    BY <1>1, <1>4, TablesAssumption DEF LeaveMenu, TableInv
  <2> QED
    BY <1>2, <2>1 DEF ScreenRead, KeptRead, KeptMenuRead, Controller
<1>5. CASE serving = table /\ ~kept
  <2> DEFINE c == quickServeDictionary[table]
             left == quickServeDictionary'[table]
  <2>1. left = [c EXCEPT !.stackOfMenus = stackOfMenus,
                         !.stackOfIsSubclassBools = stackOfIsSubclassBools,
                         !.stackOfIsActualItemBools = stackOfIsActualItemBools]
    BY <1>1, <1>5, TablesAssumption DEF LeaveMenu, TableInv
  <2>2. KeptMenuRead(c) /\ c \in Controllers
    BY <1>1 DEF ReadInv, TypeInv, KeptTyped
  <2>3. /\ left.currentMenuItems = c.currentMenuItems
        /\ left.isSubclass = c.isSubclass /\ left.isActualItems = c.isActualItems
        /\ left.stackOfMenus = stackOfMenus
        /\ left.stackOfIsSubclassBools = stackOfIsSubclassBools
        /\ left.stackOfIsActualItemBools = stackOfIsActualItemBools
    BY <2>1, <2>2 DEF Controllers
  <2> QED
    BY <1>2, <2>2, <2>3 DEF ScreenRead, KeptRead, KeptMenuRead
<1> QED
  BY <1>3, <1>4, <1>5

LEMMA LeftMenuRead ==
    ASSUME ReadInv, TypeInv, TableInv, NEW to \in {from, "home"}, LeaveMenu(to)
    PROVE  ReadInv'
<1>1. /\ screen = "menu" /\ screen' = to /\ from' = "home" /\ homeDB' = homeDB
      /\ pickMenu' = IF to = "home" THEN {} ELSE pickMenu
  BY DEF LeaveMenu
<1>2. to \in {"home", "pick", "tables"}
  BY DEF TypeInv
<1>3. ASSUME homeDB, to = "pick" PROVE pickMenu' = classNames(TRUE)
  BY <1>1, <1>3 DEF ReadInv
<1>4. ASSUME homeDB, NEW table \in DOMAIN quickServeDictionary'
      PROVE  KeptRead(quickServeDictionary'[table])
  BY <1>4, LeftControllersRead
<1>5. \A c : KeptRead(c) => KeptMenuRead(c)
  BY DEF KeptRead
<1> QED
  BY <1>1, <1>2, <1>3, <1>4, <1>5 DEF ReadInv

\* ReadInv is inductive: one case per action.
LEMMA ReadInvStep == ReadInv /\ TypeInv /\ TableInv /\ [TablesNext]_tablesVars => ReadInv'
<1> SUFFICES ASSUME ReadInv, TypeInv, TableInv, [TablesNext]_tablesVars PROVE ReadInv'
  OBVIOUS
<1>1. CASE PickTable \/ ShowTables \/ LeaveList
  BY <1>1, ListsRead
<1>2. CASE QuickServe
  <2>1. /\ screen = "home" /\ screen' = "menu" /\ NewMenu(classNames(homeDB))
        /\ UNCHANGED <<homeDB, quickServeDictionary, pickMenu, from, serving>>
    BY <1>2 DEF QuickServe, Open
  <2>2. ASSUME homeDB PROVE ScreenRead'
    <3>1. homeDB = TRUE
      BY <2>2 DEF TypeInv
    <3> QED
      BY <2>1, <3>1, NewScreenRead
  <2> QED
    BY <2>1, <2>2 DEF ReadInv
<1>3. CASE \E text \in listOfTables : SelectFreeTable(text)
  BY <1>3, FreeTableRead
<1>4. CASE \E number \in DOMAIN quickServeDictionary : SelectOccupiedTable(number)
  BY <1>4, OccupiedTableRead
<1>5. CASE \E to \in {from, "home"} : LeaveMenu(to)
  BY <1>5, LeftMenuRead
<1>6. ASSUME NEW name \in currentMenuItems, TapMenu(name) PROVE ReadInv'
  <2>1. /\ screen = "menu" /\ homeDB' \in {homeDB, FALSE}
        /\ UNCHANGED <<screen, quickServeDictionary, pickMenu, from, serving>>
    BY <1>6 DEF TapMenu, TapClass, TapSubclass, tableVars
  <2>2. homeDB \in BOOLEAN /\ ScreenTyped
    BY DEF TypeInv
  <2>3. homeDB' => homeDB
    BY <2>1
  <2>4. ASSUME homeDB' PROVE ScreenRead'
    <3>1. ScreenRead
      BY <2>1, <2>3, <2>4 DEF ReadInv
    <3> QED
      BY <1>6, <2>2, <2>4, <3>1, TappedScreenRead DEF TapMenu
  <2> QED
    BY <2>1, <2>3, <2>4, SameTablesRead
<1>7. ASSUME NEW name \in currentMenuItems, TapItemOfTable(name) PROVE ReadInv'
  <2>1. CASE screen' = "crashed"
    BY <1>7, <2>1, LostTablesRead DEF TapItemOfTable, TapItem, Crash
  <2>2. CASE screen' # "crashed"
    <3>1. UNCHANGED <<screen, homeDB, menuVars, quickServeDictionary, pickMenu, from, serving>>
      BY <1>7, <2>2 DEF TapItemOfTable, TapItem, Crash
    <3> QED
      BY <3>1, SameScreenRead DEF ReadInv
  <2> QED
    BY <2>1, <2>2
<1>8. CASE FlipBack
  <2>1. /\ screen = "menu"
        /\ UNCHANGED <<screen, homeDB, quickServeDictionary, pickMenu, from, serving>>
    BY <1>8 DEF FlipBack, flipBackMenuItems, tableVars
  <2>2. ASSUME homeDB PROVE ScreenRead'
    BY <1>8, <2>1, <2>2, FlippedScreenRead DEF FlipBack, ReadInv, TypeInv
  <2> QED
    BY <2>1, <2>2 DEF ReadInv
<1>9. CASE TapEmptyMenu \/ MenuRaises
  BY <1>9, LostTablesRead DEF TapEmptyMenu, TapNothing, MenuRaises, viewDidLoadRaises
<1>10. CASE Relaunch /\ UNCHANGED tableVars
  <2>1. screen = "crashed" /\ screen' = "home"
        /\ UNCHANGED <<quickServeDictionary, from>>
    BY <1>10 DEF Relaunch, tableVars
  <2> QED
    BY <2>1 DEF ReadInv
<1>11. CASE LoseConnection /\ UNCHANGED tableVars
  BY <1>11 DEF ReadInv, LoseConnection, tableVars
<1>12. CASE UNCHANGED tablesVars
  <2>1. UNCHANGED <<screen, homeDB, menuVars, quickServeDictionary, pickMenu, from, serving>>
    BY <1>12 DEF tablesVars, vars, tableVars
  <2> QED
    BY <2>1, SameScreenRead DEF ReadInv
<1> QED
  BY <1>1, <1>2, <1>3, <1>4, <1>5, <1>6, <1>7, <1>8, <1>9, <1>10, <1>11, <1>12
     DEF TablesNext

\* ReadInv holds on a new launch.
LEMMA TablesInitRead == TablesInit => ReadInv
<1> SUFFICES ASSUME TablesInit PROVE ReadInv
  OBVIOUS
<1>1. screen = "home" /\ from = "home" /\ DOMAIN quickServeDictionary = {}
  BY DEF TablesInit, Init, Fresh
<1> QED
  BY <1>1 DEF ReadInv

\* Every level of a menu is read as it is shown, at any number of tables and to
\* any depth: the fields copied to a reopened table and the stacks it shares may
\* be of different visits, but a level's menu and flags never are.
THEOREM MenusAreReadAsShown == TablesSpec => []MenuReadAsShown
<1>1. ReadInv /\ TypeInv => MenuReadAsShown
  <2>1. ASSUME ScreenTyped, ScreenRead PROVE ReadAsShown(Controller)
    BY <2>1 DEF ScreenTyped, ScreenRead, ReadAsShown, Controller, LevelsRead, SameDepth
  <2>2. ASSUME NEW c, KeptTyped(c), KeptRead(c) PROVE ReadAsShown(c)
    BY <2>2 DEF KeptTyped, KeptRead, KeptMenuRead, ReadAsShown, LevelsRead, SameDepth
  <2> QED
    BY <2>1, <2>2 DEF ReadInv, TypeInv, MenuReadAsShown
<1>2. TablesInit => ReadInv
  BY TablesInitRead
<1>3. TablesInit => TypeInv
  BY TablesInitTyped
<1> QED
  BY <1>1, <1>2, <1>3, TypeInvStep, ReadInvStep, TableInvHolds, PTL DEF TablesSpec

-----------------------------------------------------------------------------
(* A menu of items has the names it is of.                                 *)

\* Back never leads to a menu of items, so that the items on show are always
\* those of the last tap, which kept its name.
ScreenNamed ==
    isActualItems =>
        \/ currentMenuItems = itemsWhereClassIs(TRUE, classNameForDatabase)
        \/ currentMenuItems = itemsWhereSubclassIs(TRUE, subclassNameForDatabase)

NamesInv ==
    /\ stackOfIsActualItemBools \in Seq({FALSE})
    /\ \A table \in DOMAIN quickServeDictionary :
         quickServeDictionary[table].stackOfIsActualItemBools \in Seq({FALSE})
    /\ homeDB =>
         /\ screen = "menu" => ScreenNamed
         /\ \A table \in DOMAIN quickServeDictionary :
              ItemsAreOf(quickServeDictionary[table])

\* The screen's fields as a controller's.
LEMMA ControllerNamed ==
    /\ ItemsAreOf(Controller) <=> ScreenNamed
    /\ Controller.stackOfIsActualItemBools = stackOfIsActualItemBools
BY DEF ItemsAreOf, Controller, ScreenNamed

\* A new controller has no items on show and none saved.
LEMMA NewScreenNamed ==
    ASSUME NEW items, NewMenu(items)
    PROVE  /\ ScreenNamed' /\ stackOfIsActualItemBools' \in Seq({FALSE})
           /\ ItemsAreOf(Controller') /\ Controller'.stackOfIsActualItemBools \in Seq({FALSE})
<1>1. isActualItems' = FALSE /\ stackOfIsActualItemBools' = <<>>
  BY DEF NewMenu
<1>2. /\ Controller'.isActualItems = isActualItems'
      /\ Controller'.stackOfIsActualItemBools = stackOfIsActualItemBools'
  BY DEF Controller
<1>3. <<>> \in Seq({FALSE})
  OBVIOUS
<1> QED
  BY <1>1, <1>2, <1>3 DEF ScreenNamed, ItemsAreOf

LEMMA LostTablesNamed ==
    ASSUME Crash, LoseTables PROVE NamesInv'
<1>1. screen' = "crashed" /\ DOMAIN quickServeDictionary' = {}
  BY DEF Crash, LoseTables
<1>2. stackOfIsActualItemBools' \in Seq({FALSE})
  BY NewScreenNamed DEF Crash
<1> QED
  BY <1>1, <1>2 DEF NamesInv

\* A tap on a class or a subclass saves a menu without items, and keeps the name
\* of the items it shows.
LEMMA TappedScreenNamed ==
    ASSUME TypeInv, NamesInv, NEW name, TapClass(name) \/ TapSubclass(name)
    PROVE  /\ stackOfIsActualItemBools' \in Seq({FALSE})
           /\ homeDB' => homeDB /\ ScreenNamed'
<1>1. /\ stackOfIsActualItemBools' = Append(stackOfIsActualItemBools, isActualItems)
      /\ isActualItems \in {FALSE}
  BY DEF TapClass, TapSubclass, savePreviousState, TypeInv, ScreenTyped
<1>2. stackOfIsActualItemBools' \in Seq({FALSE})
  BY <1>1 DEF NamesInv
<1>3. ASSUME homeDB' PROVE homeDB = TRUE /\ ScreenNamed'
  <2>1. CASE TapClass(name)
    <3>1. homeDB = TRUE /\ homeDB' = TRUE
      BY <1>3, <2>1 DEF TapClass, TypeInv
    <3>2. /\ classNameForDatabase' = name
          /\ isActualItems' => currentMenuItems' = itemsWhereClassIs(TRUE, name)
      BY <1>1, <2>1, <3>1 DEF TapClass
    <3> QED
      BY <3>1, <3>2 DEF ScreenNamed
  <2>2. CASE TapSubclass(name)
    <3>1. homeDB = TRUE
      BY <1>3, <2>2 DEF TapSubclass, TypeInv
    <3>2. /\ subclassNameForDatabase' = name
          /\ currentMenuItems' = itemsWhereSubclassIs(TRUE, name)
      BY <2>2, <3>1 DEF TapSubclass
    <3> QED
      BY <3>1, <3>2 DEF ScreenNamed
  <2> QED
    BY <2>1, <2>2
<1> QED
  BY <1>2, <1>3

\* Back shows no items.
LEMMA FlippedScreenNamed ==
    ASSUME ScreenTyped, stackOfIsActualItemBools \in Seq({FALSE}), flipBackMenuItems
    PROVE  ScreenNamed' /\ stackOfIsActualItemBools' \in Seq({FALSE})
<1>1. Len(stackOfIsActualItemBools) > 0
  BY DEF flipBackMenuItems, ScreenTyped, SameDepth
<1>2. /\ Front(stackOfIsActualItemBools) \in Seq({FALSE})
      /\ Last(stackOfIsActualItemBools) \in {FALSE}
  BY <1>1, FrontProperties
<1> QED
  BY <1>2 DEF flipBackMenuItems, ScreenNamed

\* The controllers that are left when the menu is.
LEMMA LeftControllersNamed ==
    ASSUME NamesInv, TypeInv, TableInv, NEW to, LeaveMenu(to),
           NEW table \in DOMAIN quickServeDictionary'
    PROVE  /\ quickServeDictionary'[table].stackOfIsActualItemBools \in Seq({FALSE})
           /\ homeDB => ItemsAreOf(quickServeDictionary'[table])
<1>1. table \in DOMAIN quickServeDictionary
  BY Zenon DEF LeaveMenu
<1>2. CASE serving # table
  <2>1. quickServeDictionary'[table] = quickServeDictionary[table]
    BY <1>1, <1>2 DEF LeaveMenu
  <2> QED
    BY <1>1, <2>1 DEF NamesInv
<1>3. CASE serving = table /\ kept
  <2>1. quickServeDictionary'[table] = Controller
    BY <1>1, <1>3, TablesAssumption DEF LeaveMenu, TableInv
  <2>2. screen = "menu"
    BY DEF LeaveMenu
  <2> QED
    BY <2>1, <2>2, ControllerNamed DEF NamesInv
<1>4. CASE serving = table /\ ~kept
  <2> DEFINE c == quickServeDictionary[table]
             left == quickServeDictionary'[table]
  <2>1. left = [c EXCEPT !.stackOfMenus = stackOfMenus,
                         !.stackOfIsSubclassBools = stackOfIsSubclassBools,
                         !.stackOfIsActualItemBools = stackOfIsActualItemBools]
    BY <1>1, <1>4, TablesAssumption DEF LeaveMenu, TableInv
  <2>2. c \in Controllers /\ (homeDB => ItemsAreOf(c))
    BY <1>1 DEF NamesInv, TypeInv, KeptTyped
  <2>3. /\ left.currentMenuItems = c.currentMenuItems
        /\ left.isActualItems = c.isActualItems
        /\ left.classNameForDatabase = c.classNameForDatabase
        /\ left.subclassNameForDatabase = c.subclassNameForDatabase
        /\ left.stackOfIsActualItemBools = stackOfIsActualItemBools
    BY <2>1, <2>2 DEF Controllers
  <2> QED
    BY <2>2, <2>3 DEF NamesInv, ItemsAreOf
<1> QED
  BY <1>2, <1>3, <1>4

\* A free table starts with classes, a reopened one with the menu, the names and
\* the stacks of one controller.
LEMMA SelectedTableNamed ==
    ASSUME NamesInv,
           \/ \E text \in listOfTables : SelectFreeTable(text)
           \/ \E number \in DOMAIN quickServeDictionary : SelectOccupiedTable(number)
    PROVE  NamesInv'
<1>1. ASSUME NEW text, SelectFreeTable(text) PROVE NamesInv'
  <2> DEFINE number == integerValue(text)
  <2>1. /\ homeDB' = homeDB /\ NewMenu(pickMenu)
        /\ quickServeDictionary' =
             [t \in DOMAIN quickServeDictionary \cup {number} |->
                IF t = number THEN Controller' ELSE quickServeDictionary[t]]
    BY <1>1 DEF SelectFreeTable
  <2>2. /\ ScreenNamed' /\ stackOfIsActualItemBools' \in Seq({FALSE})
        /\ ItemsAreOf(Controller') /\ Controller'.stackOfIsActualItemBools \in Seq({FALSE})
    BY <2>1, NewScreenNamed
  <2> HIDE DEF number
  <2>3. ASSUME NEW table \in DOMAIN quickServeDictionary'
        PROVE  /\ quickServeDictionary'[table].stackOfIsActualItemBools \in Seq({FALSE})
               /\ homeDB => ItemsAreOf(quickServeDictionary'[table])
    <3>1. CASE table = number
      BY <2>1, <2>2, <3>1
    <3>2. CASE table # number
      BY <2>1, <2>3, <3>2 DEF NamesInv
    <3> QED
      BY <3>1, <3>2
  <2> QED
    BY <2>1, <2>2, <2>3 DEF NamesInv
<1>2. ASSUME NEW number \in DOMAIN quickServeDictionary, SelectOccupiedTable(number)
      PROVE  NamesInv'
  <2>1. UNCHANGED <<homeDB, quickServeDictionary>>
    BY <1>2 DEF SelectOccupiedTable
  <2>2. homeDB => ScreenNamed'
    <3> SUFFICES ASSUME homeDB PROVE ScreenNamed'
      OBVIOUS
    <3>1. ItemsAreOf(quickServeDictionary[number])
      BY DEF NamesInv
    <3> QED
      BY <1>2, <3>1 DEF SelectOccupiedTable, CopyMenu, ScreenNamed, ItemsAreOf
  <2>3. stackOfIsActualItemBools' \in Seq({FALSE})
    BY <1>2 DEF NamesInv, SelectOccupiedTable, shareStacks
  <2> QED
    BY <2>1, <2>2, <2>3 DEF NamesInv
<1> QED
  BY <1>1, <1>2

\* NamesInv is inductive: one case per action.
LEMMA NamesInvStep ==
    NamesInv /\ ReadInv /\ TypeInv /\ TableInv /\ [TablesNext]_tablesVars => NamesInv'
<1> SUFFICES ASSUME NamesInv, ReadInv, TypeInv, TableInv, [TablesNext]_tablesVars
             PROVE  NamesInv'
  OBVIOUS
<1>1. CASE PickTable \/ ShowTables \/ LeaveList
  <2>1. /\ screen' # "menu"
        /\ UNCHANGED <<homeDB, quickServeDictionary, stackOfIsActualItemBools>>
    BY <1>1 DEF PickTable, ShowTables, LeaveList, tableVars, controllerVars, menuVars, stackVars
  <2> QED
    BY <2>1 DEF NamesInv
<1>2. CASE QuickServe
  <2>1. UNCHANGED <<homeDB, quickServeDictionary>> /\ NewMenu(classNames(homeDB))
    BY <1>2 DEF QuickServe, Open
  <2>2. ScreenNamed' /\ stackOfIsActualItemBools' \in Seq({FALSE})
    BY <2>1, NewScreenNamed
  <2> QED
    BY <2>1, <2>2 DEF NamesInv
<1>3. CASE \/ \E text \in listOfTables : SelectFreeTable(text)
           \/ \E number \in DOMAIN quickServeDictionary : SelectOccupiedTable(number)
  BY <1>3, SelectedTableNamed
<1>4. CASE \E to \in {from, "home"} : LeaveMenu(to)
  <2> PICK to \in {from, "home"} : LeaveMenu(to)
    BY <1>4
  <2>1. screen' # "menu"
    BY DEF LeaveMenu, TypeInv
  <2>2. homeDB' = homeDB /\ stackOfIsActualItemBools' \in Seq({FALSE})
    BY NewScreenNamed DEF LeaveMenu
  <2>3. ASSUME NEW table \in DOMAIN quickServeDictionary'
        PROVE  /\ quickServeDictionary'[table].stackOfIsActualItemBools \in Seq({FALSE})
               /\ homeDB => ItemsAreOf(quickServeDictionary'[table])
    BY <2>3, LeftControllersNamed
  <2> QED
    BY <2>1, <2>2, <2>3 DEF NamesInv
<1>5. ASSUME NEW name, TapMenu(name) PROVE NamesInv'
  <2>1. quickServeDictionary' = quickServeDictionary
    BY <1>5 DEF TapMenu, tableVars
  <2>2. /\ stackOfIsActualItemBools' \in Seq({FALSE})
        /\ homeDB' => homeDB /\ ScreenNamed'
    BY <1>5, TappedScreenNamed DEF TapMenu
  <2> QED
    BY <2>1, <2>2 DEF NamesInv
<1>6. ASSUME NEW name, TapItemOfTable(name) PROVE NamesInv'
  <2>1. CASE screen' = "crashed"
    BY <1>6, <2>1, LostTablesNamed DEF TapItemOfTable, TapItem, Crash
  <2>2. CASE screen' # "crashed"
    <3>1. UNCHANGED <<screen, homeDB, menuVars, classNameForDatabase,
                      subclassNameForDatabase, quickServeDictionary>>
      BY <1>6, <2>2 DEF TapItemOfTable, TapItem, Crash
    <3> QED
      BY <3>1 DEF NamesInv, ScreenNamed, menuVars, stackVars
  <2> QED
    BY <2>1, <2>2
<1>7. CASE FlipBack
  <2>1. UNCHANGED <<homeDB, quickServeDictionary>>
    BY <1>7 DEF FlipBack, flipBackMenuItems, tableVars
  <2>2. ScreenNamed' /\ stackOfIsActualItemBools' \in Seq({FALSE})
    BY <1>7, FlippedScreenNamed DEF FlipBack, NamesInv, TypeInv
  <2> QED
    BY <2>1, <2>2 DEF NamesInv
<1>8. CASE TapEmptyMenu \/ MenuRaises
  BY <1>8, LostTablesNamed DEF TapEmptyMenu, TapNothing, MenuRaises, viewDidLoadRaises
<1>9. CASE Relaunch /\ UNCHANGED tableVars
  <2>1. /\ screen = "crashed" /\ screen' = "home"
        /\ UNCHANGED <<quickServeDictionary, stackOfIsActualItemBools>>
    BY <1>9 DEF Relaunch, tableVars, menuVars, stackVars
  <2> QED
    BY <2>1 DEF NamesInv, ReadInv
<1>10. CASE LoseConnection /\ UNCHANGED tableVars
  BY <1>10 DEF NamesInv, LoseConnection, tableVars, menuVars, stackVars
<1>11. CASE UNCHANGED tablesVars
  BY <1>11 DEF NamesInv, ScreenNamed, tablesVars, vars, tableVars, menuVars, stackVars, nameVars
<1> QED
  BY <1>1, <1>2, <1>3, <1>4, <1>5, <1>6, <1>7, <1>8, <1>9, <1>10, <1>11 DEF TablesNext

\* The items of a table's menu are those of the class or subclass that is kept
\* for their lookup, at any number of tables and however often each is reopened.
THEOREM ItemsKeepTheirNames == TablesSpec => []ItemsAreOfTheirNames
<1>1. NamesInv => ItemsAreOfTheirNames
  BY ControllerNamed DEF NamesInv, ItemsAreOfTheirNames
<1>2. TablesInit => NamesInv
  <2> SUFFICES ASSUME TablesInit PROVE NamesInv
    OBVIOUS
  <2>1. /\ screen = "home" /\ DOMAIN quickServeDictionary = {}
        /\ stackOfIsActualItemBools = <<>>
    BY DEF TablesInit, Init, Closed, Fresh
  <2>2. <<>> \in Seq({FALSE})
    OBVIOUS
  <2> QED
    BY <2>1, <2>2 DEF NamesInv
<1> QED
  BY <1>1, <1>2, TablesInitTyped, TablesInitRead, TypeInvStep, ReadInvStep, NamesInvStep,
     TableInvHolds, PTL DEF TablesSpec

=============================================================================
