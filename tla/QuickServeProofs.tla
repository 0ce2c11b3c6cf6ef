-------------------------- MODULE QuickServeProofs --------------------------
(***************************************************************************)
(* For every table, stepper range and sequence of touches: the arrays of   *)
(* an order stay parallel, the labels show the order as it is, the tax     *)
(* names are those of the tax table, no two modifier strings of an item    *)
(* have one choice, and the switches of the modifiers screen are those the *)
(* order will charge.                                                      *)
(*                                                                         *)
(* What the loops of Orders.m compute is expanded where a theorem is about *)
(* it: ChangesFold, ModsPriceTyped and TotalsTyped say what the folds are, *)
(* by induction over the elements (SequenceLemmas).  The theorems about    *)
(* rows, labels and names hold whatever a sum is.                          *)
(***************************************************************************)
EXTENDS QuickServe, SequenceLemmas

\* What a step may do to the rows of the order, whichever screen takes it.
RowStep ==
    \/ newOrder(orderDB')
    \/ \E itemId \in ItemIds : addToOrder(itemId)
    \/ \E row \in DOMAIN currentItemIds :
        removeRow(row) \/ \E value \in Nat \ {0} : setQuantity(row, value)
    \/ \E key \in DOMAIN dictionary :
        updateDictionaryWithModifierString(modifiersToReturnToParent', key)
    \/ UNCHANGED <<currentItemIds, currentQtys, dictionary>>

RowTypeOK ==
    /\ currentItemIds \in Seq(ItemIds)
    /\ currentQtys \in Seq(Nat \ {0})
    /\ DOMAIN dictionary \subseteq ItemIds

RowInv == RowTypeOK /\ OrderConsistent

-----------------------------------------------------------------------------
(* The rows of the order *)

\* A press leaves a stepper on a positive value, so a row that is not removed
\* keeps a positive quantity.
LEMMA PressedPositive ==
    ASSUME RowTypeOK, NEW row \in DOMAIN currentQtys, NEW up \in BOOLEAN
    PROVE  pressed(stepperValue(row), up) \in Nat \ {0}
<1>1. currentQtys[row] \in Nat \ {0}
  BY DEF RowTypeOK
<1>2. stepperValue(row) \in Nat \ {0} /\ stepperValue(row) <= StepperMax
  BY <1>1, StepperAssumption DEF stepperValue, StepperMin
<1> QED
  BY <1>2, StepperAssumption DEF pressed, StepperMin

\* Every step of the screens is one of the row steps.
LEMMA NextIsRowStep ==
    ASSUME RowTypeOK, Len(currentItemIds) = Len(currentQtys), [Next]_vars
    PROVE  RowStep
<1> USE DEF RowStep
<1>1. CASE UNCHANGED <<currentItemIds, currentQtys, dictionary>>
  BY <1>1
<1>2. CASE newOrder(orderDB')
  BY <1>2
<1>3. ASSUME NEW db \in BOOLEAN, OpenQuickServe(db)
      PROVE  newOrder(orderDB')
  BY <1>3 DEF OpenQuickServe, newOrder
<1>4. ASSUME Crash \/ GoHome
      PROVE  newOrder(orderDB')
  BY <1>4 DEF Crash, GoHome, Discard, newOrder
<1>5. ASSUME NEW itemId \in ItemIds, TapItem(itemId)
      PROVE  RowStep
  BY <1>5 DEF TapItem
<1>6. ASSUME NEW row \in DOMAIN currentItemIds, NEW up \in BOOLEAN, stepperValueChanged(row, up)
      PROVE  RowStep
  <2>1. row \in DOMAIN currentQtys
    BY DEF RowTypeOK
  <2>2. pressed(stepperValue(row), up) \in Nat \ {0}
    BY <2>1, PressedPositive
  <2>3. removeRow(row) \/ setQuantity(row, pressed(stepperValue(row), up))
    BY <1>6 DEF stepperValueChanged
  <2> QED
    BY <2>2, <2>3
<1>7. ASSUME NEW cell \in modCells, switchChanged(cell)
      PROVE  RowStep
  <2>1. CASE modItem \in DOMAIN dictionary
    <3>1. updateDictionaryWithModifierString(modifiersToReturnToParent', modItem)
      BY <1>7, <2>1 DEF switchChanged
    <3> QED
      BY <2>1, <3>1
  <2>2. CASE modItem \notin DOMAIN dictionary
    BY <1>2, <1>4, <1>7, <2>2 DEF switchChanged
  <2> QED
    BY <2>1, <2>2
<1>8. CASE UNCHANGED vars
  BY <1>1, <1>8 DEF vars, orderVars
<1>9. ASSUME \/ clickedConfirm \/ CancelConfirm \/ PayNow \/ viewWillAppear \/ Relaunch
             \/ LoseConnection \/ modButtonPressed
      PROVE  RowStep
  BY <1>1, <1>9 DEF clickedConfirm, CancelConfirm, PayNow, viewWillAppear, Relaunch,
        LoseConnection, modButtonPressed, orderVars
<1>10. ASSUME OpenRaises \/ PayLater \/ BackToHome \/ TapUnknownItem
       PROVE  RowStep
  BY <1>2, <1>4, <1>10 DEF OpenRaises, PayLater, BackToHome, TapUnknownItem
<1>11. ASSUME NEW row \in DOMAIN currentItemIds, didSelectRowAtIndexPath(row)
       PROVE  RowStep
  BY <1>1, <1>11 DEF didSelectRowAtIndexPath, orderVars
<1>12. ASSUME NEW cell \in modCells, cellForRowAtIndexPath(cell)
       PROVE  RowStep
  BY <1>1, <1>12 DEF cellForRowAtIndexPath, orderVars
<1> QED
  BY <1>2, <1>3, <1>5, <1>6, <1>7, <1>8, <1>9, <1>10, <1>11, <1>12 DEF Next

\* An added item is appended to both arrays and to the keys, or has its
\* quantity raised in place.
LEMMA AddKeepsRows ==
    ASSUME RowInv, NEW itemId \in ItemIds, addToOrder(itemId)
    PROVE  RowInv'
<1> USE DEF RowInv, RowTypeOK, OrderConsistent
<1>1. CASE \E i \in DOMAIN currentItemIds : currentItemIds[i] = itemId
  <2>1. /\ UNCHANGED <<currentItemIds, dictionary>>
        /\ currentQtys' = [i \in DOMAIN currentQtys |->
                IF currentItemIds[i] = itemId THEN currentQtys[i] + 1 ELSE currentQtys[i]]
    BY <1>1 DEF addToOrder
  <2>2. currentQtys' \in Seq(Nat \ {0}) /\ Len(currentQtys') = Len(currentQtys)
    BY <2>1
  <2> QED
    BY <2>1, <2>2
<1>2. CASE ~ \E i \in DOMAIN currentItemIds : currentItemIds[i] = itemId
  <2>1. /\ currentItemIds' = Append(currentItemIds, itemId)
        /\ currentQtys' = Append(currentQtys, 1)
        /\ DOMAIN dictionary' = DOMAIN dictionary \cup {itemId}
    BY <1>2 DEF addToOrder
  <2>2. /\ currentItemIds' \in Seq(ItemIds)
        /\ currentQtys' \in Seq(Nat \ {0})
        /\ Len(currentItemIds') = Len(currentItemIds) + 1
        /\ Len(currentQtys') = Len(currentQtys) + 1
    BY <2>1
  <2>3. /\ DOMAIN currentItemIds' = 1..(Len(currentItemIds) + 1)
        /\ \A i \in DOMAIN currentItemIds : currentItemIds'[i] = currentItemIds[i]
        /\ currentItemIds'[Len(currentItemIds) + 1] = itemId
        /\ DOMAIN currentItemIds = 1..Len(currentItemIds)
        /\ Len(currentItemIds) \in Nat
    BY <2>1
  <2>4. \A i, j \in DOMAIN currentItemIds' : currentItemIds'[i] = currentItemIds'[j] => i = j
    BY <1>2, <2>3
  <2>5. {currentItemIds'[i] : i \in DOMAIN currentItemIds'}
            = {currentItemIds[i] : i \in DOMAIN currentItemIds} \cup {itemId}
    BY <2>3
  <2> QED
    BY <2>1, <2>2, <2>4, <2>5
<1> QED
  BY <1>1, <1>2

\* A removed row leaves both arrays and the keys together.
LEMMA RemoveKeepsRows ==
    ASSUME RowInv, NEW row \in DOMAIN currentItemIds, removeRow(row)
    PROVE  RowInv'
<1> USE DEF RowInv, RowTypeOK, OrderConsistent
<1>1. /\ currentItemIds' = RemoveAt(currentItemIds, row)
      /\ currentQtys' = RemoveAt(currentQtys, row)
      /\ DOMAIN dictionary' = DOMAIN dictionary \ {currentItemIds[row]}
  BY DEF removeRow
<1>2. row \in DOMAIN currentQtys
  OBVIOUS
<1>3. /\ currentItemIds' \in Seq(ItemIds)
      /\ Len(currentItemIds') = Len(currentItemIds) - 1
  BY <1>1, RemoveAtProperties
<1>4. /\ currentQtys' \in Seq(Nat \ {0})
      /\ Len(currentQtys') = Len(currentQtys) - 1
  <2> HIDE DEF RowInv, RowTypeOK, OrderConsistent
  <2>1. currentQtys \in Seq(Nat \ {0})
    BY DEF RowInv, RowTypeOK
  <2> QED
    BY <1>1, <1>2, <2>1, RemoveAtProperties, Zenon
<1>5. /\ \A i, j \in DOMAIN currentItemIds' : currentItemIds'[i] = currentItemIds'[j] => i = j
      /\ {currentItemIds'[i] : i \in DOMAIN currentItemIds'}
            = {currentItemIds[i] : i \in DOMAIN currentItemIds} \ {currentItemIds[row]}
  <2> HIDE DEF RowInv, RowTypeOK, OrderConsistent
  <2>1. /\ currentItemIds \in Seq(ItemIds)
        /\ \A i, j \in DOMAIN currentItemIds : currentItemIds[i] = currentItemIds[j] => i = j
    BY DEF RowInv, RowTypeOK, OrderConsistent
  <2>2. /\ \A i, j \in DOMAIN RemoveAt(currentItemIds, row) :
            RemoveAt(currentItemIds, row)[i] = RemoveAt(currentItemIds, row)[j] => i = j
        /\ {RemoveAt(currentItemIds, row)[i] : i \in DOMAIN RemoveAt(currentItemIds, row)}
            = {currentItemIds[i] : i \in DOMAIN currentItemIds} \ {currentItemIds[row]}
    BY <2>1, RemoveAtDistinct
  <2> QED
    BY <1>1, <2>2
<1> QED
  BY <1>1, <1>3, <1>4, <1>5

\* Writing a quantity or an item's modifier strings moves no row.
LEMMA WriteKeepsRows ==
    ASSUME RowInv,
           \/ \E row \in DOMAIN currentItemIds :
                \E value \in Nat \ {0} : setQuantity(row, value)
           \/ \E key \in DOMAIN dictionary :
                updateDictionaryWithModifierString(modifiersToReturnToParent', key)
           \/ UNCHANGED <<currentItemIds, currentQtys, dictionary>>
    PROVE  RowInv'
<1> USE DEF RowInv, RowTypeOK, OrderConsistent
<1>1. ASSUME NEW row \in DOMAIN currentItemIds, NEW value \in Nat \ {0}, setQuantity(row, value)
      PROVE  RowInv'
  <2>1. /\ currentQtys' = [currentQtys EXCEPT ![row] = value]
        /\ UNCHANGED <<currentItemIds, dictionary>>
    BY <1>1 DEF setQuantity
  <2>2. currentQtys' \in Seq(Nat \ {0}) /\ Len(currentQtys') = Len(currentQtys)
    BY <2>1
  <2> QED
    BY <2>1, <2>2
<1>2. ASSUME NEW key \in DOMAIN dictionary,
             updateDictionaryWithModifierString(modifiersToReturnToParent', key)
      PROVE  RowInv'
  <2>1. DOMAIN dictionary' = DOMAIN dictionary /\ UNCHANGED <<currentItemIds, currentQtys>>
    BY <1>2 DEF updateDictionaryWithModifierString
  <2> QED
    BY <2>1
<1>3. ASSUME UNCHANGED <<currentItemIds, currentQtys, dictionary>>
      PROVE  RowInv'
  BY <1>3
<1> QED
  BY <1>1, <1>2, <1>3

\* The row invariant is inductive.
LEMMA RowInvInductive == (Init => RowInv) /\ (RowInv /\ [Next]_vars => RowInv')
<1>1. Init => RowInv
  BY DEF Init, OrderInit, RowInv, RowTypeOK, OrderConsistent, NoDictionary
<1>2. RowInv /\ [Next]_vars => RowInv'
  <2> SUFFICES ASSUME RowInv, [Next]_vars
               PROVE  RowInv'
    OBVIOUS
  <2>1. RowStep
    BY NextIsRowStep DEF RowInv, OrderConsistent
  <2>2. CASE newOrder(orderDB')
    BY <2>2 DEF newOrder, RowInv, RowTypeOK, OrderConsistent, NoDictionary
  <2> QED
    BY <2>1, <2>2, AddKeepsRows, RemoveKeepsRows, WriteKeepsRows DEF RowStep
<1> QED
  BY <1>1, <1>2

\* The arrays of an order stay parallel whatever the user touches: every tap,
\* stepper press, removal, modifier switch and screen change keeps one row per
\* item, one quantity per row and one dictionary key per item (OrderConsistent;
\* Orders.m addToOrder, QuickServeController.m stepperValueChanged).
THEOREM OrderStaysConsistent == Spec => []OrderConsistent
<1>1. RowInv => OrderConsistent
  BY DEF RowInv
<1> QED
  BY <1>1, RowInvInductive, PTL DEF Spec

-----------------------------------------------------------------------------
(* Types *)

\* ControlTypeOK without the rows.
ViewTypeOK ==
    /\ taxPercentage \in [Taxes -> Nat]
    /\ taxNames \in [Taxes -> TaxLabels]
    /\ orderDB \in BOOLEAN
    /\ screen \in Screens
    /\ homeDB \in BOOLEAN
    /\ selectedItemId \in ItemIds \cup {Nil}
    /\ nameLabels \in [Taxes -> TaxLabels]
    /\ taxNameChanged \in BOOLEAN

ModTypeOK ==
    /\ modItem \in ItemIds \cup {Nil}
    /\ modCells \subseteq Categories \X ModNames
    /\ modifiersToReturnToParent \in Seq(ModString)
    /\ switchesOn \subseteq modCells

\* The names and percentages a handler can assign are of their types.
LEMMA NamesTyped ==
    /\ placeholderNames \in [Taxes -> TaxLabels]
    /\ \A db : [tax \in Taxes |-> getTaxName(db, tax)] \in [Taxes -> TaxLabels]
    /\ NoPercentage \in [Taxes -> Nat]
<1>1. placeholderNames \in [Taxes -> TaxLabels]
  BY DEF placeholderNames, TaxLabels
<1> QED
  BY <1>1, TablesAssumption DEF getTaxName, NoPercentage, TaxLabels

\* A refresh leaves percentages and labels of their types.
LEMMA RefreshTyped ==
    ASSUME ViewTypeOK, RowTypeOK', taxNames' \in [Taxes -> TaxLabels],
           updateTotalOfOrderLabels
    PROVE  /\ taxPercentage' \in [Taxes -> Nat]
           /\ nameLabels' \in [Taxes -> TaxLabels]
           /\ taxNameChanged' \in BOOLEAN
<1>1. taxPercentage' = PercentagesOf(orderDB', currentItemIds', taxPercentage)
  BY DEF updateTotalOfOrderLabels, updateTotals
<1>2. \A db, id, tax : tax \in Taxes => getTax(db, id, tax) \in Nat
  BY TablesAssumption DEF getTax
<1>3. taxPercentage' \in [Taxes -> Nat]
  BY <1>1, <1>2 DEF PercentagesOf, ViewTypeOK
<1> QED
  BY <1>3 DEF updateTotalOfOrderLabels, ViewTypeOK

\* No step leaves the order, the labels or the selection with another type.
LEMMA ViewTypeStep ==
    ASSUME RowTypeOK, RowTypeOK', ViewTypeOK, ModTypeOK, [Next]_vars
    PROVE  ViewTypeOK'
<1> USE DEF ViewTypeOK
<1>1. CASE Crash \/ GoHome
  BY <1>1, NamesTyped DEF Crash, GoHome, Discard, newOrder, Screens
<1>2. ASSUME NEW db \in BOOLEAN, OpenQuickServe(db)
      PROVE  ViewTypeOK'
  <2>1. taxNames' \in [Taxes -> TaxLabels]
    BY <1>2, NamesTyped DEF OpenQuickServe, newOrder
  <2> QED
    BY <1>2, <2>1, RefreshTyped DEF OpenQuickServe, newOrder, Screens
<1>3. ASSUME NEW itemId \in ItemIds, TapItem(itemId)
      PROVE  ViewTypeOK'
  <2>1. taxNames' \in [Taxes -> TaxLabels] /\ orderDB' = orderDB
    BY <1>3, NamesTyped DEF TapItem, addToOrder, getTaxNames
  <2> QED
    BY <1>3, <2>1, RefreshTyped DEF TapItem
<1>4. ASSUME NEW row \in DOMAIN currentItemIds, NEW up \in BOOLEAN, stepperValueChanged(row, up)
      PROVE  ViewTypeOK'
  <2>1. UNCHANGED <<taxNames, orderDB, screen, homeDB, selectedItemId>>
    BY <1>4 DEF stepperValueChanged, removeRow, setQuantity
  <2> QED
    BY <1>4, <2>1, RefreshTyped DEF stepperValueChanged
<1>5. CASE viewWillAppear
  BY <1>5, RefreshTyped DEF viewWillAppear, Screens
<1>6. ASSUME NEW row \in DOMAIN currentItemIds, didSelectRowAtIndexPath(row)
      PROVE  ViewTypeOK'
  BY <1>6 DEF didSelectRowAtIndexPath, orderVars, RowTypeOK
<1>7. CASE clickedConfirm \/ CancelConfirm \/ PayNow \/ modButtonPressed \/ Relaunch
  BY <1>7 DEF clickedConfirm, CancelConfirm, PayNow, modButtonPressed, Relaunch,
        orderVars, viewVars, Screens
<1>8. CASE LoseConnection
  BY <1>8 DEF LoseConnection, viewVars
<1>9. CASE OpenRaises \/ PayLater \/ BackToHome \/ TapUnknownItem
  BY <1>1, <1>9 DEF OpenRaises, PayLater, BackToHome, TapUnknownItem
<1>10. ASSUME NEW cell \in modCells, cellForRowAtIndexPath(cell) \/ switchChanged(cell)
       PROVE  ViewTypeOK'
  BY <1>1, <1>10 DEF cellForRowAtIndexPath, switchChanged, orderVars, viewVars,
        updateDictionaryWithModifierString
<1>11. CASE UNCHANGED vars
  BY <1>11 DEF vars, orderVars, viewVars
<1> QED
  BY <1>2, <1>3, <1>4, <1>5, <1>6, <1>7, <1>8, <1>9, <1>10, <1>11 DEF Next

\* No step leaves the modifiers screen with another type.
LEMMA ModTypeStep ==
    ASSUME ViewTypeOK, ModTypeOK, [Next]_vars
    PROVE  ModTypeOK'
<1> USE DEF ModTypeOK
<1>1. CASE UNCHANGED modVars
  BY <1>1 DEF modVars
<1>2. CASE closeModifiers
  BY <1>2 DEF closeModifiers
<1>3. CASE Crash \/ GoHome
  BY <1>2, <1>3 DEF Crash, GoHome, Discard
<1>4. CASE modButtonPressed
  <2>1. modCells' \subseteq Categories \X ModNames
    BY <1>4 DEF modButtonPressed, modsToShow
  <2> QED
    BY <1>4, <2>1 DEF modButtonPressed, ViewTypeOK
<1>5. ASSUME NEW cell \in modCells, cellForRowAtIndexPath(cell)
      PROVE  ModTypeOK'
  BY <1>5 DEF cellForRowAtIndexPath
<1>6. ASSUME NEW cell \in modCells, switchChanged(cell)
      PROVE  ModTypeOK'
  <2> DEFINE mod == [category |-> cell[1], choice |-> cell[2], on |-> cell \notin switchesOn]
             array == modifiersToReturnToParent
  <2>1. mod \in ModString
    BY DEF ModString
  <2>2. addStringModOptionToArray(array, mod) \in Seq(ModString)
    <3> HIDE DEF mod
    <3> QED
      BY <2>1 DEF addStringModOptionToArray
  <2>3. CASE modItem \in DOMAIN dictionary
    <3>1. modifiersToReturnToParent' = addStringModOptionToArray(array, mod)
      BY <1>6, <2>3 DEF switchChanged
    <3>2. UNCHANGED <<modItem, modCells>> /\ switchesOn' \subseteq modCells
      BY <1>6, <2>3 DEF switchChanged
    <3> QED
      BY <2>2, <3>1, <3>2
  <2>4. CASE modItem \notin DOMAIN dictionary
    BY <1>3, <1>6, <2>4 DEF switchChanged
  <2> QED
    BY <2>3, <2>4
<1>7. ASSUME \/ \E db \in BOOLEAN : OpenQuickServe(db)
             \/ \E itemId \in ItemIds : TapItem(itemId)
             \/ \E row \in DOMAIN currentItemIds :
                    \/ \E up \in BOOLEAN : stepperValueChanged(row, up)
                    \/ didSelectRowAtIndexPath(row)
             \/ clickedConfirm \/ CancelConfirm \/ PayNow \/ Relaunch \/ LoseConnection
      PROVE  ModTypeOK'
  BY <1>1, <1>7 DEF OpenQuickServe, TapItem, stepperValueChanged, didSelectRowAtIndexPath,
        clickedConfirm, CancelConfirm, PayNow, Relaunch, LoseConnection
<1>8. CASE viewWillAppear
  BY <1>2, <1>8 DEF viewWillAppear
<1>9. CASE OpenRaises \/ PayLater \/ BackToHome \/ TapUnknownItem
  BY <1>3, <1>9 DEF OpenRaises, PayLater, BackToHome, TapUnknownItem
<1>10. CASE UNCHANGED vars
  BY <1>1, <1>10 DEF vars
<1> QED
  BY <1>4, <1>5, <1>6, <1>7, <1>8, <1>9, <1>10 DEF Next

\* Every variable that a step assigns or tests keeps its type: quantities stay
\* positive around the stepper's wrap, and a switch that is on belongs to a
\* cell that is shown.
ControlInv == RowInv /\ ViewTypeOK /\ ModTypeOK

LEMMA ControlInvInductive ==
    (Init => ControlInv) /\ (ControlInv /\ [Next]_vars => ControlInv')
<1>1. Init => ViewTypeOK
  BY NamesTyped DEF Init, OrderInit, ViewInit, ViewTypeOK, Screens
<1>2. Init => ModTypeOK
  BY DEF Init, ModifiersInit, ModTypeOK
<1>3. ControlInv /\ [Next]_vars => ControlInv'
  BY RowInvInductive, ViewTypeStep, ModTypeStep DEF RowInv, ControlInv
<1> QED
  BY <1>1, <1>2, <1>3, RowInvInductive DEF ControlInv

-----------------------------------------------------------------------------
(* The labels *)

\* A refresh makes the labels those of the order it leaves behind.
LEMMA RefreshIsCurrent ==
    ASSUME updateTotalOfOrderLabels
    PROVE  /\ totals' = TotalsOf(orderDB', currentItemIds', currentQtys', dictionary')
           /\ taxPercentage' = PercentagesOf(orderDB', currentItemIds', taxPercentage')
           /\ labels' = LabelsOf(totals', taxPercentage')
<1>1. taxPercentage' = PercentagesOf(orderDB', currentItemIds', taxPercentage)
  BY DEF updateTotalOfOrderLabels, updateTotals
<1>2. taxPercentage' = PercentagesOf(orderDB', currentItemIds', taxPercentage')
  BY <1>1 DEF PercentagesOf
<1> QED
  BY <1>2 DEF updateTotalOfOrderLabels, updateTotals

\* While its connection is up, the order on the screen is shown at the totals
\* of its present rows, quantities and modifiers, whichever screen changed
\* them (BillShownIsCurrent; QuickServeController.m viewWillAppear and
\* updateTotalOfOrderLabels).
THEOREM BillStaysCurrent == Spec => []BillShownIsCurrent
<1> USE DEF BillShownIsCurrent
<1>1. Init => BillShownIsCurrent
  BY DEF Init
<1>2. BillShownIsCurrent /\ [Next]_vars => BillShownIsCurrent'
  <2> SUFFICES ASSUME BillShownIsCurrent, [Next]_vars
               PROVE  BillShownIsCurrent'
    OBVIOUS
  <2>1. CASE updateTotalOfOrderLabels
    BY <2>1, RefreshIsCurrent
  <2>2. CASE Crash \/ GoHome
    BY <2>2 DEF Crash, GoHome, Discard, newOrder
  <2>3. ASSUME NEW db \in BOOLEAN, OpenQuickServe(db)
        PROVE  BillShownIsCurrent'
    BY <2>1, <2>3 DEF OpenQuickServe
  <2>4. ASSUME NEW itemId \in ItemIds, TapItem(itemId)
        PROVE  BillShownIsCurrent'
    BY <2>1, <2>4 DEF TapItem
  <2>5. ASSUME NEW row \in DOMAIN currentItemIds, NEW up \in BOOLEAN,
               stepperValueChanged(row, up)
        PROVE  BillShownIsCurrent'
    BY <2>1, <2>5 DEF stepperValueChanged
  <2>6. ASSUME NEW row \in DOMAIN currentItemIds, didSelectRowAtIndexPath(row)
        PROVE  BillShownIsCurrent'
    BY <2>6 DEF didSelectRowAtIndexPath, orderVars
  <2>7. CASE viewWillAppear
    BY <2>1, <2>7 DEF viewWillAppear
  <2>8. CASE clickedConfirm \/ CancelConfirm
    BY <2>8 DEF clickedConfirm, CancelConfirm, orderVars, viewVars
  <2>9. CASE PayNow \/ modButtonPressed
    BY <2>9 DEF PayNow, modButtonPressed
  <2>10. CASE Relaunch
    BY <2>10 DEF Relaunch
  <2>11. CASE LoseConnection
    BY <2>11 DEF LoseConnection, viewVars
  <2>12. CASE OpenRaises \/ PayLater \/ BackToHome \/ TapUnknownItem
    BY <2>2, <2>12 DEF OpenRaises, PayLater, BackToHome, TapUnknownItem
  <2>13. ASSUME NEW cell \in modCells, cellForRowAtIndexPath(cell) \/ switchChanged(cell)
         PROVE  BillShownIsCurrent'
    <3>1. CASE Crash
      BY <2>2, <3>1
    <3>2. CASE UNCHANGED screen /\ screen = "modifiers"
      BY <3>2
    <3> QED
      BY <2>13, <3>1, <3>2 DEF cellForRowAtIndexPath, switchChanged
  <2>14. CASE UNCHANGED vars
    BY <2>14 DEF vars, orderVars, viewVars
  <2> QED
    BY <2>3, <2>4, <2>5, <2>6, <2>7, <2>8, <2>9, <2>10, <2>11, <2>12, <2>13, <2>14 DEF Next
<1> QED
  BY <1>1, <1>2, PTL DEF Spec

-----------------------------------------------------------------------------
(* The names of the taxes *)

\* The inductive form of TaxNamesShown.  While the connection is up, the order
\* knows either the placeholders or the names of the table, and the latter as
\* soon as it has a row; and the labels show either the table's names for
\* good or whatever the order knows.  No controller has shown names before
\* its order exists.
TaxNamesInv ==
    /\ orderDB =>
        /\ taxNames \in {placeholderNames, taxType}
        /\ currentItemIds # <<>> => taxNames = taxType
        /\ taxNameChanged => nameLabels = taxType
        /\ ~taxNameChanged => nameLabels = taxNames
    /\ screen \in {"home", "crashed"} => ~taxNameChanged

\* Steps that refresh the labels keep the inductive form if the names that the
\* order knows are right.
LEMMA RefreshKeepsNames ==
    ASSUME updateTotalOfOrderLabels,
           screen' = "quickServe",
           orderDB' => /\ taxNames' \in {placeholderNames, taxType}
                       /\ currentItemIds' # <<>> => taxNames' = taxType
                       /\ taxNameChanged => nameLabels = taxType
    PROVE  TaxNamesInv'
<1>1. CASE taxNameChanged
  BY <1>1 DEF TaxNamesInv, updateTotalOfOrderLabels
<1>2. CASE ~taxNameChanged
  <2>1. nameLabels' = taxNames' /\ taxNameChanged' = (taxNames'[1] # placeholderNames[1])
    BY <1>2 DEF updateTotalOfOrderLabels
  <2>2. taxNameChanged' => taxNames' # placeholderNames
    BY <2>1
  <2> QED
    BY <2>1, <2>2 DEF TaxNamesInv
<1> QED
  BY <1>1, <1>2

\* Once a row was ordered over a connection that is up, the tax labels carry
\* the names of the tax table for as long as it stays up (TaxNamesShown;
\* Orders.m getTaxNames, QuickServeController.m updateTotalOfOrderLabels).
THEOREM TaxNamesStayShown == Spec => []TaxNamesShown
<1>1. Init => TaxNamesInv
  BY DEF Init, OrderInit, ViewInit, TaxNamesInv
<1>2. TaxNamesInv /\ [Next]_vars => TaxNamesInv'
  <2> SUFFICES ASSUME TaxNamesInv, [Next]_vars
               PROVE  TaxNamesInv'
    OBVIOUS
  <2>1. CASE Crash \/ GoHome
    BY <2>1 DEF Crash, GoHome, Discard, newOrder, TaxNamesInv
  <2>2. CASE UNCHANGED <<orderDB, taxNames, currentItemIds, taxNameChanged, nameLabels, screen>>
    BY <2>2 DEF TaxNamesInv
  <2>3. ASSUME NEW db \in BOOLEAN, OpenQuickServe(db)
        PROVE  TaxNamesInv'
    BY <2>3, RefreshKeepsNames DEF OpenQuickServe, newOrder, TaxNamesInv
  <2>4. ASSUME NEW itemId \in ItemIds, TapItem(itemId)
        PROVE  TaxNamesInv'
    <3>1. orderDB' = orderDB /\ taxNames' = [tax \in Taxes |-> getTaxName(orderDB, tax)]
      BY <2>4 DEF TapItem, addToOrder, getTaxNames
    <3>2. orderDB => taxNames' = taxType
      BY <3>1, TablesAssumption DEF getTaxName
    <3> QED
      BY <2>4, <3>1, <3>2, RefreshKeepsNames DEF TapItem, TaxNamesInv
  <2>5. ASSUME NEW row \in DOMAIN currentItemIds, NEW up \in BOOLEAN,
               stepperValueChanged(row, up)
        PROVE  TaxNamesInv'
    <3>1. UNCHANGED <<orderDB, taxNames, screen>> /\ screen = "quickServe"
      BY <2>5 DEF stepperValueChanged, removeRow, setQuantity
    <3>2. currentItemIds # <<>>
      OBVIOUS
    <3> QED
      BY <2>5, <3>1, <3>2, RefreshKeepsNames DEF stepperValueChanged, TaxNamesInv
  <2>6. ASSUME NEW row \in DOMAIN currentItemIds, didSelectRowAtIndexPath(row)
        PROVE  TaxNamesInv'
    BY <2>2, <2>6 DEF didSelectRowAtIndexPath, orderVars
  <2>7. CASE viewWillAppear
    BY <2>7, RefreshKeepsNames DEF viewWillAppear, TaxNamesInv
  <2>8. CASE clickedConfirm \/ CancelConfirm \/ PayNow \/ modButtonPressed \/ Relaunch
    BY <2>8 DEF clickedConfirm, CancelConfirm, PayNow, modButtonPressed, Relaunch,
            orderVars, viewVars, TaxNamesInv
  <2>9. CASE LoseConnection
    BY <2>9 DEF LoseConnection, viewVars, TaxNamesInv
  <2>10. CASE OpenRaises \/ PayLater \/ BackToHome \/ TapUnknownItem
    BY <2>1, <2>10 DEF OpenRaises, PayLater, BackToHome, TapUnknownItem
  <2>11. ASSUME NEW cell \in modCells, cellForRowAtIndexPath(cell) \/ switchChanged(cell)
         PROVE  TaxNamesInv'
    BY <2>1, <2>2, <2>11 DEF cellForRowAtIndexPath, switchChanged, orderVars, viewVars,
            updateDictionaryWithModifierString
  <2>12. CASE UNCHANGED vars
    BY <2>2, <2>12 DEF vars, orderVars, viewVars
  <2> QED
    BY <2>3, <2>4, <2>5, <2>6, <2>7, <2>8, <2>9, <2>10, <2>11, <2>12 DEF Next
<1>3. TaxNamesInv => TaxNamesShown
  BY DEF TaxNamesInv, TaxNamesShown
<1> QED
  BY <1>1, <1>2, <1>3, PTL DEF Spec

-----------------------------------------------------------------------------
(* Modifier strings *)

\* A change turns strings into strings.
LEMMA ChangeTyped ==
    ASSUME NEW d \in Seq(ModString), NEW c \in ModString
    PROVE  applyChange(d, c) \in Seq(ModString)
<1>1. ASSUME NEW m \in ModString PROVE [m EXCEPT !.on = c.on] \in ModString
  BY DEF ModString
<1>2. CASE newChangeInDictionary(d, c)
  <2> DEFINE e == [i \in DOMAIN d |-> IF d[i].choice = c.choice THEN [d[i] EXCEPT !.on = c.on] ELSE d[i]]
  <2>1. \A i \in DOMAIN d : e[i] \in ModString
    BY <1>1
  <2>2. DOMAIN e = 1..Len(d) /\ Len(d) \in Nat
    OBVIOUS
  <2>3. e \in Seq(ModString)
    <3> HIDE DEF e
    <3>1. \A i \in 1..Len(d) : e[i] \in ModString
      BY <2>1
    <3>2. e = [i \in 1..Len(d) |-> e[i]]
      BY <2>2 DEF e
    <3> QED
      BY <2>2, <3>1, <3>2
  <2> QED
    BY <1>2, <2>3 DEF applyChange
<1>3. CASE ~newChangeInDictionary(d, c)
  BY <1>3 DEF applyChange
<1> QED
  BY <1>2, <1>3

\* Several changes are made one after another: some g holds the strings after
\* each of them (updateDictionaryWithModifierString; its loop is FoldLeft).
LEMMA ChangesFold ==
    ASSUME NEW start \in Seq(ModString), NEW changes \in Seq(ModString)
    PROVE  \E g \in [0..Len(changes) -> Seq(ModString)] :
             /\ g[0] = start
             /\ \A k \in 1..Len(changes) : g[k] = applyChange(g[k - 1], changes[k])
             /\ FoldLeft(applyChange, start, changes) = g[Len(changes)]
<1> DEFINE S == Seq(ModString)
           m == Len(changes)
           F == [p \in (1..m) \X S |-> applyChange(p[2], changes[p[1]])]
           body(iter, s) == IF s = {} THEN start ELSE applyChange(iter[s \ {Max(s)}], changes[Max(s)])
           eqn(iter) == iter = [s \in SUBSET DOMAIN changes |-> body(iter, s)]
           it == CHOOSE iter : eqn(iter)
<1>1. FoldLeft(applyChange, start, changes) = it[DOMAIN changes]
  BY DEF FoldLeft, MapThenFoldSet
<1>2. m \in Nat /\ DOMAIN changes = 1..m
  OBVIOUS
<1>3. F \in [(1..m) \X S -> S]
  <2>1. ASSUME NEW p \in (1..m) \X S PROVE F[p] \in S
    <3>1. changes[p[1]] \in ModString /\ p[2] \in S
      BY <1>2
    <3> QED
      BY <3>1, ChangeTyped
  <2> QED
    BY <2>1
<1>4. PICK f \in [SUBSET (1..m) -> S] : Folds(f, m, F, start)
  BY <1>2, <1>3, FoldExists DEF Foldable
<1>5. eqn(f)
  <2>1. ASSUME NEW s \in SUBSET (1..m) PROVE f[s] = body(f, s)
    <3>1. CASE s = {}
      BY <1>4, <3>1 DEF Folds
    <3>2. CASE s # {}
      <4>1. Max(s) \in s
        BY <1>2, <3>2, MaxIs
      <4>2. Max(s) \in 1..m /\ f[s \ {Max(s)}] \in S
        BY <1>4, <4>1
      <4>3. f[s] = F[<<Max(s), f[s \ {Max(s)}]>>]
        BY <1>4, <3>2 DEF Folds
      <4> QED
        BY <3>2, <4>2, <4>3
    <3> QED
      BY <3>1, <3>2
  <2> QED
    BY <1>2, <2>1
<1>6. eqn(it)
  <2> HIDE DEF eqn
  <2> QED
    BY <1>5
<1>7. \A s \in SUBSET (1..m) : it[s] = body(it, s)
  <2> HIDE DEF it
  <2> QED
    BY <1>2, <1>6
<1> HIDE DEF it
<1>8. Follows(it, S, m, F, start)
  <2>1. ASSUME NEW s \in SUBSET (1..m), s # {}, it[s \ {Max(s)}] \in S
        PROVE  it[s] = F[<<Max(s), it[s \ {Max(s)}]>>]
    <3>1. Max(s) \in 1..m
      BY <1>2, <2>1, MaxIs
    <3> QED
      BY <1>7, <2>1, <3>1
  <2>2. it[{}] = start
    BY <1>7
  <2> QED
    BY <2>1, <2>2 DEF Follows
<1> HIDE DEF eqn
<1>9. PICK g \in [0..m -> S] :
        /\ g[0] = start
        /\ \A k \in 1..m : g[k] = F[<<k, g[k - 1]>>]
        /\ it[1..m] = g[m]
  <2>1. start \in S
    OBVIOUS
  <2> HIDE DEF F, S, m
  <2>2. FoldedTo(it[1..m], S, m, F, start)
    BY <1>2, <1>3, <1>8, <2>1, FoldValues
  <2> QED
    BY <2>2 DEF FoldedTo
<1>10. \A k \in 1..m : g[k] = applyChange(g[k - 1], changes[k])
  <2>1. ASSUME NEW k \in 1..m PROVE g[k] = applyChange(g[k - 1], changes[k])
    <3>1. k - 1 \in 0..m
      BY <1>2
    <3>2. g[k - 1] \in S
      BY <3>1
    <3>3. g[k] = F[<<k, g[k - 1]>>]
      BY <1>9
    <3> HIDE DEF S
    <3> QED
      BY <3>2, <3>3
  <2> QED
    BY <2>1
<1> QED
  BY <1>1, <1>2, <1>9, <1>10

\* Strings of which no two have one choice.
OneEach(d) == \A i, j \in DOMAIN d : d[i].choice = d[j].choice => i = j

\* A change leaves no two strings with one choice.
LEMMA ChangeKeepsOneEach ==
    ASSUME NEW d \in Seq(ModString), NEW c \in ModString, OneEach(d)
    PROVE  OneEach(applyChange(d, c))
<1>1. CASE newChangeInDictionary(d, c)
  <2> DEFINE e == applyChange(d, c)
  <2>1. e = [i \in DOMAIN d |->
               IF d[i].choice = c.choice THEN [d[i] EXCEPT !.on = c.on] ELSE d[i]]
    BY <1>1 DEF applyChange
  <2>2. \A i \in DOMAIN d : d[i] \in ModString
    OBVIOUS
  <2>3. ASSUME NEW i \in DOMAIN d PROVE e[i].choice = d[i].choice
    BY <2>1, <2>2 DEF ModString
  <2>4. DOMAIN e = DOMAIN d
    BY <2>1
  <2> HIDE DEF e
  <2> QED
    BY <2>3, <2>4 DEF OneEach, e
<1>2. CASE ~newChangeInDictionary(d, c)
  <2> DEFINE e == applyChange(d, c)
  <2>1. e = Append(d, c)
    BY <1>2 DEF applyChange
  <2>2. \A i \in DOMAIN d : d[i].choice # c.choice
    BY <1>2 DEF newChangeInDictionary
  <2>3. /\ DOMAIN e = 1..(Len(d) + 1) /\ DOMAIN d = 1..Len(d) /\ Len(d) \in Nat
        /\ e[Len(d) + 1] = c
        /\ \A i \in 1..Len(d) : e[i] = d[i]
    BY <2>1
  <2> HIDE DEF e
  <2>4. ASSUME NEW i \in DOMAIN e, NEW j \in DOMAIN e, e[i].choice = e[j].choice
        PROVE  i = j
    <3>1. CASE i = Len(d) + 1
      <4>1. j \notin DOMAIN d
        BY <2>2, <2>3, <2>4, <3>1
      <4> QED
        BY <2>3, <3>1, <4>1
    <3>2. CASE j = Len(d) + 1
      <4>1. i \notin DOMAIN d
        BY <2>2, <2>3, <2>4, <3>2
      <4> QED
        BY <2>3, <3>2, <4>1
    <3>3. CASE i \in DOMAIN d /\ j \in DOMAIN d
      BY <2>3, <2>4, <3>3 DEF OneEach
    <3> QED
      BY <2>3, <3>1, <3>2, <3>3
  <2> QED
    BY <2>4 DEF OneEach, e
<1> QED
  BY <1>1, <1>2

\* As a set of strings, a change replaces what has its choice.
Replaced(R, c) == {m \in R : m.choice # c.choice} \cup {c}

\* A string whose choice has one category is replaced as a whole.
LEMMA ChangeReplaces ==
    ASSUME NEW d \in Seq(ModString), NEW c \in ModString,
           \A m \in ToSet(d) : m.choice = c.choice => m.category = c.category
    PROVE  ToSet(applyChange(d, c)) = Replaced(ToSet(d), c)
<1>1. CASE newChangeInDictionary(d, c)
  <2> DEFINE e == applyChange(d, c)
  <2>1. e = [i \in DOMAIN d |->
               IF d[i].choice = c.choice THEN [d[i] EXCEPT !.on = c.on] ELSE d[i]]
    BY <1>1 DEF applyChange
  <2>2. \A i \in DOMAIN d : d[i] \in ModString
    OBVIOUS
  <2>3. ASSUME NEW i \in DOMAIN d PROVE e[i] = IF d[i].choice = c.choice THEN c ELSE d[i]
    <3>1. CASE d[i].choice = c.choice
      <4>1. d[i].category = c.category
        BY <3>1 DEF ToSet
      <4>2. [d[i] EXCEPT !.on = c.on] = c
        BY <2>2, <3>1, <4>1 DEF ModString
      <4> QED
        BY <2>1, <3>1, <4>2
    <3> QED
      BY <2>1, <3>1
  <2>4. DOMAIN e = DOMAIN d /\ \E i \in DOMAIN d : d[i].choice = c.choice
    BY <1>1, <2>1 DEF newChangeInDictionary
  <2> HIDE DEF e
  <2> QED
    BY <2>3, <2>4 DEF ToSet, Replaced, e
<1>2. CASE ~newChangeInDictionary(d, c)
  <2> DEFINE e == applyChange(d, c)
  <2>1. e = Append(d, c)
    BY <1>2 DEF applyChange
  <2>2. \A i \in DOMAIN d : d[i].choice # c.choice
    BY <1>2 DEF newChangeInDictionary
  <2>3. /\ DOMAIN e = DOMAIN d \cup {Len(d) + 1}
        /\ e[Len(d) + 1] = c
        /\ \A i \in DOMAIN d : e[i] = d[i]
    BY <2>1
  <2> HIDE DEF e
  <2> QED
    BY <2>2, <2>3 DEF ToSet, Replaced, e
<1> QED
  BY <1>1, <1>2

\* Nor do several changes, by induction on their number.
LEMMA ChangesKeepOneEach ==
    ASSUME NEW start \in Seq(ModString), NEW changes \in Seq(ModString), OneEach(start)
    PROVE  /\ FoldLeft(applyChange, start, changes) \in Seq(ModString)
           /\ OneEach(FoldLeft(applyChange, start, changes))
<1> DEFINE m == Len(changes)
<1>1. PICK g \in [0..m -> Seq(ModString)] :
        /\ g[0] = start
        /\ \A k \in 1..m : g[k] = applyChange(g[k - 1], changes[k])
        /\ FoldLeft(applyChange, start, changes) = g[m]
  BY ChangesFold
<1>2. m \in Nat /\ \A k \in 1..m : changes[k] \in ModString
  OBVIOUS
<1> HIDE DEF m
<1>3. ASSUME NEW k \in 0..m, k < m, OneEach(g[k]) PROVE OneEach(g[k + 1])
  <2>1. k + 1 \in 1..m /\ (k + 1) - 1 = k
    BY <1>2, <1>3
  <2>2. g[k + 1] = applyChange(g[k], changes[k + 1])
    BY <1>1, <2>1
  <2>3. g[k] \in Seq(ModString) /\ changes[k + 1] \in ModString
    BY <1>2, <2>1
  <2> QED
    BY <1>3, <2>2, <2>3, ChangeKeepsOneEach
<1> DEFINE T == {k \in 0..m : OneEach(g[k])}
<1>4. T = 0..m
  <2>1. T \in SUBSET (0..m) /\ 0 \in T
    BY <1>1, <1>2
  <2>2. \A k \in T : k < m => k + 1 \in T
    BY <1>2, <1>3
  <2> HIDE DEF T
  <2> QED
    BY <1>2, <2>1, <2>2, InductionUpTo
<1>5. OneEach(g[m])
  <2>1. m \in 0..m
    BY <1>2
  <2>2. m \in T
    BY <1>4, <2>1
  <2> QED
    BY <2>2
<1>6. FoldLeft(applyChange, start, changes) \in Seq(ModString)
  BY <1>1, <1>2
<1> QED
  BY <1>1, <1>5, <1>6

\* The dictionary of the order: every item has strings of distinct choices.
DictInv == \A id \in DOMAIN dictionary :
    dictionary[id] \in Seq(ModString) /\ OneEach(dictionary[id])

\* No step of the screens leaves the dictionary otherwise.
LEMMA DictStep ==
    ASSUME RowTypeOK, OrderConsistent, DictInv, ModTypeOK', [Next]_vars
    PROVE  DictInv'
<1> USE DEF DictInv
<1>1. CASE newOrder(orderDB')
  BY <1>1 DEF newOrder, NoDictionary
<1>2. ASSUME NEW itemId \in ItemIds, addToOrder(itemId)
      PROVE  DictInv'
  <2>1. OneEach(<<>>) /\ <<>> \in Seq(ModString)
    BY DEF OneEach
  <2>2. CASE UNCHANGED dictionary
    BY <2>2
  <2>3. CASE dictionary' = [id \in DOMAIN dictionary \cup {itemId} |->
                                IF id = itemId THEN <<>> ELSE dictionary[id]]
    <3>1. ASSUME NEW id \in DOMAIN dictionary'
          PROVE  dictionary'[id] \in Seq(ModString) /\ OneEach(dictionary'[id])
      <4>1. CASE id = itemId
        BY <2>1, <2>3, <4>1
      <4>2. CASE id # itemId
        BY <2>3, <4>2
      <4> QED
        BY <4>1, <4>2
    <3> QED
      BY <3>1
  <2> QED
    BY <1>2, <2>2, <2>3 DEF addToOrder
<1>3. ASSUME NEW row \in DOMAIN currentItemIds, removeRow(row)
      PROVE  DictInv'
  BY <1>3 DEF removeRow
<1>4. ASSUME NEW key \in DOMAIN dictionary,
             updateDictionaryWithModifierString(modifiersToReturnToParent', key)
      PROVE  DictInv'
  <2> DEFINE new == FoldLeft(applyChange, dictionary[key], modifiersToReturnToParent')
  <2>1. dictionary' = [dictionary EXCEPT ![key] = new]
    BY <1>4 DEF updateDictionaryWithModifierString
  <2>2. modifiersToReturnToParent' \in Seq(ModString)
    BY DEF ModTypeOK
  <2>3. new \in Seq(ModString) /\ OneEach(new)
    BY <2>2, ChangesKeepOneEach
  <2> HIDE DEF new
  <2> QED
    BY <2>1, <2>3
<1>5. CASE UNCHANGED dictionary
  BY <1>5
<1>6. RowStep
  BY NextIsRowStep DEF OrderConsistent
<1> QED
  BY <1>1, <1>2, <1>3, <1>4, <1>5, <1>6 DEF RowStep, setQuantity

\* The strings and the types of the control are inductive together.
LEMMA DictInvInductive ==
    /\ Init => DictInv
    /\ ControlInv /\ DictInv /\ [Next]_vars => DictInv'
<1>1. Init => DictInv
  BY DEF Init, OrderInit, NoDictionary, DictInv
<1>2. ControlInv /\ DictInv /\ [Next]_vars => DictInv'
  BY ControlInvInductive, DictStep DEF ControlInv, RowInv
<1> QED
  BY <1>1, <1>2

\* No order comes to hold two modifier strings with one choice, however often
\* and on how many visits its modifiers are toggled (OneStringPerChoice;
\* Orders.m updateDictionaryWithModifierString, newChangeInDictionary).
THEOREM StringsStayDistinct == Spec => []OneStringPerChoice
<1>1. DictInv => OneStringPerChoice
  BY DEF DictInv, OneEach, OneStringPerChoice
<1> QED
  BY <1>1, ControlInvInductive, DictInvInductive, PTL DEF Spec

-----------------------------------------------------------------------------
(* The switches of the modifiers screen *)

\* What a set of strings of distinct choices is after one of them, or mod,
\* was applied.
LEMMA ReplacedTwice ==
    ASSUME NEW R, NEW mod, NEW c,
           \A m \in R : m.choice = c.choice => m = c,
           c \in R, c.choice # mod.choice
    PROVE  /\ Replaced(R, c) = R
           /\ Replaced(Replaced(R, mod), c) = Replaced(R, mod)
           /\ Replaced(Replaced(R, mod), mod) = Replaced(R, mod)
<1>1. Replaced(R, c) = R
  BY DEF Replaced
<1>2. Replaced(Replaced(R, mod), c) = Replaced(R, mod)
  BY DEF Replaced
<1>3. Replaced(Replaced(R, mod), mod) = Replaced(R, mod)
  BY DEF Replaced
<1> QED
  BY <1>1, <1>2, <1>3

\* What a visit sends: mod, and otherwise strings of R.
Sends(visit, mod, R) ==
    /\ \A i \in DOMAIN visit :
        \/ visit[i] = mod
        \/ visit[i] \in R /\ visit[i].choice # mod.choice
    /\ \E i \in DOMAIN visit : visit[i] = mod

\* All strings of a visit, sent again with one that is new, change that one
\* only.
LEMMA ChangesReplace ==
    ASSUME NEW start \in Seq(ModString), NEW changes \in Seq(ModString), NEW mod \in ModString,
           OneEach(start),
           \A m \in ToSet(start) : m.choice = mod.choice => m.category = mod.category,
           Sends(changes, mod, ToSet(start))
    PROVE  ToSet(FoldLeft(applyChange, start, changes)) = Replaced(ToSet(start), mod)
<1> DEFINE n == Len(changes)
           R == ToSet(start)
           Rm == Replaced(R, mod)
<1>1. PICK g \in [0..n -> Seq(ModString)] :
        /\ g[0] = start
        /\ \A k \in 1..n : g[k] = applyChange(g[k - 1], changes[k])
        /\ FoldLeft(applyChange, start, changes) = g[n]
  BY ChangesFold
<1>2. n \in Nat /\ DOMAIN changes = 1..n /\ \A k \in 1..n : changes[k] \in ModString
  OBVIOUS
<1>3. \A x, y \in R : x.choice = y.choice => x = y
  <2> SUFFICES ASSUME NEW x \in R, NEW y \in R, x.choice = y.choice PROVE x = y
    OBVIOUS
  <2>1. PICK i \in DOMAIN start : x = start[i]
    BY DEF ToSet
  <2>2. PICK j \in DOMAIN start : y = start[j]
    BY DEF ToSet
  <2>3. \A k, l \in DOMAIN start : start[k].choice = start[l].choice => k = l
    BY DEF OneEach
  <2>4. start[i].choice = start[j].choice
    BY <2>1, <2>2
  <2>5. i = j
    BY <2>3, <2>4
  <2> QED
    BY <2>1, <2>2, <2>5
<1>4. \A k \in 1..n :
        \/ changes[k] = mod
        \/ changes[k] \in R /\ changes[k].choice # mod.choice
  BY <1>2 DEF Sends
<1>5. \A x \in R : x.choice = mod.choice => x.category = mod.category
  OBVIOUS
<1> HIDE DEF n, R
<1> DEFINE Done(k) == \/ ToSet(g[k]) = Rm
                      \/ ToSet(g[k]) = R /\ \A j \in 1..k : changes[j] # mod
<1>6. ASSUME NEW k \in 0..n, k < n, Done(k) PROVE Done(k + 1)
  <2>1. k + 1 \in 1..n /\ (k + 1) - 1 = k /\ k \in Nat
    BY <1>2, <1>6
  <2> DEFINE c == changes[k + 1]
             d == g[k]
  <2>2. g[k + 1] = applyChange(d, c)
    BY <1>1, <2>1
  <2>3. d \in Seq(ModString) /\ c \in ModString
    BY <1>2, <2>1
  <2>4. c = mod \/ (c \in R /\ c.choice # mod.choice)
    BY <1>4, <2>1
  <2>5. ToSet(d) = Rm \/ ToSet(d) = R
    BY <1>6
  <2>6. \A j \in 1..(k + 1) : j = k + 1 \/ j \in 1..k
    BY <2>1
  <2>7. ToSet(d) = R => \A j \in 1..k : ToSet(d) = Rm \/ changes[j] # mod
    BY <1>6
  <2> HIDE DEF c, d, Done
  <2>8. \A m \in ToSet(d) : m.choice = c.choice => m.category = c.category
    <3>1. CASE c = mod
      BY <1>5, <2>5, <3>1 DEF Replaced
    <3>2. CASE c \in R /\ c.choice # mod.choice
      BY <1>3, <2>5, <3>2 DEF Replaced
    <3> QED
      BY <2>4, <3>1, <3>2
  <2>9. ToSet(g[k + 1]) = Replaced(ToSet(d), c)
    BY <2>2, <2>3, <2>8, ChangeReplaces
  <2>10. CASE c = mod
    <3>1. Replaced(R, mod) = Rm /\ Replaced(Rm, mod) = Rm
      BY DEF Replaced
    <3>2. ToSet(g[k + 1]) = Rm
      BY <2>5, <2>9, <2>10, <3>1
    <3> QED
      BY <3>2 DEF Done
  <2>11. CASE c \in R /\ c.choice # mod.choice
    <3>1. \A m \in R : m.choice = c.choice => m = c
      BY <1>3, <2>11
    <3>2. Replaced(R, c) = R /\ Replaced(Rm, c) = Rm
      BY <2>11, <3>1, ReplacedTwice
    <3>3. ToSet(g[k + 1]) = ToSet(d)
      BY <2>5, <2>9, <3>2
    <3>4. CASE ToSet(d) = Rm
      BY <3>3, <3>4 DEF Done
    <3>5. CASE ToSet(d) # Rm
      <4>1. ToSet(d) = R /\ \A j \in 1..k : changes[j] # mod
        BY <2>5, <2>7, <3>5
      <4>2. changes[k + 1] # mod
        BY <2>11 DEF c
      <4>3. \A j \in 1..(k + 1) : changes[j] # mod
        BY <2>6, <4>1, <4>2
      <4> QED
        BY <3>3, <4>1, <4>3 DEF Done
    <3> QED
      BY <3>4, <3>5
  <2> QED
    BY <2>4, <2>10, <2>11
<1>7. Done(0)
  <2>1. \A j \in 1..0 : FALSE
    OBVIOUS
  <2> QED
    BY <1>1, <2>1 DEF R
<1> DEFINE T == {k \in 0..n : Done(k)}
<1>8. T = 0..n
  <2> HIDE DEF Done
  <2>1. T \in SUBSET (0..n) /\ 0 \in T
    BY <1>2, <1>7
  <2>2. \A k \in T : k < n => k + 1 \in T
    BY <1>2, <1>6
  <2> HIDE DEF T
  <2> QED
    BY <1>2, <2>1, <2>2, InductionUpTo
<1>9. Done(n)
  <2> HIDE DEF Done
  <2>1. n \in 0..n
    BY <1>2
  <2> QED
    BY <1>8, <2>1
<1>10. \E j \in 1..n : changes[j] = mod
  BY <1>2 DEF Sends
<1>11. ToSet(g[n]) = Rm
  BY <1>9, <1>10
<1> QED
  BY <1>1, <1>11 DEF R

\* The cell that a string is about.
CellOf(mod) == <<mod.category, mod.choice>>

\* The inductive form of SwitchesMatchOrder: the order knows only strings of
\* cells its items offer, a modifiers screen shows all of them or, without a
\* connection, none, and whatever was toggled on this visit the order has.
SwitchInv ==
    /\ \A id \in DOMAIN dictionary : \A m \in ToSet(dictionary[id]) :
            CellOf(m) \in modsToShow(TRUE, id)
    /\ screen = "modifiers" => modCells \in {{}, modsToShow(TRUE, modItem)}
    /\ screen = "modifiers" /\ modItem \in DOMAIN dictionary =>
            \A i \in DOMAIN modifiersToReturnToParent :
                modifiersToReturnToParent[i] \in ToSet(dictionary[modItem])
    /\ SwitchesMatchOrder

\* The strings of an item of the order that are on, as cells.
LEMMA CellsOnAre ==
    ASSUME NEW id \in DOMAIN dictionary
    PROVE  CellsOn(id) = {CellOf(m) : m \in {x \in ToSet(dictionary[id]) : x.on}}
BY DEF CellsOn, CellOf, objectForKey, ToSet

\* With distinct choices, the first string with a choice is the only one.
LEMMA NameInKeyIs ==
    ASSUME DictInv, NEW id \in DOMAIN dictionary, NEW name
    PROVE  nameInKey(name, id) <=>
                \E m \in ToSet(dictionary[id]) : m.choice = name /\ m.on
<1> DEFINE mods == dictionary[id]
           named == {i \in DOMAIN mods : mods[i].choice = name}
<1>1. mods \in Seq(ModString) /\ OneEach(mods)
  BY DEF DictInv
<1>2. Len(mods) \in Nat /\ DOMAIN mods = 1..Len(mods) /\ named \in SUBSET (1..Len(mods))
  BY <1>1
<1>3. nameInKey(name, id) <=> named # {} /\ mods[Min(named)].on
  BY DEF nameInKey, objectForKey
<1>4. CASE named = {}
  BY <1>3, <1>4 DEF ToSet
<1>5. CASE named # {}
  <2>1. Min(named) \in named
    BY <1>2, <1>5, MinIs
  <2>2. \A i \in named : i = Min(named)
    BY <1>1, <2>1 DEF OneEach
  <2> DEFINE first == Min(named)
  <2>3. first \in DOMAIN mods /\ mods[first].choice = name
    BY <2>1
  <2>4. \A i \in DOMAIN mods : mods[i].choice = name => i = first
    BY <2>2
  <2> HIDE DEF first, mods
  <2>5. (\E m \in ToSet(mods) : m.choice = name /\ m.on) <=> mods[first].on
    BY <2>3, <2>4 DEF ToSet
  <2> QED
    BY <1>3, <1>5, <2>5 DEF first, mods
<1> QED
  BY <1>4, <1>5

\* A cell is in the set of those that are on exactly if its name is that of a
\* string that is on.
LEMMA NameIsCell ==
    ASSUME UniqueNames, DictInv, NEW id \in DOMAIN dictionary, id \in ItemIds,
           \A m \in ToSet(dictionary[id]) : CellOf(m) \in modsToShow(TRUE, id),
           NEW cell \in modsToShow(TRUE, id)
    PROVE  nameInKey(cell[2], id) <=> cell \in CellsOn(id)
<1> DEFINE on == {x \in ToSet(dictionary[id]) : x.on}
<1>1. CellsOn(id) = {CellOf(m) : m \in on}
  BY CellsOnAre
<1>2. \A m \in ToSet(dictionary[id]) : m.choice = cell[2] => CellOf(m) = cell
  <2> SUFFICES ASSUME NEW m \in ToSet(dictionary[id]), m.choice = cell[2]
               PROVE  CellOf(m) = cell
    OBVIOUS
  <2>1. CellOf(m) \in modsToShow(TRUE, id) /\ CellOf(m)[2] = cell[2]
    BY DEF CellOf
  <2> QED
    BY <2>1 DEF UniqueNames
<1>3. \A m : CellOf(m) = cell => m.choice = cell[2]
  BY DEF CellOf
<1>4. nameInKey(cell[2], id) <=> \E m \in ToSet(dictionary[id]) : m.choice = cell[2] /\ m.on
  BY NameInKeyIs
<1> QED
  BY <1>1, <1>2, <1>3, <1>4

\* A modifier cell of an item is offered whether or not its query succeeds.
LEMMA ShownCells ==
    ASSUME NEW db \in BOOLEAN, NEW id \in ItemIds \cup {Nil}
    PROVE  modsToShow(db, id) \in {{}, modsToShow(TRUE, id)}
<1>1. CASE Found(db, id)
  <2>1. db = TRUE
    BY <1>1 DEF Found
  <2> QED
    BY <2>1
<1>2. CASE ~Found(db, id)
  <2>1. modOptions(db, id) = [category \in Categories |-> <<>>]
    BY <1>2 DEF modOptions
  <2>2. ToSet(<<>>) = {}
    BY DEF ToSet
  <2>3. \A cell \in Categories \X ModNames : cell[2] \notin ToSet(modOptions(db, id)[cell[1]])
    BY <2>1, <2>2
  <2> QED
    BY <2>3 DEF modsToShow
<1> QED
  BY <1>1, <1>2

\* The strings of the visit after a toggle: the toggled one, and others that
\* the order has already.
LEMMA VisitAfterToggle ==
    ASSUME NEW array \in Seq(ModString), NEW mod \in ModString, NEW R, NEW new,
           \A i \in DOMAIN array : array[i] \in R,
           \A m \in R : m.choice = mod.choice => m.category = mod.category,
           new = addStringModOptionToArray(array, mod)
    PROVE  new \in Seq(ModString) /\ Sends(new, mod, R)
<1> DEFINE same(i) == array[i].category = mod.category /\ array[i].choice = mod.choice
<1>1. \A i \in DOMAIN array : ~same(i) => array[i] \in R /\ array[i].choice # mod.choice
  OBVIOUS
<1>2. /\ DOMAIN array = 1..Len(array) /\ Len(array) \in Nat
      /\ \A i \in DOMAIN array : array[i] \in ModString
  OBVIOUS
<1>3. CASE \E i \in DOMAIN array : same(i)
  <2>1. new = [i \in DOMAIN array |-> IF same(i) THEN mod ELSE array[i]]
    BY <1>3 DEF addStringModOptionToArray
  <2>2. PICK k \in DOMAIN array : same(k)
    BY <1>3
  <2> HIDE DEF same
  <2>3. new \in Seq(ModString)
    <3>1. \A i \in 1..Len(array) : new[i] \in ModString
      BY <1>2, <2>1
    <3>2. new = [i \in 1..Len(array) |-> new[i]]
      BY <1>2, <2>1
    <3> QED
      BY <1>2, <3>1, <3>2
  <2>4. DOMAIN new = DOMAIN array /\ new[k] = mod
    BY <2>1, <2>2
  <2>5. \A i \in DOMAIN new :
            \/ new[i] = mod
            \/ new[i] \in R /\ new[i].choice # mod.choice
    BY <1>1, <2>1
  <2> QED
    BY <2>3, <2>4, <2>5 DEF Sends
<1>4. CASE ~ \E i \in DOMAIN array : same(i)
  <2>1. new = Append(array, mod)
    BY <1>4 DEF addStringModOptionToArray
  <2>2. \A i \in DOMAIN array : array[i] \in R /\ array[i].choice # mod.choice
    BY <1>1, <1>4
  <2>3. /\ new \in Seq(ModString)
        /\ DOMAIN new = DOMAIN array \cup {Len(array) + 1}
        /\ new[Len(array) + 1] = mod
        /\ \A i \in DOMAIN array : new[i] = array[i]
    BY <2>1
  <2> HIDE DEF same
  <2> QED
    BY <2>2, <2>3 DEF Sends
<1> QED
  BY <1>3, <1>4

\* A toggle changes the one string of the order that its cell stands for.
LEMMA ToggleKeepsSwitches ==
    ASSUME UniqueNames, ControlInv, DictInv, SwitchInv,
           NEW cell \in modCells, switchChanged(cell), modItem \in DOMAIN dictionary
    PROVE  SwitchInv'
<1> DEFINE mod == [category |-> cell[1], choice |-> cell[2], on |-> cell \notin switchesOn]
           d == dictionary[modItem]
           R == ToSet(d)
           visit == addStringModOptionToArray(modifiersToReturnToParent, mod)
<1>1. /\ screen = "modifiers"
      /\ UNCHANGED <<screen, modItem, modCells>>
      /\ modifiersToReturnToParent' = visit
      /\ dictionary' = [dictionary EXCEPT ![modItem] = FoldLeft(applyChange, d, visit)]
      /\ switchesOn' = IF cell \notin switchesOn THEN switchesOn \cup {cell}
                                                 ELSE switchesOn \ {cell}
  BY DEF switchChanged, updateDictionaryWithModifierString
<1>2. /\ modCells = modsToShow(TRUE, modItem)
      /\ modItem \in ItemIds
      /\ cell \in Categories \X ModNames
      /\ modifiersToReturnToParent \in Seq(ModString)
      /\ d \in Seq(ModString) /\ OneEach(d)
  BY <1>1 DEF SwitchInv, ControlInv, RowInv, RowTypeOK, ModTypeOK, DictInv
<1>3. mod \in ModString /\ CellOf(mod) = cell /\ mod.choice = cell[2] /\ mod.category = cell[1]
  BY <1>2 DEF ModString, CellOf
<1>4. \A m \in R : CellOf(m) \in modsToShow(TRUE, modItem)
  BY DEF SwitchInv
<1>5. \A m \in R : m.choice = cell[2] => CellOf(m) = cell /\ m.category = cell[1]
  <2> SUFFICES ASSUME NEW m \in R, m.choice = cell[2]
               PROVE  CellOf(m) = cell /\ m.category = cell[1]
    OBVIOUS
  <2>1. CellOf(m) \in modsToShow(TRUE, modItem) /\ CellOf(m)[2] = cell[2]
    BY <1>4 DEF CellOf
  <2>2. CellOf(m) = cell
    BY <1>2, <2>1 DEF UniqueNames
  <2> QED
    BY <2>2 DEF CellOf
<1>6. \A i \in DOMAIN modifiersToReturnToParent : modifiersToReturnToParent[i] \in R
  BY <1>1 DEF SwitchInv
<1>7. CellsOn(modItem) = {CellOf(m) : m \in {x \in R : x.on}}
  BY CellsOnAre
<1>8. switchesOn = CellsOn(modItem)
  BY <1>1 DEF SwitchInv, SwitchesMatchOrder
<1>9. mod.on = (cell \notin switchesOn)
  OBVIOUS
<1> HIDE DEF mod, R
<1>10. visit \in Seq(ModString) /\ Sends(visit, mod, R)
  <2>1. \A m \in R : m.choice = mod.choice => m.category = mod.category
    BY <1>3, <1>5
  <2>2. visit = addStringModOptionToArray(modifiersToReturnToParent, mod)
    OBVIOUS
  <2>3. modifiersToReturnToParent \in Seq(ModString) /\ mod \in ModString
    BY <1>2, <1>3
  <2> HIDE DEF visit
  <2> QED
    BY <1>6, <2>1, <2>2, <2>3, VisitAfterToggle
<1> HIDE DEF visit
<1>11. ToSet(dictionary'[modItem]) = Replaced(R, mod)
  <2>1. dictionary'[modItem] = FoldLeft(applyChange, d, visit)
    BY <1>1
  <2>2. \A m \in ToSet(d) : m.choice = mod.choice => m.category = mod.category
    BY <1>3, <1>5 DEF R
  <2> HIDE DEF d
  <2>3. ToSet(FoldLeft(applyChange, d, visit)) = Replaced(ToSet(d), mod)
    BY <1>2, <1>3, <1>10, <2>2, ChangesReplace DEF R
  <2> QED
    BY <2>1, <2>3 DEF R
<1>12. \A id \in DOMAIN dictionary' : \A m \in ToSet(dictionary'[id]) :
            CellOf(m) \in modsToShow(TRUE, id)
  <2> SUFFICES ASSUME NEW id \in DOMAIN dictionary', NEW m \in ToSet(dictionary'[id])
               PROVE  CellOf(m) \in modsToShow(TRUE, id)
    OBVIOUS
  <2>1. CASE id = modItem
    <3>1. m \in R \/ m = mod
      BY <1>11, <2>1 DEF Replaced
    <3> QED
      BY <1>2, <1>3, <1>4, <2>1, <3>1
  <2>2. CASE id # modItem
    <3>1. id \in DOMAIN dictionary /\ dictionary'[id] = dictionary[id]
      BY <1>1, <2>2
    <3> QED
      BY <3>1 DEF SwitchInv
  <2> QED
    BY <2>1, <2>2
<1>13. \A i \in DOMAIN visit : visit[i] \in ToSet(dictionary'[modItem])
  BY <1>10, <1>11 DEF Replaced, Sends
<1>14. SwitchesMatchOrder'
  <2> DEFINE new == ToSet(dictionary'[modItem])
  <2>1. modItem \in DOMAIN dictionary'
    BY <1>1
  <2>2. CellsOn(modItem)' = {CellOf(m) : m \in {x \in new : x.on}}
    BY <1>1, <2>1 DEF CellsOn, CellOf, objectForKey, ToSet
  <2>3. new = {m \in R : m.choice # cell[2]} \cup {mod}
    BY <1>3, <1>11 DEF Replaced
  <2>4. \A m : CellOf(m) = cell => m.choice = cell[2]
    BY DEF CellOf
  <2> HIDE DEF new
  <2>5. ASSUME NEW c PROVE c \in CellsOn(modItem)' <=> c \in switchesOn'
    <3>1. CASE c = cell
      <4>1. c \in CellsOn(modItem)' <=> mod.on
        BY <1>3, <2>2, <2>3, <2>4, <3>1
      <4>2. c \in switchesOn' <=> cell \notin switchesOn
        BY <1>1, <3>1
      <4> QED
        BY <1>9, <4>1, <4>2
    <3>2. CASE c # cell
      <4>1. c \in CellsOn(modItem)' <=> c \in CellsOn(modItem)
        BY <1>3, <1>5, <1>7, <2>2, <2>3, <3>2
      <4>2. c \in switchesOn' <=> c \in switchesOn
        BY <1>1, <3>2
      <4> QED
        BY <1>8, <4>1, <4>2
    <3> QED
      BY <3>1, <3>2
  <2>6. switchesOn' = CellsOn(modItem)'
    BY <2>5
  <2> QED
    BY <2>6 DEF SwitchesMatchOrder
<1> QED
  BY <1>1, <1>2, <1>12, <1>13, <1>14 DEF SwitchInv

\* What the order has are cells of its items, whatever happens to the rows.
LEMMA RowsKeepCells ==
    ASSUME SwitchInv,
           \/ newOrder(orderDB')
           \/ \E itemId \in ItemIds : addToOrder(itemId)
           \/ \E row \in DOMAIN currentItemIds : removeRow(row)
           \/ UNCHANGED dictionary
    PROVE  \A id \in DOMAIN dictionary' : \A m \in ToSet(dictionary'[id]) :
                CellOf(m) \in modsToShow(TRUE, id)
<1> DEFINE Known(dict) == \A id \in DOMAIN dict : \A m \in ToSet(dict[id]) :
                              CellOf(m) \in modsToShow(TRUE, id)
<1>1. Known(dictionary)
  BY DEF SwitchInv
<1>2. ToSet(<<>>) = {}
  BY DEF ToSet
<1>3. CASE newOrder(orderDB')
  BY <1>3 DEF newOrder, NoDictionary
<1>4. ASSUME NEW itemId \in ItemIds, addToOrder(itemId)
      PROVE  Known(dictionary')
  <2>1. CASE UNCHANGED dictionary
    BY <1>1, <2>1
  <2>2. CASE dictionary' = [id \in DOMAIN dictionary \cup {itemId} |->
                                IF id = itemId THEN <<>> ELSE dictionary[id]]
    <3> SUFFICES ASSUME NEW id \in DOMAIN dictionary', NEW m \in ToSet(dictionary'[id])
                 PROVE  CellOf(m) \in modsToShow(TRUE, id)
      OBVIOUS
    <3>1. id # itemId
      BY <1>2, <2>2
    <3>2. id \in DOMAIN dictionary /\ dictionary'[id] = dictionary[id]
      BY <2>2, <3>1
    <3> QED
      BY <1>1, <3>2
  <2> QED
    BY <1>4, <2>1, <2>2 DEF addToOrder
<1>5. ASSUME NEW row \in DOMAIN currentItemIds, removeRow(row)
      PROVE  Known(dictionary')
  <2>1. dictionary' = [id \in DOMAIN dictionary \ {currentItemIds[row]} |-> dictionary[id]]
    BY <1>5 DEF removeRow
  <2>2. \A id \in DOMAIN dictionary' : id \in DOMAIN dictionary /\ dictionary'[id] = dictionary[id]
    BY <2>1
  <2> QED
    BY <1>1, <2>2
<1>6. CASE UNCHANGED dictionary
  BY <1>1, <1>6
<1> QED
  BY <1>3, <1>4, <1>5, <1>6

\* No step of the screens parts the switches from the order.
LEMMA SwitchStep ==
    ASSUME UniqueNames, ControlInv, DictInv, SwitchInv, [Next]_vars
    PROVE  SwitchInv'
<1> DEFINE Known(dict) == \A id \in DOMAIN dict : \A m \in ToSet(dict[id]) :
                              CellOf(m) \in modsToShow(TRUE, id)
<1>1. ASSUME NEW cell \in modCells, switchChanged(cell), modItem \in DOMAIN dictionary
      PROVE  SwitchInv'
  BY <1>1, ToggleKeepsSwitches
<1>2. ASSUME Known(dictionary'), screen' # "modifiers"
      PROVE  SwitchInv'
  BY <1>2 DEF SwitchInv, SwitchesMatchOrder
<1>3. ASSUME \/ newOrder(orderDB')
             \/ \E itemId \in ItemIds : addToOrder(itemId)
             \/ \E row \in DOMAIN currentItemIds : removeRow(row)
             \/ UNCHANGED dictionary
      PROVE  Known(dictionary')
  BY <1>3, RowsKeepCells
<1> HIDE DEF Known
<1>4. CASE Crash \/ GoHome
  BY <1>2, <1>3, <1>4 DEF Crash, GoHome, Discard, newOrder
<1>5. ASSUME NEW db \in BOOLEAN, OpenQuickServe(db)
      PROVE  SwitchInv'
  BY <1>2, <1>3, <1>5 DEF OpenQuickServe, newOrder
<1>6. ASSUME NEW itemId \in ItemIds, TapItem(itemId)
      PROVE  SwitchInv'
  BY <1>2, <1>3, <1>6 DEF TapItem
<1>7. ASSUME NEW row \in DOMAIN currentItemIds,
             didSelectRowAtIndexPath(row) \/ \E up \in BOOLEAN : stepperValueChanged(row, up)
      PROVE  SwitchInv'
  <2>1. screen' # "modifiers"
    BY <1>7 DEF didSelectRowAtIndexPath, stepperValueChanged
  <2>2. removeRow(row) \/ UNCHANGED dictionary
    BY <1>7 DEF didSelectRowAtIndexPath, stepperValueChanged, setQuantity, orderVars
  <2> QED
    BY <1>2, <1>3, <2>1, <2>2
<1>8. CASE viewWillAppear \/ clickedConfirm \/ CancelConfirm \/ PayNow \/ Relaunch
  BY <1>2, <1>3, <1>8
     DEF viewWillAppear, clickedConfirm, CancelConfirm, PayNow, Relaunch, orderVars
<1>9. CASE OpenRaises \/ PayLater \/ BackToHome \/ TapUnknownItem
  BY <1>4, <1>9 DEF OpenRaises, PayLater, BackToHome, TapUnknownItem
<1>10. CASE UNCHANGED <<dictionary, screen, modVars>>
  BY <1>10 DEF SwitchInv, SwitchesMatchOrder, CellsOn, objectForKey, modVars
<1>11. CASE LoseConnection \/ UNCHANGED vars
  BY <1>10, <1>11 DEF LoseConnection, vars, orderVars
<1>12. CASE modButtonPressed
  <2>1. /\ UNCHANGED dictionary
        /\ modItem' = selectedItemId
        /\ modCells' = modsToShow(homeDB, selectedItemId)
        /\ modifiersToReturnToParent' = <<>>
        /\ switchesOn' = {cell \in modCells' : nameInKey(cell[2], selectedItemId)}
    BY <1>12 DEF modButtonPressed, orderVars
  <2>2. modCells' \in {{}, modsToShow(TRUE, modItem')}
    BY <2>1, ShownCells DEF ControlInv, ViewTypeOK
  <2>3. Known(dictionary')
    BY <1>3, <2>1
  <2>4. ASSUME selectedItemId \in DOMAIN dictionary, modCells' # {}
        PROVE  switchesOn' = CellsOn(selectedItemId)
    <3>1. modCells' = modsToShow(TRUE, selectedItemId) /\ selectedItemId \in ItemIds
      BY <2>1, <2>2, <2>4 DEF ControlInv, RowInv, RowTypeOK
    <3>2. \A m \in ToSet(dictionary[selectedItemId]) : CellOf(m) \in modsToShow(TRUE, selectedItemId)
      BY <2>4 DEF SwitchInv
    <3>3. \A cell \in modCells' : nameInKey(cell[2], selectedItemId) <=> cell \in CellsOn(selectedItemId)
      <4>1. ASSUME NEW cell \in modsToShow(TRUE, selectedItemId)
            PROVE  nameInKey(cell[2], selectedItemId) <=> cell \in CellsOn(selectedItemId)
        BY <2>4, <3>1, <3>2, NameIsCell
      <4> QED
        BY <3>1, <4>1
    <3>4. CellsOn(selectedItemId) \subseteq modCells'
      <4>1. CellsOn(selectedItemId)
                = {CellOf(m) : m \in {x \in ToSet(dictionary[selectedItemId]) : x.on}}
        BY <2>4, CellsOnAre
      <4> QED
        BY <3>1, <3>2, <4>1
    <3> QED
      BY <2>1, <3>3, <3>4
  <2>5. CellsOn(modItem)' = CellsOn(selectedItemId)
    BY <2>1 DEF CellsOn, objectForKey
  <2>6. SwitchesMatchOrder'
    BY <2>1, <2>4, <2>5 DEF SwitchesMatchOrder
  <2>7. DOMAIN modifiersToReturnToParent' = {}
    BY <2>1
  <2>8. \A id \in DOMAIN dictionary' : \A m \in ToSet(dictionary'[id]) :
            CellOf(m) \in modsToShow(TRUE, id)
    BY <2>3 DEF Known
  <2> QED
    BY <2>2, <2>6, <2>7, <2>8 DEF SwitchInv
<1>13. ASSUME NEW cell \in modCells, cellForRowAtIndexPath(cell)
       PROVE  SwitchInv'
  <2>1. /\ UNCHANGED <<dictionary, screen, modItem, modCells, modifiersToReturnToParent>>
        /\ screen = "modifiers"
        /\ switchesOn' = IF nameInKey(cell[2], modItem) THEN switchesOn \cup {cell}
                                                        ELSE switchesOn \ {cell}
    BY <1>13 DEF cellForRowAtIndexPath, orderVars
  <2>2. ASSUME modItem \in DOMAIN dictionary
        PROVE  switchesOn' = switchesOn
    <3>1. modCells = modsToShow(TRUE, modItem) /\ modItem \in ItemIds
      BY <2>1, <2>2 DEF SwitchInv, ControlInv, RowInv, RowTypeOK
    <3>2. \A m \in ToSet(dictionary[modItem]) : CellOf(m) \in modsToShow(TRUE, modItem)
      BY <2>2 DEF SwitchInv
    <3>3. nameInKey(cell[2], modItem) <=> cell \in CellsOn(modItem)
      BY <2>2, <3>1, <3>2, NameIsCell
    <3>4. switchesOn = CellsOn(modItem)
      BY <2>1, <2>2 DEF SwitchInv, SwitchesMatchOrder
    <3> QED
      BY <2>1, <3>3, <3>4
  <2>3. CellsOn(modItem)' = CellsOn(modItem)
    BY <2>1 DEF CellsOn, objectForKey
  <2> QED
    BY <2>1, <2>2, <2>3 DEF SwitchInv, SwitchesMatchOrder
<1> QED
  BY <1>1, <1>4, <1>5, <1>6, <1>7, <1>8, <1>9, <1>11, <1>12, <1>13 DEF Next, switchChanged

\* If the names an item offers are unique across its categories, the switches
\* that are on are the modifiers its order will charge, after any toggles,
\* scrolling and earlier visits (SwitchesMatchOrder; QuickModifierController.m
\* switchChanged, Orders.m nameInKey).
THEOREM SwitchesFollowOrder ==
    ASSUME UniqueNames PROVE Spec => []SwitchesMatchOrder
<1>1. Init => SwitchInv
  BY DEF Init, OrderInit, NoDictionary, SwitchInv, SwitchesMatchOrder
<1>2. ControlInv /\ DictInv /\ SwitchInv /\ [Next]_vars => SwitchInv'
  BY SwitchStep
<1>3. SwitchInv => SwitchesMatchOrder
  BY DEF SwitchInv
<1> QED
  BY <1>1, <1>2, <1>3, ControlInvInductive, DictInvInductive, PTL DEF Spec

-----------------------------------------------------------------------------
(* Sums *)

\* What totals can be.
TotalsRecord == [amount : Nat, price : Nat]

\* Prices and rates are never negative.
LEMMA PricesTyped ==
    ASSUME NEW db \in BOOLEAN, NEW itemId \in ItemIds
    PROVE  /\ getLunchPriceUsing(db, itemId) \in Nat
           /\ \A tax \in Taxes : getTax(db, itemId, tax) \in Nat
           /\ \A mod : modPrice(db, itemId, mod) \in Nat
<1>1. ASSUME NEW rows \in Seq(Row), NEW name
      PROVE  PriceOfFirst(rows, RowsNamed(rows, name)) \in Nat
  <2> DEFINE named == RowsNamed(rows, name)
  <2>1. Len(rows) \in Nat /\ named \in SUBSET (1..Len(rows))
    BY DEF RowsNamed
  <2>2. CASE named = {}
    BY <2>2 DEF PriceOfFirst
  <2>3. CASE named # {}
    <3>1. Min(named) \in 1..Len(rows)
      BY <2>1, <2>3, MinIs
    <3>2. rows[Min(named)] \in Row
      BY <3>1
    <3> QED
      BY <2>3, <3>2 DEF PriceOfFirst, Row
  <2> QED
    BY <2>2, <2>3
<1>2. tblQuantity[itemId] \in Seq(Row) /\ tblExtras[itemId] \in Seq(Row)
  BY TablesAssumption
<1>3. \A name : /\ getModPriceQuantity(db, itemId, name) \in Nat
                /\ getModPriceExtra(db, itemId, name) \in Nat
  BY <1>1, <1>2 DEF getModPriceQuantity, getModPriceExtra
<1>4. \A n \in Nat : intValue(n) \in Nat
  BY DEF intValue
<1>5. ASSUME NEW mod PROVE modPrice(db, itemId, mod) \in Nat
  <2>1. intValue(getModPriceQuantity(db, itemId, mod.choice)) \in Nat
    BY <1>3, <1>4
  <2>2. getModPriceExtra(db, itemId, mod.choice) \in Nat
    BY <1>3
  <2> QED
    BY <2>1, <2>2 DEF modPrice
<1>6. getLunchPriceUsing(db, itemId) \in Nat
  BY TablesAssumption DEF getLunchPriceUsing
<1>7. \A tax \in Taxes : getTax(db, itemId, tax) \in Nat
  BY TablesAssumption DEF getTax
<1> QED
  BY <1>5, <1>6, <1>7

\* The modifiers of an item cost a sum.
LEMMA ModsPriceTyped ==
    ASSUME NEW db \in BOOLEAN, NEW itemId \in ItemIds, NEW mods \in Seq(ModString)
    PROVE  priceOfEveryModUsing(db, itemId, mods) \in Nat
<1> DEFINE m == Len(mods)
           F == [p \in (1..m) \X Nat |-> p[2] + modPrice(db, itemId, mods[p[1]])]
           body(iter, s) == IF s = {} THEN 0
                            ELSE iter[s \ {Max(s)}] + modPrice(db, itemId, mods[Max(s)])
           eqn(iter) == iter = [s \in SUBSET DOMAIN mods |-> body(iter, s)]
           it == CHOOSE iter : eqn(iter)
<1>1. priceOfEveryModUsing(db, itemId, mods) = it[DOMAIN mods]
  BY DEF priceOfEveryModUsing, FoldLeft, MapThenFoldSet
<1>2. m \in Nat /\ DOMAIN mods = 1..m
  OBVIOUS
<1>3. F \in [(1..m) \X Nat -> Nat]
  <2>1. ASSUME NEW p \in (1..m) \X Nat PROVE p[2] + modPrice(db, itemId, mods[p[1]]) \in Nat
    <3>1. modPrice(db, itemId, mods[p[1]]) \in Nat /\ p[2] \in Nat
      BY PricesTyped
    <3> QED
      BY <3>1
  <2> QED
    BY <2>1
<1>4. PICK f \in [SUBSET (1..m) -> Nat] : Folds(f, m, F, 0)
  BY <1>2, <1>3, FoldExists DEF Foldable
<1>5. eqn(f)
  <2>1. ASSUME NEW s \in SUBSET (1..m) PROVE f[s] = body(f, s)
    <3>1. CASE s = {}
      BY <1>4, <3>1 DEF Folds
    <3>2. CASE s # {}
      <4>1. Max(s) \in s
        BY <1>2, <3>2, MaxIs
      <4>2. Max(s) \in 1..m /\ f[s \ {Max(s)}] \in Nat
        BY <1>4, <4>1
      <4>3. f[s] = F[<<Max(s), f[s \ {Max(s)}]>>]
        BY <1>4, <3>2 DEF Folds
      <4> QED
        BY <3>2, <4>2, <4>3
    <3> QED
      BY <3>1, <3>2
  <2> QED
    BY <1>2, <2>1
<1>6. eqn(it)
  <2> HIDE DEF eqn
  <2> QED
    BY <1>5
<1>7. \A s \in SUBSET (1..m) : it[s] = body(it, s)
  <2> HIDE DEF it
  <2> QED
    BY <1>2, <1>6
<1> HIDE DEF it
<1>8. Follows(it, Nat, m, F, 0)
  <2>1. ASSUME NEW s \in SUBSET (1..m), s # {}, it[s \ {Max(s)}] \in Nat
        PROVE  it[s] = F[<<Max(s), it[s \ {Max(s)}]>>]
    <3>1. Max(s) \in 1..m
      BY <1>2, <2>1, MaxIs
    <3> QED
      BY <1>7, <2>1, <3>1
  <2>2. it[{}] = 0
    BY <1>7
  <2> QED
    BY <2>1, <2>2 DEF Follows
<1>9. it[1..m] \in Nat
  <2> HIDE DEF F, m
  <2>1. FoldedTo(it[1..m], Nat, m, F, 0)
    BY <1>2, <1>3, <1>8, FoldValues
  <2> QED
    BY <1>2, <2>1 DEF FoldedTo
<1> QED
  BY <1>1, <1>2, <1>9

\* The totals of an order are sums over its rows.
LEMMA TotalsTyped ==
    ASSUME NEW db \in BOOLEAN, NEW ids \in Seq(ItemIds), NEW qtys \in Seq(Nat \ {0}),
           Len(ids) = Len(qtys), NEW dict,
           \A id \in DOMAIN dict : dict[id] \in Seq(ModString)
    PROVE  TotalsOf(db, ids, qtys, dict) \in TotalsRecord
<1> DEFINE m == Len(ids)
           add(sum, i) ==
              LET price == getLunchPriceUsing(db, ids[i])
                  unit  == price + priceOfEveryModUsing(db, ids[i], objectForKey(dict, ids[i]))
                  rate  == getTax(db, ids[i], 1) + getTax(db, ids[i], 2)
              IN  [amount |-> sum.amount + qtys[i] * unit,
                   price  |-> sum.price + qtys[i] * (100 * unit + price * rate)]
           index == [i \in DOMAIN ids |-> i]
           F == [p \in (1..m) \X TotalsRecord |-> add(p[2], p[1])]
           body(iter, s) == IF s = {} THEN NoTotals
                            ELSE add(iter[s \ {Max(s)}], index[Max(s)])
           eqn(iter) == iter = [s \in SUBSET DOMAIN index |-> body(iter, s)]
           it == CHOOSE iter : eqn(iter)
<1>1. TotalsOf(db, ids, qtys, dict) = it[DOMAIN index]
  BY DEF TotalsOf, FoldLeftDomain, FoldLeft, MapThenFoldSet
<1>2. m \in Nat /\ DOMAIN ids = 1..m /\ DOMAIN index = 1..m /\ \A i \in 1..m : index[i] = i
  OBVIOUS
<1>3. ASSUME NEW sum \in TotalsRecord, NEW i \in 1..m PROVE add(sum, i) \in TotalsRecord
  <2>1. ids[i] \in ItemIds /\ qtys[i] \in Nat /\ sum.amount \in Nat /\ sum.price \in Nat
    BY DEF TotalsRecord
  <2>2. objectForKey(dict, ids[i]) \in Seq(ModString)
    BY DEF objectForKey
  <2> DEFINE price == getLunchPriceUsing(db, ids[i])
             extra == priceOfEveryModUsing(db, ids[i], objectForKey(dict, ids[i]))
             one == getTax(db, ids[i], 1)
             two == getTax(db, ids[i], 2)
  <2>3. price \in Nat /\ one \in Nat /\ two \in Nat
    <3>1. 1 \in Taxes /\ 2 \in Taxes
      BY DEF Taxes
    <3>2. /\ price \in Nat
          /\ \A tax \in Taxes : getTax(db, ids[i], tax) \in Nat
      BY <2>1, PricesTyped
    <3> QED
      BY <3>1, <3>2
  <2>4. extra \in Nat
    BY <2>1, <2>2, ModsPriceTyped
  <2>5. add(sum, i) = [amount |-> sum.amount + qtys[i] * (price + extra),
                       price  |-> sum.price
                                    + qtys[i] * (100 * (price + extra) + price * (one + two))]
    OBVIOUS
  <2> HIDE DEF price, extra, one, two, add
  <2>6. qtys[i] * (price + extra) \in Nat /\ price * (one + two) \in Nat
    BY <2>1, <2>3, <2>4
  <2>7. 100 * (price + extra) + price * (one + two) \in Nat
    BY <2>3, <2>4, <2>6
  <2> DEFINE taxedPrice == 100 * (price + extra) + price * (one + two)
             charge == qtys[i] * (price + extra)
  <2>8. qtys[i] * taxedPrice \in Nat
    <3> HIDE DEF taxedPrice
    <3>1. \A x, y \in Nat : x * y \in Nat
      OBVIOUS
    <3>2. taxedPrice \in Nat
      BY <2>7 DEF taxedPrice
    <3> QED
      BY <2>1, <3>1, <3>2
  <2> DEFINE taxedCharge == qtys[i] * taxedPrice
  <2>9. charge \in Nat /\ taxedCharge \in Nat
       /\ add(sum, i) = [amount |-> sum.amount + charge, price |-> sum.price + taxedCharge]
    BY <2>5, <2>6, <2>8
  <2> HIDE DEF taxedCharge, charge
  <2> QED
    BY <2>1, <2>9 DEF TotalsRecord
<1> HIDE DEF add
<1>4. F \in [(1..m) \X TotalsRecord -> TotalsRecord]
  <2>1. ASSUME NEW p \in (1..m) \X TotalsRecord PROVE add(p[2], p[1]) \in TotalsRecord
    BY <1>3
  <2> QED
    BY <2>1
<1>5. NoTotals \in TotalsRecord
  BY DEF NoTotals, TotalsRecord
<1>6. PICK f \in [SUBSET (1..m) -> TotalsRecord] : Folds(f, m, F, NoTotals)
  BY <1>2, <1>4, <1>5, FoldExists DEF Foldable
<1>7. eqn(f)
  <2>1. ASSUME NEW s \in SUBSET (1..m) PROVE f[s] = body(f, s)
    <3>1. CASE s = {}
      BY <1>6, <3>1 DEF Folds
    <3>2. CASE s # {}
      <4>1. Max(s) \in s
        BY <1>2, <3>2, MaxIs
      <4>2. Max(s) \in 1..m /\ f[s \ {Max(s)}] \in TotalsRecord
        BY <1>6, <4>1
      <4>3. f[s] = F[<<Max(s), f[s \ {Max(s)}]>>]
        BY <1>6, <3>2 DEF Folds
      <4> HIDE DEF index
      <4> QED
        BY <1>2, <3>2, <4>2, <4>3
    <3> QED
      BY <3>1, <3>2
  <2> HIDE DEF body
  <2> QED
    BY <1>2, <2>1
<1>8. eqn(it)
  <2> HIDE DEF eqn
  <2> QED
    BY <1>7
<1>9. \A s \in SUBSET (1..m) : it[s] = body(it, s)
  <2> HIDE DEF it, body, index
  <2> QED
    BY <1>2, <1>8
<1> HIDE DEF it
<1>10. Follows(it, TotalsRecord, m, F, NoTotals)
  <2>1. ASSUME NEW s \in SUBSET (1..m), s # {}, it[s \ {Max(s)}] \in TotalsRecord
        PROVE  it[s] = F[<<Max(s), it[s \ {Max(s)}]>>]
    <3>1. Max(s) \in 1..m /\ index[Max(s)] = Max(s)
      BY <1>2, <2>1, MaxIs
    <3> HIDE DEF index
    <3>2. it[s] = add(it[s \ {Max(s)}], Max(s))
      BY <1>9, <2>1, <3>1
    <3> QED
      BY <2>1, <3>1, <3>2
  <2>2. it[{}] = NoTotals
    BY <1>9
  <2> QED
    BY <2>1, <2>2 DEF Follows
<1>11. it[1..m] \in TotalsRecord
  <2> HIDE DEF F, m
  <2>1. FoldedTo(it[1..m], TotalsRecord, m, F, NoTotals)
    BY <1>2, <1>4, <1>5, <1>10, FoldValues
  <2> QED
    BY <1>2, <2>1 DEF FoldedTo
<1> QED
  BY <1>1, <1>2, <1>11

\* The labels of totals are numbers.
LEMMA LabelsTyped ==
    ASSUME NEW tot \in TotalsRecord, NEW pct \in [Taxes -> Nat]
    PROVE  LabelsOf(tot, pct) \in LabelRecord
<1>1. \A n \in Int : stringFromNumber(n) \in Int
  BY DEF stringFromNumber
<1>2. tot.amount \in Nat /\ tot.price \in Nat /\ pct[1] \in Nat /\ pct[2] \in Nat
  BY DEF TotalsRecord, Taxes
<1>3. \A n \in Nat : intValue(n) \in Int
  BY DEF intValue
<1> DEFINE tax == tot.price - 100 * intValue(tot.amount)
<1>4. tax \in Int
  BY <1>2, <1>3
<1>5. \A x, y \in Nat : x * y \in Int
  OBVIOUS
<1>6. tot.amount * pct[1] \in Int /\ tot.amount * pct[2] \in Int /\ 100 * tot.amount \in Int
  BY <1>2, <1>5
<1>7. LabelsOf(tot, pct) = [amount |-> stringFromNumber(100 * tot.amount),
                            tax    |-> stringFromNumber(tax),
                            total  |-> stringFromNumber(tot.price),
                            first  |-> stringFromNumber(tax - tot.amount * pct[2]),
                            second |-> stringFromNumber(tax - tot.amount * pct[1])]
  BY DEF LabelsOf
<1> HIDE DEF tax
<1>8. tax - tot.amount * pct[2] \in Int /\ tax - tot.amount * pct[1] \in Int /\ tot.price \in Int
  <2>1. \A x, y \in Int : x - y \in Int
    OBVIOUS
  <2> QED
    BY <1>2, <1>4, <1>6, <2>1
<1> QED
  BY <1>1, <1>4, <1>6, <1>7, <1>8 DEF LabelRecord

\* The sums and what is shown of them.
MoneyInv == totals \in TotalsRecord /\ labels \in LabelRecord

\* A refresh leaves sums and labels, and no other step writes them.
LEMMA MoneyStep ==
    ASSUME MoneyInv, ControlInv', DictInv', [Next]_vars
    PROVE  MoneyInv'
<1> USE DEF MoneyInv
<1>1. CASE updateTotalOfOrderLabels
  <2>1. /\ totals' = TotalsOf(orderDB', currentItemIds', currentQtys', dictionary')
        /\ labels' = LabelsOf(totals', taxPercentage')
    BY <1>1, RefreshIsCurrent
  <2>2. totals' \in TotalsRecord
    BY <2>1, TotalsTyped
       DEF ControlInv, RowInv, RowTypeOK, OrderConsistent, ViewTypeOK, DictInv
  <2>3. taxPercentage' \in [Taxes -> Nat]
    BY DEF ControlInv, ViewTypeOK
  <2>4. LabelsOf(totals', taxPercentage') \in LabelRecord
    BY <2>2, <2>3, LabelsTyped
  <2> QED
    BY <2>1, <2>2, <2>4
<1>2. CASE Crash \/ GoHome
  <2>1. NoTotals \in TotalsRecord /\ ZeroLabels \in LabelRecord
    BY DEF NoTotals, ZeroLabels, TotalsRecord, LabelRecord
  <2>2. totals' = NoTotals /\ labels' = ZeroLabels
    BY <1>2 DEF Crash, GoHome, Discard
  <2> QED
    BY <2>1, <2>2
<1>3. CASE UNCHANGED <<totals, labels>>
  BY <1>3
<1>4. CASE \E db \in BOOLEAN : OpenQuickServe(db)
  BY <1>1, <1>4 DEF OpenQuickServe
<1>5. CASE viewWillAppear \/ \E itemId \in ItemIds : TapItem(itemId)
  BY <1>1, <1>5 DEF viewWillAppear, TapItem
<1>6. ASSUME NEW row \in DOMAIN currentItemIds,
             didSelectRowAtIndexPath(row) \/ \E up \in BOOLEAN : stepperValueChanged(row, up)
      PROVE  MoneyInv'
  BY <1>1, <1>3, <1>6 DEF stepperValueChanged, didSelectRowAtIndexPath, orderVars
<1>7. CASE clickedConfirm \/ CancelConfirm \/ PayNow \/ Relaunch \/ LoseConnection
            \/ modButtonPressed
  BY <1>3, <1>7 DEF clickedConfirm, CancelConfirm, PayNow, Relaunch, LoseConnection,
        modButtonPressed, orderVars, viewVars
<1>8. CASE OpenRaises \/ PayLater \/ BackToHome \/ TapUnknownItem
  BY <1>2, <1>8 DEF OpenRaises, PayLater, BackToHome, TapUnknownItem
<1>9. ASSUME NEW cell \in modCells, cellForRowAtIndexPath(cell) \/ switchChanged(cell)
      PROVE  MoneyInv'
  BY <1>2, <1>3, <1>9 DEF cellForRowAtIndexPath, switchChanged, orderVars, viewVars,
        updateDictionaryWithModifierString
<1>10. CASE UNCHANGED vars
  BY <1>3, <1>10 DEF vars, orderVars, viewVars
<1> QED
  BY <1>4, <1>5, <1>6, <1>7, <1>8, <1>9, <1>10 DEF Next

\* Every variable keeps its type: quantities stay positive around the stepper's
\* wrap, only a cell that is shown has a switch that is on, and the sums over
\* rows and modifier strings are numbers (TypeOK).
THEOREM TypesHold == Spec => []TypeOK
<1>1. Init => MoneyInv
  BY DEF Init, OrderInit, ViewInit, NoTotals, ZeroLabels, MoneyInv, TotalsRecord, LabelRecord
<1>2. MoneyInv /\ ControlInv' /\ DictInv' /\ [Next]_vars => MoneyInv'
  BY MoneyStep
<1>3. ControlInv /\ DictInv /\ MoneyInv => TypeOK
  BY DEF ControlInv, RowInv, RowTypeOK, ViewTypeOK, ModTypeOK, DictInv, MoneyInv,
         TotalsRecord, TypeOK, ControlTypeOK, DataTypeOK
<1> QED
  BY <1>1, <1>2, <1>3, ControlInvInductive, DictInvInductive, PTL DEF Spec
=============================================================================
