------------------------------- MODULE Orders -------------------------------
(***************************************************************************)
(* Model/Orders.m: one customer's order.                                   *)
(*                                                                         *)
(* The order is two arrays that run in parallel, a dictionary from item to *)
(* modifier strings, and totals that are recomputed from the database on   *)
(* every change.  The steps below are the methods of the class; they name  *)
(* every variable of the order and none of the screens.  QuickServe.tla    *)
(* drives them.                                                            *)
(***************************************************************************)
EXTENDS OrderTables

VARIABLES
    currentItemIds,  \* the ids of the order, in the order they were first added
    currentQtys,     \* their quantities, at the same indices
    dictionary,      \* item id -> the modifier strings chosen for it
    totals,          \* totalAmount (cents) and totalPrice (hundredths of a cent)
    taxPercentage,   \* taxOnePercentage and taxTwoPercentage, in percent
    taxNames,        \* nameOfFirstTax and nameOfSecondTax
    orderDB          \* whether the connection of the order's own database is up

orderVars == <<currentItemIds, currentQtys, dictionary, totals, taxPercentage,
               taxNames, orderDB>>

\* A modifier string "Modifier 3:M1:1" is a category, a choice and a boolean.
\* Formatting and splitting at the colons are inverse to each other, because
\* no name contains a colon: names are themselves the result of such a split.
ModString == [category : Categories, choice : ModNames, on : BOOLEAN]

NoTotals == [amount |-> 0, price |-> 0]

\* What a tax name label can show.
TaxLabels == TaxTypes \cup {"Tax One", "Tax Two", Nil}

placeholderNames == [tax \in Taxes |-> IF tax = 1 THEN "Tax One" ELSE "Tax Two"]

-----------------------------------------------------------------------------
(* Totals *)

\* The price of a quantity modifier is read with intValue: whole dollars.
intValue(cents) == 100 * (cents \div 100)

modPrice(db, itemId, mod) ==
    CASE ~mod.on -> 0
      [] mod.on /\ mod.category = 2 -> intValue(getModPriceQuantity(db, itemId, mod.choice))
      [] mod.on /\ mod.category = 3 -> getModPriceExtra(db, itemId, mod.choice)
      [] OTHER -> 0

priceOfEveryModUsing(db, itemId, modsInDict) ==
    FoldLeft(LAMBDA sum, mod : sum + modPrice(db, itemId, mod), 0, modsInDict)

\* objectForKey: answers nil, which counts no strings, for an unknown item.
objectForKey(dict, itemId) == IF itemId \in DOMAIN dict THEN dict[itemId] ELSE <<>>

\* The amount is charged with the modifiers, the taxes without them.
TotalsOf(db, ids, qtys, dict) ==
    FoldLeftDomain(
        LAMBDA sum, i :
            LET price == getLunchPriceUsing(db, ids[i])
                unit  == price + priceOfEveryModUsing(db, ids[i], objectForKey(dict, ids[i]))
                rate  == getTax(db, ids[i], 1) + getTax(db, ids[i], 2)
            IN  [amount |-> sum.amount + qtys[i] * unit,
                 price  |-> sum.price + qtys[i] * (100 * unit + price * rate)],
        NoTotals, ids)

\* The percentages left behind by the loop: those of the last item, or the
\* earlier ones when there is no item to loop over.
PercentagesOf(db, ids, earlier) ==
    IF ids = <<>> THEN earlier
    ELSE [tax \in Taxes |-> getTax(db, ids[Len(ids)], tax)]

updateTotals ==
    /\ totals' = TotalsOf(orderDB', currentItemIds', currentQtys', dictionary')
    /\ taxPercentage' = PercentagesOf(orderDB', currentItemIds', taxPercentage)

-----------------------------------------------------------------------------
(* Adding and removing items *)

NoDictionary == [itemId \in {} |-> <<>>]
NoPercentage == [tax \in Taxes |-> 0]

\* init; the totals and percentages it leaves nil read as 0.
OrderInit ==
    /\ currentItemIds = <<>>
    /\ currentQtys = <<>>
    /\ dictionary = NoDictionary
    /\ totals = NoTotals
    /\ taxPercentage = NoPercentage
    /\ taxNames = placeholderNames
    /\ orderDB = FALSE

\* A new order takes the place of the old; db says whether its connection
\* could be made.
newOrder(db) ==
    /\ currentItemIds' = <<>>
    /\ currentQtys' = <<>>
    /\ dictionary' = NoDictionary
    /\ taxNames' = placeholderNames
    /\ orderDB' = db

\* Slip: "ONLY QUERY ONCE PER ORDER", but not before there is an order.
getTaxNamesOnce ==
    taxNames' = IF currentItemIds = <<>> THEN taxNames
                ELSE [tax \in Taxes |-> getTaxName(orderDB, tax)]

getTaxNames == taxNames' = [tax \in Taxes |-> getTaxName(orderDB, tax)]

\* An id that is in the order has its quantity increased at each of its
\* indices; any other is appended with quantity 1 and no modifier strings.
addToOrder(itemId) ==
    /\ getTaxNames
    /\ IF \E i \in DOMAIN currentItemIds : currentItemIds[i] = itemId
       THEN /\ currentQtys' = [i \in DOMAIN currentQtys |->
                                 IF currentItemIds[i] = itemId THEN currentQtys[i] + 1
                                                               ELSE currentQtys[i]]
            /\ UNCHANGED <<currentItemIds, dictionary>>
       ELSE /\ currentItemIds' = Append(currentItemIds, itemId)
            /\ currentQtys' = Append(currentQtys, 1)
            /\ dictionary' = [id \in DOMAIN dictionary \cup {itemId} |->
                                IF id = itemId THEN <<>> ELSE dictionary[id]]
    /\ UNCHANGED orderDB

\* Slip: the key stays in the dictionary.
removeRowKeepingMods(row) ==
    /\ currentItemIds' = RemoveAt(currentItemIds, row)
    /\ currentQtys' = RemoveAt(currentQtys, row)
    /\ UNCHANGED <<dictionary, taxNames, orderDB>>

\* Slip: the quantity that goes is that of the last row.
removeRowLastQuantity(row) ==
    /\ dictionary' = [id \in DOMAIN dictionary \ {currentItemIds[row]} |-> dictionary[id]]
    /\ currentItemIds' = RemoveAt(currentItemIds, row)
    /\ currentQtys' = Front(currentQtys)
    /\ UNCHANGED <<taxNames, orderDB>>

\* The three removals of stepperValueChanged, and its write of a quantity.
removeRow(row) ==
    /\ dictionary' = [id \in DOMAIN dictionary \ {currentItemIds[row]} |-> dictionary[id]]
    /\ currentItemIds' = RemoveAt(currentItemIds, row)
    /\ currentQtys' = RemoveAt(currentQtys, row)
    /\ UNCHANGED <<taxNames, orderDB>>

setQuantity(row, value) ==
    /\ currentQtys' = [currentQtys EXCEPT ![row] = value]
    /\ UNCHANGED <<currentItemIds, dictionary, taxNames, orderDB>>

-----------------------------------------------------------------------------
(* Modifier strings *)

\* Slip: the whole string is compared, the boolean too.
newChangeAsWhole(modsInDict, change) == \E i \in DOMAIN modsInDict : modsInDict[i] = change

newChangeInDictionary(modsInDict, change) ==
    \E i \in DOMAIN modsInDict : modsInDict[i].choice = change.choice

\* One change: it switches every string with its choice, or is appended.
applyChange(modsInDict, change) ==
    IF newChangeInDictionary(modsInDict, change)
    THEN [i \in DOMAIN modsInDict |->
            IF modsInDict[i].choice = change.choice
            THEN [modsInDict[i] EXCEPT !.on = change.on] ELSE modsInDict[i]]
    ELSE Append(modsInDict, change)

\* Requires itemId to be a key: without one, setObject:nil raises.
updateDictionaryWithModifierString(newChanges, itemId) ==
    /\ dictionary' = [dictionary EXCEPT ![itemId] = FoldLeft(applyChange, @, newChanges)]
    /\ UNCHANGED <<currentItemIds, currentQtys, totals, taxPercentage, taxNames, orderDB>>

\* Slip: a choice that was ever touched counts as on.
nameInKeyTouched(cellValue, itemId) ==
    \E i \in DOMAIN objectForKey(dictionary, itemId) :
        objectForKey(dictionary, itemId)[i].choice = cellValue

\* The first string with that choice decides; an unknown item has none.
nameInKey(cellValue, itemId) ==
    LET mods  == objectForKey(dictionary, itemId)
        named == {i \in DOMAIN mods : mods[i].choice = cellValue}
    IN  named # {} /\ mods[Min(named)].on
=============================================================================
