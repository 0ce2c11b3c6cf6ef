----------------------------- MODULE OrderBook ------------------------------
(***************************************************************************)
(* What an order promises, without arrays, modifier strings or screens: a  *)
(* quantity and a set of chosen modifiers for each item, and a bill that   *)
(* is what the tables say for them.  QuickServe.tla implements it.         *)
(***************************************************************************)
EXTENDS OrderTables

CONSTANT StepperMax  \* a quantity set on a row stays below it

VARIABLES
    qty,     \* how many of each item are ordered
    chosen,  \* the modifiers chosen for each item, as category and name
    online,  \* whether the tables can still be read
    bill     \* the amount (cents) and the price (hundredths of a cent) last computed

bookVars == <<qty, chosen, online, bill>>

\* A modifier costs what the row that offers it says; only quantities and
\* extras cost anything.
PriceOfChoice(itemId, cell) ==
    LET rows == CASE cell[1] = 2 -> tblQuantity[itemId]
                  [] cell[1] = 3 -> tblExtras[itemId]
                  [] OTHER -> <<>>
    IN  PriceOfFirst(rows, {i \in DOMAIN rows : cell[2] \in ToSet(rows[i].names)})

Unit(chosenFor, itemId) ==
    lunchPrice[itemId] + MapThenSumSet(LAMBDA cell : PriceOfChoice(itemId, cell), chosenFor)

\* Both taxes are on the item's own price.
TaxOn(itemId) ==
    lunchPrice[itemId] * MapThenSumSet(LAMBDA tax : taxRate[tax],
                                       {tax \in Taxes : taxed[itemId][tax]})

Bill(q, c) ==
    LET amount == MapThenSumSet(LAMBDA id : q[id] * Unit(c[id], id), ItemIds)
        taxes  == MapThenSumSet(LAMBDA id : q[id] * TaxOn(id), ItemIds)
    IN  [amount |-> amount, price |-> 100 * amount + taxes]

NoBill == [amount |-> 0, price |-> 0]

\* Without a connection every price reads as 0.
Rebill == bill' = IF online THEN Bill(qty', chosen') ELSE NoBill

BookInit ==
    /\ qty = [id \in ItemIds |-> 0]
    /\ chosen = [id \in ItemIds |-> {}]
    /\ bill = NoBill
    /\ online \in BOOLEAN

\* A new order.
Clear ==
    /\ qty' = [id \in ItemIds |-> 0]
    /\ chosen' = [id \in ItemIds |-> {}]
    /\ bill' = NoBill
    /\ online' \in BOOLEAN

Add(id) ==
    /\ qty' = [qty EXCEPT ![id] = @ + 1]
    /\ Rebill
    /\ UNCHANGED <<chosen, online>>

\* A stepper moves a quantity by one; one that taps on the menu have raised
\* to the stepper's end or above it comes back at either end of the range.
SetTo(id, n) ==
    /\ qty[id] > 0
    /\ n \in IF qty[id] < StepperMax THEN {qty[id] - 1, qty[id] + 1} ELSE {1, StepperMax - 1}
    /\ qty' = [qty EXCEPT ![id] = n]
    /\ Rebill
    /\ UNCHANGED <<chosen, online>>

Drop(id) ==
    /\ qty[id] \in {1, StepperMax - 1}
    /\ qty' = [qty EXCEPT ![id] = 0]
    /\ chosen' = [chosen EXCEPT ![id] = {}]
    /\ Rebill
    /\ UNCHANGED online

\* Turn one modifier of an ordered item on or off.  The bill waits.
Choose(id, cell) ==
    /\ qty[id] > 0
    /\ chosen' = [chosen EXCEPT ![id] = IF cell \in @ THEN @ \ {cell} ELSE @ \cup {cell}]
    /\ UNCHANGED <<qty, online, bill>>

Look == Rebill /\ UNCHANGED <<qty, chosen, online>>

Lose == online /\ online' = FALSE /\ UNCHANGED <<qty, chosen, bill>>

BookNext ==
    \/ Clear
    \/ Look
    \/ Lose
    \/ \E id \in ItemIds :
        \/ Add(id)
        \/ \E n \in 1..(StepperMax - 1) : SetTo(id, n)
        \/ Drop(id)
        \/ \E cell \in modsToShow(TRUE, id) : Choose(id, cell)

BookSpec == BookInit /\ [][BookNext]_bookVars
=============================================================================
