---------------------------- MODULE MCQuickServe ----------------------------
(***************************************************************************)
(* Small tables for QuickServe.  Soup has one modifier of each kind that   *)
(* costs something, tea one that does not.  Prices are chosen so that no   *)
(* two different orders within the bounds have the same total by accident, *)
(* and only soup carries the second tax.                                   *)
(***************************************************************************)
EXTENDS QuickServe

CONSTANTS soup, tea, large, egg, iced

MCItemIds == {soup, tea}
MCModNames == {large, egg, iced, Blank}

MCLunchPrice == [id \in MCItemIds |-> IF id = soup THEN 795 ELSE 250]
MCTaxed == [id \in MCItemIds |-> [tax \in 1..2 |-> tax = 1 \/ id = soup]]
MCTaxRate == [tax \in 1..2 |-> IF tax = 1 THEN 9 ELSE 3]
MCTaxTypes == {"Sales", "City"}
MCTaxType == [tax \in 1..2 |-> IF tax = 1 THEN "Sales" ELSE "City"]

NoNames == [id \in MCItemIds |-> <<>>]
NoRows == [id \in MCItemIds |-> <<>>]

MCOptions == [id \in MCItemIds |-> IF id = tea THEN <<iced>> ELSE <<>>]
MCQuantity == [id \in MCItemIds |->
    IF id = soup THEN <<[names |-> <<large>>, price |-> 200]>> ELSE <<>>]
MCExtras == [id \in MCItemIds |->
    IF id = soup THEN <<[names |-> <<egg>>, price |-> 125]>> ELSE <<>>]

\* SwitchesMatchOrder is checked on tables that it is meant for.
ASSUME NamesAreUnique == UniqueNames
=============================================================================
