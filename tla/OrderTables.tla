---------------------------- MODULE OrderTables ----------------------------
(***************************************************************************)
(* The database tables an order is priced from, and the queries of         *)
(* Model/DatabaseAccess.m that read them.  The tables are constants: no    *)
(* screen of the ordering workflow writes them.                            *)
(*                                                                         *)
(* Every query takes `db', whether the connection it runs on is up.  On a  *)
(* connection that failed or was lost, PGSQLConnection.open returns nil,   *)
(* messages to nil answer nil or 0, and nobody looks at lastError; so a    *)
(* query without a connection is a query without rows.                     *)
(*                                                                         *)
(* Money is exact: table prices are whole cents and tax rates whole        *)
(* percents, so every amount is a whole number of hundredths of a cent.    *)
(* The rounding of C floats and doubles is left out.                       *)
(***************************************************************************)
EXTENDS Integers, Sequences, SequencesExt, FiniteSetsExt

CONSTANTS
    ItemIds,      \* keys of TBL_ITEMS
    ModNames,     \* the modifier names the tables mention
    Blank,        \* the name that a NULL column reads as (asString gives "")
    Nil,          \* nil
    lunchPrice,   \* TBL_ITEMS.lunch_price in cents, by item
    taxed,        \* TBL_ITEMS.taxed1, taxed2, by item and tax
    taxRate,      \* TBL_TAX.tax_rate in percent, by tax
    TaxTypes,     \* the names a tax can have
    taxType,      \* TBL_TAX.tax_type, by tax
    hotness,      \* TBL_ITEMS.hotness as the names between its colons, by item
    options,      \* TBL_ITEMS.options, likewise
    tblQuantity,  \* the rows of TBL_QUANTITY of an item, in storage order
    tblExtras,    \* the rows of TBL_EXTRAS of an item, in storage order
    testItemExtras \* the number of TBL_EXTRAS rows of item 74

Taxes == 1..2

\* Modifier 1 (hotness), 2 (quantity), 3 (extras) and 4 (options).
Categories == 1..4

\* A row of TBL_QUANTITY or TBL_EXTRAS: the names in its size or extras
\* column, split at the colons, and its price in cents.
Row == [names : Seq(ModNames), price : Nat]

ASSUME TablesAssumption ==
    /\ Nil \notin ItemIds
    /\ Blank \in ModNames
    /\ lunchPrice \in [ItemIds -> Nat]
    /\ taxed \in [ItemIds -> [Taxes -> BOOLEAN]]
    /\ taxRate \in [Taxes -> Nat]
    /\ taxType \in [Taxes -> TaxTypes]
    /\ hotness \in [ItemIds -> Seq(ModNames)]
    /\ options \in [ItemIds -> Seq(ModNames)]
    /\ tblQuantity \in [ItemIds -> Seq(Row)]
    /\ tblExtras \in [ItemIds -> Seq(Row)]
    /\ testItemExtras \in Nat

-----------------------------------------------------------------------------
(* Prices and taxes *)

\* A query by an id that is nil (item_id=(null)) has no rows.
Found(db, itemId) == db /\ itemId \in ItemIds

getLunchPriceUsing(db, itemId) ==
    IF Found(db, itemId) THEN lunchPrice[itemId] ELSE 0

\* The rate of a tax for an item: 0 unless the item is flagged for that tax.
getTax(db, itemId, taxNumber) ==
    IF Found(db, itemId) /\ taxed[itemId][taxNumber] THEN taxRate[taxNumber] ELSE 0

getTaxName(db, taxNumber) == IF db THEN taxType[taxNumber] ELSE Nil

\* Where the rows are whose whole name column equals the name asked for.  A
\* column that lists several names equals none, and a NULL column nothing.
RowsNamed(rows, modName) ==
    {i \in DOMAIN rows : rows[i].names = <<modName>> /\ modName # Blank}

PriceOfFirst(rows, named) == IF named = {} THEN 0 ELSE rows[Min(named)].price

getModPriceQuantity(db, itemId, modName) ==
    IF Found(db, itemId)
    THEN PriceOfFirst(tblQuantity[itemId], RowsNamed(tblQuantity[itemId], modName)) ELSE 0

getModPriceExtra(db, itemId, modName) ==
    IF Found(db, itemId)
    THEN PriceOfFirst(tblExtras[itemId], RowsNamed(tblExtras[itemId], modName)) ELSE 0

-----------------------------------------------------------------------------
(* The modifiers offered for an item *)

\* createModsUsing reads the first row of its query only, and answers "null"
\* (no section on the modifiers screen, <<>> here) when there is no row.
createModsUsing(rows) == IF rows = <<>> THEN <<>> ELSE Head(rows).names

\* What the four queries offer, category by category.
modOptions(db, itemId) ==
    IF ~Found(db, itemId) THEN [category \in Categories |-> <<>>]
    ELSE [category \in Categories |->
            CASE category = 1 -> hotness[itemId]
              [] category = 2 -> createModsUsing(tblQuantity[itemId])
              [] category = 3 -> createModsUsing(tblExtras[itemId])
              [] category = 4 -> options[itemId]]

\* The cells of the modifiers screen of an item: category and name.
modsToShow(db, itemId) ==
    {cell \in Categories \X ModNames :
        cell[2] \in ToSet(modOptions(db, itemId)[cell[1]])}
=============================================================================
