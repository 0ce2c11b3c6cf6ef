--------------------------- MODULE MCTableService ---------------------------
(***************************************************************************)
(* Tables and menus for TLC.                                               *)
(***************************************************************************)
EXTENDS TableService

TableSymmetry == Permutations(Tables)

Item(id, class, subclass, name) ==
    [id |-> id, class |-> class, subclass |-> subclass, name |-> name]

\* A class with two subclasses and a class with one; a name with an apostrophe.
SmallItems == {Item(1, "lunch", "curry", "chicken"), Item(2, "lunch", "soup", "chef's"),
               Item(3, "drink", "cold", "tea")}

\* Two classes with one subclass each.
FlatItems == {Item(1, "lunch", "curry", "chicken"), Item(2, "drink", "cold", "tea")}
\* Every text is plain ASCII, and one is an error in a query.
ShownAs == [column \in Columns |-> column]
StandsFor == [text \in Texts \ {"chef's"} |-> text]
=============================================================================
