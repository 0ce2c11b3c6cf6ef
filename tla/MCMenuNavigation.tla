-------------------------- MODULE MCMenuNavigation --------------------------
(***************************************************************************)
(* Menus for TLC.  The text values are strings, so that a name can be both *)
(* a subclass and an item, or a subclass of two classes.  One name has an  *)
(* apostrophe, and one (creme) an accent, which is shown as other letters. *)
(***************************************************************************)
EXTENDS MenuNavigation

Item(id, class, subclass, name) ==
    [id |-> id, class |-> class, subclass |-> subclass, name |-> name]

\* A class with one subclass and one with several, a subclass of two classes,
\* a name in two subclasses of a class, a class whose only subclass is NULL,
\* a NULL among several, and the two names that do not come back.
MixedItems == {Item(1, "lunch", "curry", "chicken"), Item(2, "lunch", "soup", "chicken"),
               Item(3, "dinner", "soup", "chicken"), Item(4, "drink", Null, "tea"),
               Item(5, "party", "curry", "tea"), Item(6, "party", Null, "curry"),
               Item(7, "lunch", "salad", "chef's"), Item(8, "drink", Null, "creme")}

\* What the accented name is shown as, and the text of the screen that a query
\* takes for a column: itself, unless it has an apostrophe or an accent.
Accented == "creme"
Changed == "cr~me"
ShownAs == [column \in Columns |-> IF column = Accented THEN Changed ELSE column]
StandsFor == [text \in Texts \ {"chef's", Changed} |-> text]

ASSUME UnmistakenTexts
=============================================================================
