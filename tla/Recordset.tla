----------------------------- MODULE Recordset -----------------------------
(***************************************************************************)
(* The result of a query, PGSQLRecordset.m, and the loop with which every  *)
(* query of DatabaseAccess.m reads it.  The current record is the number   *)
(* of its row, counted from 0, or Nil.  A recordset is made for one of two *)
(* clients: a query's loop, or a caller who moves as they like.            *)
(*                                                                         *)
(* The variable read is a history variable: the rows whose fields the loop *)
(* has read.                                                               *)
(***************************************************************************)
EXTENDS Integers, Sequences

CONSTANTS
    MaxRows,  \* the largest result of a query
    Nil       \* nil

ASSUME RecordsetAssumption == MaxRows \in Nat /\ Nil \notin Int

VARIABLES
    client,         \* none, loop or caller
    isOpen,
    isEOF,
    rowCount,
    currentRecord,
    i,              \* the variable of the loop
    read

cursor == <<isEOF, currentRecord>>
vars == <<client, isOpen, rowCount, cursor, i, read>>

Init ==
    /\ client = "none"
    /\ isOpen = FALSE
    /\ isEOF = TRUE
    /\ rowCount = 0
    /\ currentRecord = Nil
    /\ i = 0
    /\ read = <<>>

\* A new recordset is on its first row, if it has one.
initWithResult(rows, who) ==
    /\ client = "none"
    /\ client' = who
    /\ isOpen' = TRUE
    /\ rowCount' = rows
    /\ isEOF' = (rows = 0)
    /\ currentRecord' = IF rows = 0 THEN Nil ELSE 0
    /\ UNCHANGED <<i, read>>

-----------------------------------------------------------------------------
(* Moves.  In an empty result they do nothing. *)

CurrentRowIndex == IF currentRecord = Nil THEN -1 ELSE currentRecord

\* Slip: the row after the one meant.
moveTwo ==
    IF CurrentRowIndex + 2 >= rowCount
    THEN isEOF' = TRUE /\ currentRecord' = Nil
    ELSE currentRecord' = CurrentRowIndex + 2 /\ UNCHANGED isEOF

\* From no record the next is the first; the end flag is then left as it is.
moveNext ==
    IF CurrentRowIndex + 1 >= rowCount
    THEN isEOF' = TRUE /\ currentRecord' = Nil
    ELSE currentRecord' = CurrentRowIndex + 1 /\ UNCHANGED isEOF

moveFirst == isEOF' = FALSE /\ currentRecord' = 0

\* Slip: the beginning is not reported.
movePreviousQuietly ==
    IF CurrentRowIndex - 1 < 0
    THEN currentRecord' = Nil /\ UNCHANGED isEOF
    ELSE currentRecord' = CurrentRowIndex - 1 /\ UNCHANGED isEOF

movePrevious ==
    IF CurrentRowIndex - 1 < 0
    THEN isEOF' = TRUE /\ currentRecord' = Nil
    ELSE currentRecord' = CurrentRowIndex - 1 /\ UNCHANGED isEOF

\* The row moved to is rowCount.
moveLast == isEOF' = FALSE /\ currentRecord' = rowCount

Move(move) ==
    /\ client = "caller"
    /\ isOpen
    /\ IF rowCount = 0 THEN UNCHANGED cursor ELSE move
    /\ UNCHANGED <<client, isOpen, rowCount, i, read>>

close ==
    /\ client = "caller"
    /\ isOpen' = FALSE
    /\ currentRecord' = Nil
    /\ UNCHANGED <<client, rowCount, isEOF, i, read>>

\* Nobody closes the recordset of a query; it goes when it is not used.
dealloc ==
    /\ client # "none"
    /\ client = "loop" => i >= rowCount
    /\ client' = "none"
    /\ isOpen' = FALSE
    /\ isEOF' = TRUE
    /\ rowCount' = 0
    /\ currentRecord' = Nil
    /\ i' = 0
    /\ read' = <<>>

\* One turn of the loop: the fields of the current record, then moveNext.
ReadRow ==
    /\ client = "loop"
    /\ i < rowCount
    /\ read' = Append(read, currentRecord)
    /\ IF rowCount = 0 THEN UNCHANGED cursor ELSE moveNext
    /\ i' = i + 1
    /\ UNCHANGED <<client, isOpen, rowCount>>

Next ==
    \/ \E rows \in 0..MaxRows, who \in {"loop", "caller"} : initWithResult(rows, who)
    \/ Move(moveNext)
    \/ Move(moveFirst)
    \/ Move(movePrevious)
    \/ Move(moveLast)
    \/ close
    \/ dealloc
    \/ ReadRow

Spec == Init /\ [][Next]_vars

-----------------------------------------------------------------------------
(* Properties *)

\* The loop over rowCount that reads the current record and moves on
\* (DatabaseAccess.m 57-70 and its like) reads every row once and in order,
\* though it starts on the first row without a move and never looks at isEOF:
\* initWithResult has already moved, and moveNext moves by one.
LoopReadsEveryRow ==
    client = "loop" =>
        /\ read = [n \in 1..i |-> n - 1]
        /\ i < rowCount => currentRecord = i

\* A caller that tests isEOF before it reads, as PGSQLConnectionInfo.m 23-28
\* does, is never without a record, from whichever end the last move left.
NotEofHasRecord ==
    client # "none" /\ isOpen /\ ~isEOF => currentRecord # Nil
=============================================================================
