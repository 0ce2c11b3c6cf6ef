-------------------------- MODULE RecordsetProofs --------------------------
(***************************************************************************)
(* The loop of the queries and the end flag, for results of any size.      *)
(*                                                                         *)
(* The loop is right because initWithResult leaves the cursor on row 0 and *)
(* each turn leaves it on row i; and the flag, because the only moves that *)
(* leave no record are the two that set it.                                *)
(***************************************************************************)
EXTENDS Recordset, TLAPS

\* The kinds of the values, and where a record can be.
CursorInv ==
    /\ rowCount \in Nat
    /\ i \in Nat
    /\ currentRecord \in Nat \cup {Nil}
    /\ client = "none" => i = 0 /\ read = <<>>
    /\ client = "loop" => i <= rowCount
    /\ rowCount = 0 => currentRecord = Nil
    /\ client # "loop" => i = 0 /\ read = <<>>

RecordsetInv == CursorInv /\ LoopReadsEveryRow /\ NotEofHasRecord

\* A move to the next row: what it leaves.
LEMMA MoveNextProperties ==
    ASSUME CursorInv, moveNext
    PROVE  /\ currentRecord' \in Nat \cup {Nil}
           /\ currentRecord # Nil /\ currentRecord + 1 < rowCount =>
                currentRecord' = currentRecord + 1
           /\ isEOF' \/ (isEOF' = isEOF /\ currentRecord' # Nil)
BY RecordsetAssumption DEF CursorInv, moveNext, CurrentRowIndex

\* A move of the caller keeps the invariant: it may only lose the record when
\* it sets the flag.
LEMMA MovesKeepInv ==
    ASSUME RecordsetInv, client = "caller",
           UNCHANGED <<client, isOpen, rowCount, i, read>>,
           \/ rowCount = 0 /\ UNCHANGED cursor
           \/ /\ rowCount # 0
              /\ currentRecord' \in Nat \cup {Nil}
              /\ isEOF' \/ currentRecord' # Nil
    PROVE  RecordsetInv'
<1>1. CASE rowCount = 0 /\ UNCHANGED cursor
  BY <1>1, Zenon
  DEF cursor, RecordsetInv, CursorInv, LoopReadsEveryRow, NotEofHasRecord
<1>2. CASE /\ rowCount # 0
           /\ currentRecord' \in Nat \cup {Nil}
           /\ isEOF' \/ currentRecord' # Nil
  BY <1>2 DEF RecordsetInv, CursorInv, LoopReadsEveryRow, NotEofHasRecord
<1> QED
  BY <1>1, <1>2

\* A turn of the loop reads row i and leaves the cursor on row i + 1.
LEMMA TurnKeepsInv == ASSUME RecordsetInv, ReadRow PROVE RecordsetInv'
<1>1. /\ client = "loop" /\ client' = "loop" /\ rowCount' = rowCount
      /\ i \in Nat /\ rowCount \in Nat /\ i < rowCount /\ i' = i + 1
      /\ currentRecord = i /\ read = [n \in 1..i |-> n - 1]
      /\ read' = Append(read, i) /\ moveNext
  BY DEF ReadRow, RecordsetInv, CursorInv, LoopReadsEveryRow
<1>2. /\ currentRecord' \in Nat \cup {Nil}
      /\ i + 1 < rowCount => currentRecord' = i + 1
      /\ isEOF' \/ (isEOF' = isEOF /\ currentRecord' # Nil)
  BY <1>1, MoveNextProperties, RecordsetAssumption DEF RecordsetInv
<1>3. read' = [n \in 1..(i + 1) |-> n - 1]
  <2>1. read \in Seq(Nat) /\ Len(read) = i
    BY <1>1
  <2>2. read' \in Seq(Nat) /\ Len(read') = i + 1
    BY <1>1, <2>1
  <2>3. \A n \in 1..(i + 1) : read'[n] = n - 1
    BY <1>1, <2>1
  <2> QED
    BY <1>1, <2>2, <2>3
<1>4. CursorInv'
  BY <1>1, <1>2 DEF CursorInv
<1>5. LoopReadsEveryRow'
  BY <1>1, <1>2, <1>3 DEF LoopReadsEveryRow
<1>6. NotEofHasRecord'
  BY <1>2 DEF NotEofHasRecord
<1> QED
  BY <1>4, <1>5, <1>6 DEF RecordsetInv

\* RecordsetInv is inductive: one case per action.
LEMMA RecordsetInvStep == RecordsetInv /\ [Next]_vars => RecordsetInv'
<1> SUFFICES ASSUME RecordsetInv, [Next]_vars PROVE RecordsetInv'
  OBVIOUS
<1>1. ASSUME NEW rows \in 0..MaxRows, NEW who \in {"loop", "caller"},
             initWithResult(rows, who)
      PROVE  RecordsetInv'
  <2>1. rows \in Nat /\ rowCount' = rows /\ i' = 0 /\ read' = <<>>
    BY <1>1, RecordsetAssumption DEF initWithResult, RecordsetInv, CursorInv
  <2>2. CursorInv'
    BY <1>1, <2>1, RecordsetAssumption DEF initWithResult, CursorInv
  <2>3. LoopReadsEveryRow'
    BY <1>1, <2>1 DEF initWithResult, LoopReadsEveryRow
  <2>4. NotEofHasRecord'
    <3>1. rows = 0 => isEOF'
      BY <1>1, Zenon DEF initWithResult
    <3>2. rows # 0 => currentRecord' # Nil
      BY <1>1, RecordsetAssumption DEF initWithResult
    <3> QED
      BY <3>1, <3>2 DEF NotEofHasRecord
  <2> QED
    BY <2>2, <2>3, <2>4 DEF RecordsetInv
<1>2. CASE Move(moveNext)
  BY <1>2, MovesKeepInv, MoveNextProperties DEF Move, RecordsetInv
<1>3. CASE Move(moveFirst)
  BY <1>3, MovesKeepInv, RecordsetAssumption DEF Move, moveFirst
<1>4. CASE Move(movePrevious)
  BY <1>4, MovesKeepInv, RecordsetAssumption
  DEF Move, movePrevious, CurrentRowIndex, RecordsetInv, CursorInv
<1>5. CASE Move(moveLast)
  BY <1>5, MovesKeepInv, RecordsetAssumption DEF Move, moveLast, RecordsetInv, CursorInv
<1>6. CASE close
  BY <1>6 DEF close, RecordsetInv, CursorInv, LoopReadsEveryRow, NotEofHasRecord
<1>7. CASE dealloc
  BY <1>7 DEF dealloc, RecordsetInv, CursorInv, LoopReadsEveryRow, NotEofHasRecord
<1>8. CASE ReadRow
  BY <1>8, TurnKeepsInv
<1>9. CASE UNCHANGED vars
  BY <1>9, Zenon
  DEF vars, cursor, RecordsetInv, CursorInv, LoopReadsEveryRow, NotEofHasRecord
<1> QED
  BY <1>1, <1>2, <1>3, <1>4, <1>5, <1>6, <1>7, <1>8, <1>9 DEF Next

\* RecordsetInv holds in every state.
LEMMA RecordsetInvHolds == Spec => []RecordsetInv
<1>1. Init => RecordsetInv
  BY DEF Init, RecordsetInv, CursorInv, LoopReadsEveryRow, NotEofHasRecord
<1> QED
  BY <1>1, RecordsetInvStep, PTL DEF Spec

\* The loops of DatabaseAccess.m (57-70 and its like) read every row of a
\* result once and in order, whatever its size.
THEOREM LoopsReadEveryRow == Spec => []LoopReadsEveryRow
<1>1. RecordsetInv => LoopReadsEveryRow
  BY DEF RecordsetInv
<1> QED
  BY <1>1, RecordsetInvHolds, PTL

\* PGSQLRecordset.m 95-163: a caller that is not told of the end has a record.
THEOREM NotEofAlwaysHasRecord == Spec => []NotEofHasRecord
<1>1. RecordsetInv => NotEofHasRecord
  BY DEF RecordsetInv
<1> QED
  BY <1>1, RecordsetInvHolds, PTL
=============================================================================
