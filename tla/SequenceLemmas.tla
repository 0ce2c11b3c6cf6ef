--------------------------- MODULE SequenceLemmas ---------------------------
(***************************************************************************)
(* What the operations on arrays that the application uses do: push, pop,  *)
(* removal at an index, and loops over an array.                           *)
(***************************************************************************)
EXTENDS Integers, Sequences, SequencesExt, SequenceTheorems, WellFoundedInduction,
        TLAPS

\* Removing the row-th element keeps the others in their order.
LEMMA RemoveAtProperties ==
    ASSUME NEW S, NEW s \in Seq(S), NEW row \in DOMAIN s
    PROVE  /\ RemoveAt(s, row) \in Seq(S)
           /\ Len(RemoveAt(s, row)) = Len(s) - 1
           /\ DOMAIN RemoveAt(s, row) = 1..(Len(s) - 1)
           /\ \A i \in 1..(Len(s) - 1) :
                RemoveAt(s, row)[i] = IF i < row THEN s[i] ELSE s[i + 1]
<1> DEFINE front == SubSeq(s, 1, row - 1)
           back  == SubSeq(s, row + 1, Len(s))
<1>1. Len(s) \in Nat /\ row \in 1..Len(s) /\ DOMAIN s = 1..Len(s)
  OBVIOUS
<1>2. /\ front \in Seq(S) /\ Len(front) = row - 1
      /\ \A i \in 1..(row - 1) : front[i] = s[i]
  BY <1>1
<1>3. /\ back \in Seq(S) /\ Len(back) = Len(s) - row
      /\ \A i \in 1..(Len(s) - row) : back[i] = s[row + i]
  BY <1>1
<1>4. RemoveAt(s, row) = front \o back
  BY DEF RemoveAt
<1> HIDE DEF front, back
<1>5. /\ front \o back \in Seq(S)
      /\ Len(front \o back) = Len(s) - 1
      /\ \A i \in 1..(Len(s) - 1) :
            (front \o back)[i] = IF i < row THEN s[i] ELSE s[i + 1]
  <2>1. front \o back \in Seq(S) /\ Len(front \o back) = Len(front) + Len(back)
    BY <1>2, <1>3, ConcatProperties
  <2>2. ASSUME NEW i \in 1..(Len(s) - 1), i < row
        PROVE  (front \o back)[i] = s[i]
    BY <1>1, <1>2, <1>3, <2>2
  <2>3. ASSUME NEW i \in 1..(Len(s) - 1), ~(i < row)
        PROVE  (front \o back)[i] = s[i + 1]
    <3>1. (front \o back)[i] = back[i - (row - 1)]
      BY <1>1, <1>2, <1>3, <2>3
    <3>2. i - (row - 1) \in 1..(Len(s) - row) /\ row + (i - (row - 1)) = i + 1
      BY <1>1, <2>3
    <3> QED
      BY <1>3, <3>1, <3>2
  <2> QED
    BY <1>1, <1>2, <1>3, <2>1, <2>2, <2>3
<1>6. \A t \in Seq(S) : DOMAIN t = 1..Len(t)
  OBVIOUS
<1> QED
  BY <1>4, <1>5, <1>6, Zenon

\* Removing an element leaves exactly the elements at the other indices, one
\* for each.
LEMMA RemoveAtKeepsOthers ==
    ASSUME NEW S, NEW s \in Seq(S), NEW row \in DOMAIN s, NEW r, r = RemoveAt(s, row)
    PROVE  /\ \A i, j \in DOMAIN r :
                \E k, l \in DOMAIN s :
                    /\ k # row /\ l # row
                    /\ r[i] = s[k] /\ r[j] = s[l]
                    /\ k = l => i = j
           /\ \A k \in DOMAIN s : k # row => \E i \in DOMAIN r : r[i] = s[k]
<1> DEFINE n == Len(s)
           from(i) == IF i < row THEN i ELSE i + 1
<1>1. n \in Nat /\ DOMAIN s = 1..n /\ row \in 1..n
  OBVIOUS
<1>2. DOMAIN r = 1..(n - 1) /\ \A i \in 1..(n - 1) : r[i] = s[from(i)]
  BY RemoveAtProperties
<1> HIDE DEF n
<1>3. \A i \in 1..(n - 1) : from(i) \in 1..n /\ from(i) # row
  BY <1>1
<1>4. \A i, j \in 1..(n - 1) : from(i) = from(j) => i = j
  BY <1>1
<1>5. ASSUME NEW k \in 1..n, k # row
      PROVE  \E i \in 1..(n - 1) : from(i) = k
  <2>1. CASE k < row
    BY <1>1, <2>1
  <2>2. CASE k > row
    <3>1. k - 1 \in 1..(n - 1) /\ from(k - 1) = k
      BY <1>1, <2>2
    <3> QED
      BY <3>1
  <2> QED
    BY <1>1, <1>5, <2>1, <2>2
<1> HIDE DEF from
<1>6. ASSUME NEW i \in DOMAIN r, NEW j \in DOMAIN r
      PROVE  \E k, l \in DOMAIN s :
                /\ k # row /\ l # row
                /\ r[i] = s[k] /\ r[j] = s[l]
                /\ k = l => i = j
  BY <1>1, <1>2, <1>3, <1>4
<1>7. ASSUME NEW k \in DOMAIN s, k # row
      PROVE  \E i \in DOMAIN r : r[i] = s[k]
  BY <1>1, <1>2, <1>5, <1>7
<1> QED
  BY <1>6, <1>7

\* Removing an element of a sequence without repetitions leaves one without
\* repetitions that has all elements but that one.
LEMMA RemoveAtDistinct ==
    ASSUME NEW S, NEW s \in Seq(S), NEW row \in DOMAIN s,
           \A i, j \in DOMAIN s : s[i] = s[j] => i = j
    PROVE  /\ \A i, j \in DOMAIN RemoveAt(s, row) :
                RemoveAt(s, row)[i] = RemoveAt(s, row)[j] => i = j
           /\ {RemoveAt(s, row)[i] : i \in DOMAIN RemoveAt(s, row)}
                = {s[i] : i \in DOMAIN s} \ {s[row]}
<1> DEFINE r == RemoveAt(s, row)
<1>1. \A i, j \in DOMAIN r :
        \E k, l \in DOMAIN s : /\ k # row /\ l # row
                               /\ r[i] = s[k] /\ r[j] = s[l]
                               /\ k = l => i = j
  BY RemoveAtKeepsOthers
<1>2. \A k \in DOMAIN s : k # row => \E i \in DOMAIN r : r[i] = s[k]
  BY RemoveAtKeepsOthers
<1> HIDE DEF r
<1>3. \A i, j \in DOMAIN r : r[i] = r[j] => i = j
  BY <1>1
<1>4. \A x : x \in {r[i] : i \in DOMAIN r} <=> x \in {s[i] : i \in DOMAIN s} \ {s[row]}
  BY <1>1, <1>2
<1> QED
  BY <1>3, <1>4 DEF r

\* Dropping the last element keeps the others.
LEMMA FrontProperties ==
    ASSUME NEW S, NEW s \in Seq(S), Len(s) > 0
    PROVE  /\ Front(s) \in Seq(S)
           /\ Len(Front(s)) = Len(s) - 1
           /\ \A i \in 1..(Len(s) - 1) : Front(s)[i] = s[i]
           /\ Last(s) \in S
           /\ Last(s) = s[Len(s)]
<1> DEFINE n == Len(s) - 1
<1>1. n \in Nat /\ n + 1 = Len(s) /\ \A i \in 1..(n + 1) : s[i] \in S
  OBVIOUS
<1> HIDE DEF n
<1>2. SubSeq(s, 1, n) \in Seq(S) /\ Len(SubSeq(s, 1, n)) = n
  BY <1>1
<1>3. \A i \in 1..n : SubSeq(s, 1, n)[i] = s[i]
  BY <1>1
<1>4. Front(s) = SubSeq(s, 1, n)
  BY DEF Front, n
<1>5. Last(s) = s[Len(s)] /\ Last(s) \in S
  BY <1>1 DEF Last
<1> QED
  BY <1>1, <1>2, <1>3, <1>4, <1>5 DEF n

\* Pushing on a stack keeps what is below.
LEMMA PushProperties ==
    ASSUME NEW S, NEW s \in Seq(S), NEW e \in S, NEW n \in Nat, Len(s) = n
    PROVE  /\ Append(s, e) \in Seq(S)
           /\ Len(Append(s, e)) = n + 1
           /\ \A i \in 1..n : Append(s, e)[i] = s[i]
           /\ Append(s, e)[n + 1] = e
OBVIOUS

\* A set of numbers has a least one.
LEMMA NatMin ==
    ASSUME NEW T \in SUBSET Nat, T # {} PROVE \E n \in T : \A m \in T : n <= m
<1>1. \E n \in T : \A m \in T : <<m, n>> \notin OpToRel(<, Nat)
  BY NatLessThanWellFounded, WFMin
<1>2. ASSUME NEW m \in Nat, NEW n \in Nat, <<m, n>> \notin OpToRel(<, Nat) PROVE n <= m
  BY <1>2 DEF OpToRel
<1> QED
  BY <1>1, <1>2

-----------------------------------------------------------------------------
(* Folds *)
(*                                                                         *)
(* FoldLeft is defined by a CHOOSE of a function on sets of indices.  For  *)
(* an operation with a typed accumulator such a function exists, so the    *)
(* chosen one is of that kind, and its values on 1..k are the accumulators *)
(* of a loop.                                                              *)

\* A set of numbers that holds 0 and with a number the next one holds all.
LEMMA NatInd ==
  ASSUME NEW T \in SUBSET Nat, 0 \in T, \A n \in T : n + 1 \in T PROVE T = Nat
<1> SUFFICES ASSUME Nat \ T # {} PROVE FALSE
  OBVIOUS
<1>1. PICK n \in Nat \ T : \A m \in Nat \ T : n <= m
  BY NatMin
<1>2. n # 0 /\ n - 1 \in Nat
  BY <1>1
<1>3. n - 1 \in T
  BY <1>1, <1>2
<1>4. (n-1)+1 \in T
  BY <1>3
<1> QED BY <1>2, <1>4

\* A set that holds 0 and with a number below m the next one holds all up to m.
LEMMA InductionUpTo ==
  ASSUME NEW m \in Nat, NEW T \in SUBSET (0..m), 0 \in T,
         \A k \in T : k < m => k + 1 \in T
  PROVE  T = 0..m
<1> DEFINE N == {n \in Nat : n <= m => n \in T}
<1>1. 0 \in N
  OBVIOUS
<1>2. ASSUME NEW n \in Nat, n \in N PROVE n + 1 \in N
  <2>1. CASE n + 1 <= m
    <3>1. n \in T /\ n < m
      BY <1>2, <2>1
    <3> QED
      BY <3>1
  <2>2. CASE ~(n + 1 <= m)
    BY <2>2
  <2> QED
    BY <2>1, <2>2
<1>3. N = Nat
  <2>1. N \in SUBSET Nat /\ \A n \in N : n + 1 \in N
    BY <1>2
  <2> HIDE DEF N
  <2> QED
    BY <1>1, <2>1, NatInd
<1>4. 0..m \subseteq T
  BY <1>3
<1> QED
  BY <1>4

\* What the largest index of the first n is, and what is left without it.
LEMMA MaxOfInterval ==
  ASSUME NEW n \in Nat, n > 0 PROVE Max(1..n) = n /\ (1..n) \ {n} = 1..(n - 1)
<1>1. n \in 1..n /\ \A y \in 1..n : n >= y
  OBVIOUS
<1>2. \A x \in 1..n : (\A y \in 1..n : x >= y) => x = n
  OBVIOUS
<1> QED
  BY <1>1, <1>2 DEF Max

\* A set of indices has a last and a first one.
LEMMA MaxIs ==
  ASSUME NEW n \in Nat, NEW s \in SUBSET (1..n), s # {}
  PROVE  Max(s) \in s /\ \A y \in s : Max(s) >= y
<1>0. \A x \in s : x \in Nat /\ n - x \in Nat
  OBVIOUS
<1>1. {n - x : x \in s} \in SUBSET Nat /\ {n - x : x \in s} # {}
  BY <1>0
<1>2. PICK d \in {n - x : x \in s} : \A m \in {n - x : x \in s} : d <= m
  BY <1>1, NatMin
<1>3. PICK x \in s : d = n - x
  BY <1>2
<1>4. \A y \in s : x >= y
  <2> SUFFICES ASSUME NEW y \in s PROVE x >= y
    OBVIOUS
  <2>1. n - x <= n - y
    BY <1>2, <1>3
  <2> QED
    BY <2>1
<1> QED
  BY <1>4 DEF Max

LEMMA MinIs ==
  ASSUME NEW n \in Nat, NEW s \in SUBSET (1..n), s # {}
  PROVE  Min(s) \in s /\ \A y \in s : Min(s) <= y
<1>1. s \in SUBSET Nat
  OBVIOUS
<1>2. \E x \in s : \A y \in s : x <= y
  BY <1>1, NatMin
<1> QED
  BY <1>2 DEF Min

\* A fold of n values from base: F[<<k, a>>] is what the k-th makes of a.
Folds(iter, n, F, base) ==
    \A s \in SUBSET (1..n) :
        iter[s] = IF s = {} THEN base ELSE F[<<Max(s), iter[s \ {Max(s)}]>>]

\* A typed iteration for such a fold exists.
Foldable(S, n, F, base) == \E iter \in [SUBSET (1..n) -> S] : Folds(iter, n, F, base)

\* It always does, by induction on n.
LEMMA FoldExists ==
  ASSUME NEW S, NEW base \in S, NEW m \in Nat, NEW F \in [(1..m) \X S -> S]
  PROVE  Foldable(S, m, F, base)
<1> DEFINE T == {n \in Nat : n <= m => Foldable(S, n, F, base)}
<1>1. 0 \in T
  <2> DEFINE iter == [s \in SUBSET (1..0) |-> base]
  <2>1. iter \in [SUBSET (1..0) -> S]
    OBVIOUS
  <2>2. \A s \in SUBSET (1..0) : s = {}
    OBVIOUS
  <2>3. Folds(iter, 0, F, base)
    BY <2>2 DEF Folds
  <2> QED
    BY <2>1, <2>3 DEF Foldable
<1>2. ASSUME NEW n \in Nat, n + 1 <= m, Foldable(S, n, F, base)
      PROVE  Foldable(S, n + 1, F, base)
  <2>1. PICK old \in [SUBSET (1..n) -> S] : Folds(old, n, F, base)
    BY <1>2 DEF Foldable
  <2> DEFINE iter == [s \in SUBSET (1..(n + 1)) |->
                        IF n + 1 \in s THEN F[<<n + 1, old[s \ {n + 1}]>>] ELSE old[s]]
  <2>2. \A s \in SUBSET (1..(n + 1)) : s \ {n + 1} \in SUBSET (1..n)
    OBVIOUS
  <2>3. \A s \in SUBSET (1..(n + 1)) : n + 1 \notin s => s \in SUBSET (1..n)
    OBVIOUS
  <2>4. n + 1 \in 1..m
    BY <1>2
  <2>5. iter \in [SUBSET (1..(n + 1)) -> S]
    <3> SUFFICES ASSUME NEW s \in SUBSET (1..(n + 1)) PROVE iter[s] \in S
      OBVIOUS
    <3>1. CASE n + 1 \in s
      <4>1. old[s \ {n + 1}] \in S
        BY <2>1, <2>2
      <4>2. <<n + 1, old[s \ {n + 1}]>> \in (1..m) \X S
        BY <2>4, <4>1
      <4> QED
        BY <3>1, <4>2
    <3>2. CASE n + 1 \notin s
      BY <2>1, <2>3, <3>2
    <3> QED
      BY <3>1, <3>2
  <2>6. Folds(iter, n + 1, F, base)
    <3> SUFFICES ASSUME NEW s \in SUBSET (1..(n + 1))
                 PROVE  iter[s] = IF s = {} THEN base ELSE F[<<Max(s), iter[s \ {Max(s)}]>>]
      BY DEF Folds
    <3>1. CASE n + 1 \in s
      <4>1. Max(s) = n + 1
        <5>1. Max(s) \in s /\ \A y \in s : Max(s) >= y
          <6>1. n + 1 \in Nat /\ s # {}
            BY <3>1
          <6> QED
            BY <6>1, MaxIs
        <5> QED
          <6>1. Max(s) \in 1..(n + 1) /\ Max(s) >= n + 1
            BY <3>1, <5>1
          <6> QED
            BY <6>1
      <4>2. s \ {n + 1} \in SUBSET (1..(n + 1)) /\ n + 1 \notin s \ {n + 1}
        OBVIOUS
      <4>3. iter[s \ {n + 1}] = old[s \ {n + 1}]
        BY <4>2
      <4> QED
        BY <3>1, <4>1, <4>3
    <3>2. CASE n + 1 \notin s
      <4>1. s \in SUBSET (1..n) /\ iter[s] = old[s]
        BY <2>3, <3>2
      <4>2. old[s] = IF s = {} THEN base ELSE F[<<Max(s), old[s \ {Max(s)}]>>]
        BY <2>1, <4>1 DEF Folds
      <4>3. s \ {Max(s)} \in SUBSET (1..(n + 1)) /\ n + 1 \notin s \ {Max(s)}
        BY <3>2
      <4>4. iter[s \ {Max(s)}] = old[s \ {Max(s)}]
        BY <4>3
      <4> QED
        BY <4>1, <4>2, <4>4
    <3> QED
      BY <3>1, <3>2
  <2> HIDE DEF iter
  <2> QED
    BY <2>5, <2>6 DEF Foldable
<1>3. \A n \in T : n + 1 \in T
  BY <1>2
<1>4. T = Nat
  <2>1. T \in SUBSET Nat
    OBVIOUS
  <2> HIDE DEF T
  <2> QED
    BY <1>1, <1>3, <2>1, NatInd
<1>5. m \in T
  BY <1>4
<1> QED
  BY <1>5

\* An iteration that takes the values of F wherever those are defined: it is
\* one on every set, and its values on the first k are the fold of k values.
Follows(it, S, m, F, base) ==
    /\ it[{}] = base
    /\ \A s \in SUBSET (1..m) :
        s # {} /\ it[s \ {Max(s)}] \in S => it[s] = F[<<Max(s), it[s \ {Max(s)}]>>]

\* r is what the fold makes of m values, one after the other.
FoldedTo(r, S, m, F, base) ==
    \E g \in [0..m -> S] :
        /\ g[0] = base
        /\ \A k \in 1..m : g[k] = F[<<k, g[k - 1]>>]
        /\ r = g[m]

\* The value of an iteration on all indices is the last one of a loop.
LEMMA FoldValues ==
  ASSUME NEW S, NEW base \in S, NEW m \in Nat, NEW F \in [(1..m) \X S -> S],
         NEW it, Follows(it, S, m, F, base)
  PROVE  FoldedTo(it[1..m], S, m, F, base)
<1> DEFINE T == {k \in Nat : k <= m => it[1..k] \in S}
<1>1. 0 \in T /\ it[1..0] = base
  <2>1. 1..0 = {}
    OBVIOUS
  <2> QED
    BY <2>1 DEF Follows
<1>2. ASSUME NEW k \in 1..m, it[1..(k - 1)] \in S
      PROVE  it[1..k] = F[<<k, it[1..(k - 1)]>>] /\ it[1..k] \in S
  <2>1. 1..k \in SUBSET (1..m) /\ 1..k # {} /\ k \in Nat /\ k > 0
    OBVIOUS
  <2>2. Max(1..k) = k /\ (1..k) \ {k} = 1..(k - 1)
    BY <2>1, MaxOfInterval
  <2>3. it[1..k] = F[<<k, it[1..(k - 1)]>>]
    <3>1. (1..k) \ {Max(1..k)} = 1..(k - 1)
      BY <2>2
    <3>2. it[(1..k) \ {Max(1..k)}] \in S
      BY <1>2, <3>1
    <3>3. it[1..k] = F[<<Max(1..k), it[(1..k) \ {Max(1..k)}]>>]
      BY <2>1, <3>2 DEF Follows
    <3> QED
      BY <2>2, <3>1, <3>3
  <2>4. <<k, it[1..(k - 1)]>> \in (1..m) \X S
    BY <1>2
  <2> QED
    BY <2>3, <2>4
<1>3. ASSUME NEW k \in Nat, k \in T PROVE k + 1 \in T
  <2>1. CASE k + 1 <= m
    <3>1. k + 1 \in 1..m /\ (k + 1) - 1 = k /\ k <= m
      BY <2>1
    <3>2. it[1..k] \in S
      BY <1>3, <3>1
    <3>3. it[1..(k + 1)] \in S
      BY <1>2, <3>1, <3>2
    <3> QED
      BY <3>3
  <2>2. CASE ~(k + 1 <= m)
    BY <2>2
  <2> QED
    BY <2>1, <2>2
<1>4. T = Nat
  <2>1. T \in SUBSET Nat /\ \A k \in T : k + 1 \in T
    BY <1>3
  <2> HIDE DEF T
  <2> QED
    BY <1>1, <2>1, NatInd
<1>5. \A k \in 0..m : it[1..k] \in S
  BY <1>4
<1> DEFINE g == [k \in 0..m |-> it[1..k]]
<1>6. g \in [0..m -> S] /\ g[0] = base /\ it[1..m] = g[m]
  BY <1>1, <1>5
<1>7. ASSUME NEW k \in 1..m PROVE g[k] = F[<<k, g[k - 1]>>]
  <2>1. k - 1 \in 0..m /\ k \in 0..m
    OBVIOUS
  <2>2. it[1..(k - 1)] \in S
    BY <1>5, <2>1
  <2>3. it[1..k] = F[<<k, it[1..(k - 1)]>>]
    BY <1>2, <2>2
  <2> QED
    BY <2>1, <2>3
<1>8. \A k \in 1..m : g[k] = F[<<k, g[k - 1]>>]
  BY <1>7
<1> HIDE DEF g
<1> QED
  BY <1>6, <1>8 DEF FoldedTo
=============================================================================
