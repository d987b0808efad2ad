--------------------------- MODULE RegistryProofs ---------------------------
(***************************************************************************)
(* Proofs about the bag, for any elements, any number of them and any      *)
(* sequence of operations, and about the registry of threads that is kept  *)
(* in one, for any threads, any of which start others, and any answers of  *)
(* pthread_kill.                                                           *)
(*                                                                         *)
(* First the bag's two searches and its two updates, for the cells of any  *)
(* bag; they find a first cell because a set of numbers has a least one    *)
(* (LeastNat).  Then BagUse: the cells that hold an element are counted as *)
(* a finite set, which an operation changes by one cell at most.           *)
(*                                                                         *)
(* The loops of the registry rest on what the searches find.  That no      *)
(* thread is left when the wait returns needs one more idea: threads may   *)
(* be recorded late, by threads that are recorded late themselves, but not *)
(* in a circle (Rooted), so that one of them has a recorded creator or the *)
(* main one.                                                               *)
(***************************************************************************)
EXTENDS Registry, BagUse, FiniteSetTheorems, WellFoundedInduction, TLAPS

LEMMA LeastNat ==
    ASSUME NEW S \in SUBSET Nat, S # {}
    PROVE  \E m \in S : \A k \in S : m <= k
<1>. DEFINE R == OpToRel(<, Nat)
<1>1. \E x \in S : \A y \in S : ~ (<<y, x>> \in R)
  BY NatLessThanWellFounded, WFMin
<1>2. \A a, b \in Nat : a < b => <<a, b>> \in R
  BY DEF OpToRel
<1>. HIDE DEF R
<1>3. PICK x \in S : \A y \in S : ~ (<<y, x>> \in R)
  BY <1>1
<1>4. \A y \in S : ~(y < x)
  BY <1>2, <1>3
<1>. QED BY <1>4

\* The search of insert() finds the first free cell, or the end.
LEMMA FirstFreeFound ==
    ASSUME NEW S, NEW c \in Seq(S)
    PROVE  /\ FirstFree(c) \in 1 .. Len(c) + 1
           /\ FirstFree(c) = Len(c) + 1 \/ c[FirstFree(c)] = Null
           /\ \A j \in 1 .. FirstFree(c) - 1 : c[j] # Null
<1>. DEFINE T == {i \in 1 .. Len(c) + 1 : i = Len(c) + 1 \/ c[i] = Null}
<1>1. Len(c) \in Nat /\ Len(c) + 1 \in T /\ T \subseteq Nat
  OBVIOUS
<1>2. PICK m \in T : \A k \in T : m <= k
  BY <1>1, LeastNat
<1>3. \A j \in 1 .. m - 1 : c[j] # Null
  <2>1. ASSUME NEW j \in 1 .. m - 1, c[j] = Null PROVE FALSE
    <3>1. j \in T /\ j < m
      BY <1>1, <2>1
    <3>. QED BY <1>2, <3>1, <1>1
  <2>. QED BY <2>1
<1>4. \E i \in 1 .. Len(c) + 1 :
         /\ i = Len(c) + 1 \/ c[i] = Null
         /\ \A j \in 1 .. i - 1 : c[j] # Null
  BY <1>3
<1>. QED BY <1>4 DEF FirstFree

\* skip_unoccupied_cells stops at the next element, or at the end.
LEMMA NextCellFound ==
    ASSUME NEW S, NEW c \in Seq(S), NEW i \in 1 .. Len(c) + 1
    PROVE  /\ NextCell(c, i) \in i .. Len(c) + 1
           /\ NextCell(c, i) = Len(c) + 1 \/ c[NextCell(c, i)] # Null
           /\ \A k \in i .. NextCell(c, i) - 1 : c[k] = Null
<1>. DEFINE T == {j \in i .. Len(c) + 1 : j = Len(c) + 1 \/ c[j] # Null}
<1>1. Len(c) \in Nat /\ Len(c) + 1 \in T /\ T \subseteq Nat
  OBVIOUS
<1>2. PICK m \in T : \A k \in T : m <= k
  BY <1>1, LeastNat
<1>3. \A k \in i .. m - 1 : c[k] = Null
  <2>1. ASSUME NEW k \in i .. m - 1, c[k] # Null PROVE FALSE
    <3>1. k \in T /\ k < m
      BY <1>1, <2>1
    <3>. QED BY <1>2, <3>1, <1>1
  <2>. QED BY <2>1
<1>4. \E j \in i .. Len(c) + 1 :
         /\ j = Len(c) + 1 \/ c[j] # Null
         /\ \A k \in i .. j - 1 : c[k] = Null
  BY <1>3
<1>. QED BY <1>4 DEF NextCell

\* d is c with el in one free cell of it, or in one behind it.
Stored(c, el, d) ==
    /\ Len(d) >= Len(c)
    /\ \E f \in 1 .. Len(d) :
          /\ d[f] = el
          /\ f <= Len(c) => c[f] = Null
          /\ \A j \in 1 .. Len(d) \ {f} : d[j] = IF j <= Len(c) THEN c[j] ELSE Null

\* d is longer than c only where c was full, and then twice as long, or one cell.
Doubled(c, d) ==
    \/ Len(d) = Len(c)
    \/ /\ \A j \in 1 .. Len(c) : c[j] # Null
       /\ Len(d) = IF Len(c) = 0 THEN 1 ELSE 2 * Len(c)

\* insert() changes one free cell, and makes room only when there is none.
LEMMA InsertStores ==
    ASSUME NEW S, Null \in S, NEW c \in Seq(S), NEW el \in S
    PROVE  /\ Insert(c, el) \in Seq(S)
           /\ Stored(c, el, Insert(c, el))
           /\ Doubled(c, Insert(c, el))
<1>. DEFINE f == FirstFree(c)
            n == IF f <= Len(c) THEN Len(c)
                 ELSE IF Len(c) = 0 THEN 1 ELSE 2 * Len(c)
<1>1. /\ Len(c) \in Nat /\ f \in 1 .. Len(c) + 1
      /\ f = Len(c) + 1 \/ c[f] = Null
      /\ \A j \in 1 .. f - 1 : c[j] # Null
  BY FirstFreeFound
<1>. HIDE DEF f
<1>2. n \in Nat /\ f \in 1 .. n /\ n >= Len(c)
  BY <1>1
<1>3. Insert(c, el) = [j \in 1 .. n |-> IF j = f THEN el
                                        ELSE IF j <= Len(c) THEN c[j] ELSE Null]
  BY DEF Insert, f
<1>4. n = Len(c) \/ ((\A j \in 1 .. Len(c) : c[j] # Null)
                     /\ n = IF Len(c) = 0 THEN 1 ELSE 2 * Len(c))
  <2>1. CASE f <= Len(c)
    BY <2>1
  <2>2. CASE f = Len(c) + 1
    BY <2>2, <1>1
  <2>. QED BY <2>1, <2>2, <1>1
<1>. HIDE DEF n
<1>5. \A j \in 1 .. n : j <= Len(c) => c[j] \in S
  BY <1>1, <1>2
<1>6. Insert(c, el) \in Seq(S) /\ Len(Insert(c, el)) = n
  <2>1. \A j \in 1 .. n :
           (IF j = f THEN el ELSE IF j <= Len(c) THEN c[j] ELSE Null) \in S
    BY <1>5
  <2>. QED BY <1>2, <1>3, <2>1
<1>7. Insert(c, el)[f] = el
  BY <1>2, <1>3
<1>8. \A j \in 1 .. n \ {f} :
         Insert(c, el)[j] = IF j <= Len(c) THEN c[j] ELSE Null
  BY <1>3
<1>9. Stored(c, el, Insert(c, el))
  BY <1>1, <1>2, <1>6, <1>7, <1>8 DEF Stored
<1>. QED BY <1>4, <1>6, <1>9 DEF Doubled

\* remove() frees one cell.
LEMMA RemoveFrees ==
    ASSUME NEW S, Null \in S, NEW c \in Seq(S), NEW i \in 1 .. Len(c)
    PROVE  /\ Remove(c, i) \in Seq(S)
           /\ Len(Remove(c, i)) = Len(c)
           /\ \A j \in 1 .. Len(c) :
                 Remove(c, i)[j] = IF j = i THEN Null ELSE c[j]
<1>1. Remove(c, i) = [c EXCEPT ![i] = Null]
  BY DEF Remove
<1>. QED BY <1>1, SMTT(30)
-----------------------------------------------------------------------------
(* The multiset. *)

Values == Els \union {Null}

BagTypeOK ==
    /\ cells \in Seq(Values)
    /\ iter \in 0 .. Len(cells) + 1
    /\ ref \in [Els -> Nat]
    /\ unseen \in [Els -> Nat]

\* The cells from k on that hold e.
CellsOf(c, k, e) == {i \in k .. Len(c) : c[i] = e}

Counted == \A e \in Els : ref[e] = Cardinality(CellsOf(cells, 1, e))

\* An iteration rests at an element or at the end, and what it has still to
\* visit is what the cells from there on hold.
Ahead ==
    /\ iter \in 1 .. Len(cells) => cells[iter] # Null
    /\ iter = 0 => unseen = Nothing
    /\ iter # 0 =>
          \A e \in Els : unseen[e] = Cardinality(CellsOf(cells, iter, e))

BagInv == BagTypeOK /\ Counted /\ Ahead /\ StaysSmall

USE BagAssumption

LEMMA CellsOfFinite ==
    ASSUME NEW c \in Seq(Values), NEW k \in Nat, NEW e
    PROVE  /\ IsFiniteSet(CellsOf(c, k, e))
           /\ Cardinality(CellsOf(c, k, e)) \in Nat
<1>1. Len(c) \in Int /\ k \in Int
  OBVIOUS
<1>2. IsFiniteSet(k .. Len(c))
  BY <1>1, FS_Interval
<1>3. CellsOf(c, k, e) \in SUBSET (k .. Len(c))
  BY DEF CellsOf
<1>4. IsFiniteSet(CellsOf(c, k, e))
  BY <1>2, <1>3, FS_Subset
<1>. QED BY <1>4, FS_CardinalityType

\* An inserted element is in one cell more, the others where they were.
LEMMA InsertCounts ==
    ASSUME NEW c \in Seq(Values), NEW el \in Values, NEW e \in Els
    PROVE  Cardinality(CellsOf(Insert(c, el), 1, e)) =
               Cardinality(CellsOf(c, 1, e)) + (IF e = el THEN 1 ELSE 0)
<1>. DEFINE new == Insert(c, el)
<1>1. new \in Seq(Values) /\ Stored(c, el, new)
  <2>1. Null \in Values
    BY DEF Values
  <2>. QED BY <2>1, InsertStores
<1>. HIDE DEF new
<1>2. Len(c) \in Nat /\ Len(new) \in Nat /\ Len(new) >= Len(c)
  BY <1>1 DEF Stored
<1>3. PICK f \in 1 .. Len(new) :
         /\ new[f] = el
         /\ f <= Len(c) => c[f] = Null
         /\ \A j \in 1 .. Len(new) \ {f} :
               new[j] = IF j <= Len(c) THEN c[j] ELSE Null
  BY <1>1 DEF Stored
<1>4. f \notin CellsOf(c, 1, e)
  BY <1>2, <1>3 DEF CellsOf
<1>5. CellsOf(new, 1, e) = CellsOf(c, 1, e) \union (IF e = el THEN {f} ELSE {})
  <2>1. \A j \in 1 .. Len(new) \ {f} : new[j] = e <=> (j <= Len(c) /\ c[j] = e)
    BY <1>3
  <2>. QED BY <1>1, <1>2, <1>3, <1>4, <2>1 DEF CellsOf
<1>6. IsFiniteSet(CellsOf(c, 1, e)) /\ Cardinality(CellsOf(c, 1, e)) \in Nat
  BY CellsOfFinite
<1>7. CASE e = el
  <2>1. CellsOf(new, 1, e) = CellsOf(c, 1, e) \union {f}
    BY <1>5, <1>7
  <2>2. Cardinality(CellsOf(c, 1, e) \union {f}) = Cardinality(CellsOf(c, 1, e)) + 1
    BY <1>4, <1>6, FS_AddElement
  <2>. QED BY <2>1, <2>2, <1>7 DEF new
<1>8. CASE e # el
  <2>1. CellsOf(new, 1, e) = CellsOf(c, 1, e)
    BY <1>5, <1>8
  <2>. QED BY <2>1, <1>6, <1>8 DEF new
<1>. QED BY <1>7, <1>8

\* A removed element is in one cell less.
LEMMA RemoveCounts ==
    ASSUME NEW c \in Seq(Values), NEW i \in 1 .. Len(c), c[i] \in Els,
           NEW e \in Els
    PROVE  Cardinality(CellsOf(Remove(c, i), 1, e)) =
               Cardinality(CellsOf(c, 1, e)) - (IF e = c[i] THEN 1 ELSE 0)
<1>1. /\ Len(Remove(c, i)) = Len(c)
      /\ \A j \in 1 .. Len(c) : Remove(c, i)[j] = IF j = i THEN Null ELSE c[j]
  BY RemoveFrees DEF Values
<1>2. CellsOf(Remove(c, i), 1, e) = CellsOf(c, 1, e) \ {i}
  BY <1>1 DEF CellsOf
<1>3. i \in CellsOf(c, 1, e) <=> e = c[i]
  BY DEF CellsOf
<1>4. IsFiniteSet(CellsOf(c, 1, e)) /\ Cardinality(CellsOf(c, 1, e)) \in Nat
  BY CellsOfFinite
<1>5. Cardinality(CellsOf(c, 1, e) \ {i}) =
         IF i \in CellsOf(c, 1, e) THEN Cardinality(CellsOf(c, 1, e)) - 1
         ELSE Cardinality(CellsOf(c, 1, e))
  BY <1>4, FS_RemoveElement
<1>6. CASE e = c[i]
  BY <1>2, <1>3, <1>5, <1>6
<1>7. CASE e # c[i]
  <2>1. Cardinality(CellsOf(Remove(c, i), 1, e)) = Cardinality(CellsOf(c, 1, e))
    BY <1>2, <1>3, <1>5, <1>7
  <2>. QED BY <2>1, <1>4, <1>7
<1>. QED BY <1>6, <1>7

\* The iterator's next rest has behind it the element it was at, and otherwise
\* the same elements before it.
LEMMA NextCounts ==
    ASSUME NEW c \in Seq(Values), NEW i \in 1 .. Len(c) + 1, NEW e \in Els
    PROVE  CellsOf(c, NextCell(c, i), e) = CellsOf(c, i, e)
<1>1. /\ NextCell(c, i) \in i .. Len(c) + 1
      /\ \A k \in i .. NextCell(c, i) - 1 : c[k] = Null
  BY NextCellFound
<1>2. Len(c) \in Nat /\ e # Null
  OBVIOUS
<1>. QED BY <1>1, <1>2 DEF CellsOf

LEMMA BagInvInit == BagInit => BagInv
<1>. SUFFICES ASSUME BagInit PROVE BagInv
  OBVIOUS
<1>1. BagTypeOK /\ StaysSmall
  BY DEF BagInit, BagTypeOK, StaysSmall, Nothing
<1>2. \A e \in Els : CellsOf(cells, 1, e) = {}
  BY DEF BagInit, CellsOf
<1>3. Counted
  BY <1>2, FS_EmptySet DEF BagInit, Counted, Nothing
<1>4. Ahead
  BY DEF BagInit, Ahead
<1>. QED BY <1>1, <1>3, <1>4 DEF BagInv

\* Of either kind of insert: what is counted, and that the array doubles only
\* when each of its cells holds one of fewer than MaxEls elements.
LEMMA InsertSmall ==
    ASSUME BagInv, NEW el \in Values, Cardinality(Held) < MaxEls,
           cells' = Insert(cells, el)
    PROVE  cells' \in Seq(Values) /\ StaysSmall'
<1>1. /\ cells \in Seq(Values) /\ Null \in Values /\ Len(cells) \in Nat
      /\ Len(cells) <= 2 * MaxEls /\ MaxEls \in Nat \ {0}
  BY DEF BagInv, BagTypeOK, StaysSmall, Values
<1>2. /\ cells' \in Seq(Values)
      /\ Doubled(cells, cells')
  BY <1>1, InsertStores
<1>3. CASE Len(cells') = Len(cells)
  BY <1>1, <1>2, <1>3 DEF StaysSmall
<1>4. CASE /\ \A j \in 1 .. Len(cells) : cells[j] # Null
           /\ Len(cells') = IF Len(cells) = 0 THEN 1 ELSE 2 * Len(cells)
  <2>1. Held = 1 .. Len(cells)
    BY <1>4 DEF Held
  <2>2. Cardinality(1 .. Len(cells)) = IF 1 > Len(cells) THEN 0 ELSE Len(cells) - 1 + 1
    <3>1. 1 \in Int /\ Len(cells) \in Int
      BY <1>1
    <3>. QED BY <3>1, FS_Interval
  <2>3. Len(cells) < MaxEls
    BY <2>1, <2>2, <1>1
  <2>4. Len(cells') <= 2 * MaxEls
    BY <1>1, <1>4, <2>3
  <2>. QED BY <1>2, <2>4 DEF StaysSmall
<1>. QED BY <1>2, <1>3, <1>4 DEF Doubled

LEMMA InsertElKeeps == ASSUME BagInv, NEW el \in Els, InsertEl(el) PROVE BagInv'
<1>1. /\ cells \in Seq(Values) /\ el \in Values /\ ref \in [Els -> Nat]
      /\ cells' = Insert(cells, el) /\ ref' = [ref EXCEPT ![el] = @ + 1]
      /\ iter = 0 /\ iter' = 0 /\ unseen' = unseen
      /\ Cardinality(Held) < MaxEls
  BY DEF BagInv, BagTypeOK, InsertEl, Values
<1>2. cells' \in Seq(Values) /\ StaysSmall'
  BY <1>1, InsertSmall
<1>3. BagTypeOK'
  BY <1>1, <1>2 DEF BagInv, BagTypeOK
<1>4. ASSUME NEW e \in Els PROVE ref'[e] = Cardinality(CellsOf(cells', 1, e))
  <2>1. Cardinality(CellsOf(cells', 1, e)) =
           Cardinality(CellsOf(cells, 1, e)) + (IF e = el THEN 1 ELSE 0)
    BY <1>1, InsertCounts
  <2>2. ref[e] = Cardinality(CellsOf(cells, 1, e)) /\ ref[e] \in Nat
    BY <1>1 DEF BagInv, Counted
  <2>3. ref'[e] = ref[e] + (IF e = el THEN 1 ELSE 0)
    BY <1>1, <2>2
  <2>. QED BY <2>1, <2>2, <2>3
<1>5. Counted'
  BY <1>4 DEF Counted
<1>6. Ahead'
  BY <1>1 DEF BagInv, Ahead, Nothing
<1>. QED BY <1>2, <1>3, <1>5, <1>6 DEF BagInv

LEMMA InsertNullKeeps == ASSUME BagInv, InsertNull PROVE BagInv'
<1>1. /\ cells \in Seq(Values) /\ Null \in Values
      /\ cells' = Insert(cells, Null) /\ ref' = ref
      /\ iter = 0 /\ iter' = 0 /\ unseen' = unseen
      /\ Cardinality(Held) < MaxEls
  BY DEF BagInv, BagTypeOK, InsertNull, Values
<1>2. cells' \in Seq(Values) /\ StaysSmall'
  BY <1>1, InsertSmall
<1>3. BagTypeOK'
  BY <1>1, <1>2 DEF BagInv, BagTypeOK
<1>4. ASSUME NEW e \in Els PROVE ref'[e] = Cardinality(CellsOf(cells', 1, e))
  <2>1. Cardinality(CellsOf(cells', 1, e)) =
           Cardinality(CellsOf(cells, 1, e)) + (IF e = Null THEN 1 ELSE 0)
    BY <1>1, InsertCounts
  <2>2. ref[e] = Cardinality(CellsOf(cells, 1, e)) /\ ref[e] \in Nat
    BY DEF BagInv, BagTypeOK, Counted
  <2>. QED BY <1>1, <2>1, <2>2
<1>5. Counted'
  BY <1>4 DEF Counted
<1>6. Ahead'
  BY <1>1 DEF BagInv, Ahead, Nothing
<1>. QED BY <1>2, <1>3, <1>5, <1>6 DEF BagInv

LEMMA BeginKeeps == ASSUME BagInv, Begin PROVE BagInv'
<1>1. /\ cells \in Seq(Values) /\ Len(cells) \in Nat /\ cells' = cells
      /\ ref' = ref /\ unseen' = ref /\ iter' = NextCell(cells, 1)
      /\ 1 \in 1 .. Len(cells) + 1
  BY DEF BagInv, BagTypeOK, Begin
<1>2. /\ iter' \in 1 .. Len(cells) + 1
      /\ iter' = Len(cells) + 1 \/ cells[iter'] # Null
  BY <1>1, NextCellFound
<1>3. BagTypeOK' /\ StaysSmall' /\ Counted'
  BY <1>1, <1>2 DEF BagInv, BagTypeOK, StaysSmall, Counted
<1>4. \A e \in Els : unseen'[e] = Cardinality(CellsOf(cells', iter', e))
  BY <1>1, NextCounts DEF BagInv, Counted
<1>5. Ahead'
  BY <1>1, <1>2, <1>4 DEF Ahead
<1>. QED BY <1>3, <1>5 DEF BagInv

\* An element that is visited was to be visited, and is not to be again.  The
\* cell itself may have been freed.
LEMMA VisitCounts ==
    ASSUME BagInv, iter \in 1 .. Len(cells), Seen,
           NEW c \in Seq(Values), Len(c) = Len(cells),
           \A j \in iter + 1 .. Len(cells) : c[j] = cells[j]
    PROVE  /\ cells[iter] \in Els /\ unseen' \in [Els -> Nat]
           /\ NextCell(c, iter + 1) \in 1 .. Len(c) + 1
           /\ NextCell(c, iter + 1) \in 1 .. Len(c) => c[NextCell(c, iter + 1)] # Null
           /\ \A e \in Els :
                 unseen'[e] = Cardinality(CellsOf(c, NextCell(c, iter + 1), e))
<1>1. /\ cells \in Seq(Values) /\ Len(cells) \in Nat
      /\ iter \in Nat /\ iter + 1 \in 1 .. Len(c) + 1 /\ unseen \in [Els -> Nat]
  BY DEF BagInv, BagTypeOK
<1>2. cells[iter] \in Els
  BY <1>1 DEF BagInv, Ahead, Values
<1>3. /\ NextCell(c, iter + 1) \in iter + 1 .. Len(c) + 1
      /\ NextCell(c, iter + 1) = Len(c) + 1 \/ c[NextCell(c, iter + 1)] # Null
  BY <1>1, NextCellFound
<1>4. ASSUME NEW e \in Els
      PROVE  /\ unseen[e] - (IF e = cells[iter] THEN 1 ELSE 0) =
                    Cardinality(CellsOf(c, NextCell(c, iter + 1), e))
             /\ unseen[e] - (IF e = cells[iter] THEN 1 ELSE 0) \in Nat
  <2>1. CellsOf(c, NextCell(c, iter + 1), e) = CellsOf(c, iter + 1, e)
    BY <1>1, NextCounts
  <2>2. CellsOf(c, iter + 1, e) = CellsOf(cells, iter, e) \ {iter}
    BY <1>1 DEF CellsOf
  <2>3. iter \in CellsOf(cells, iter, e) <=> e = cells[iter]
    BY <1>1 DEF CellsOf
  <2>4. IsFiniteSet(CellsOf(cells, iter, e))
    BY <1>1, CellsOfFinite
  <2>5. Cardinality(CellsOf(cells, iter, e) \ {iter}) =
           IF iter \in CellsOf(cells, iter, e) THEN Cardinality(CellsOf(cells, iter, e)) - 1
           ELSE Cardinality(CellsOf(cells, iter, e))
    BY <2>4, FS_RemoveElement
  <2>6. unseen[e] = Cardinality(CellsOf(cells, iter, e)) /\ unseen[e] \in Nat
    BY <1>1 DEF BagInv, Ahead
  <2>7. Cardinality(CellsOf(c, iter + 1, e)) \in Nat
    BY <1>1, CellsOfFinite
  <2>8. unseen[e] - (IF e = cells[iter] THEN 1 ELSE 0)
           = Cardinality(CellsOf(c, iter + 1, e))
    <3>1. CASE e = cells[iter]
      BY <2>2, <2>3, <2>5, <2>6, <3>1
    <3>2. CASE e # cells[iter]
      <4>1. unseen[e] = Cardinality(CellsOf(c, iter + 1, e))
        BY <2>2, <2>3, <2>5, <2>6, <3>2
      <4>. QED BY <4>1, <2>6, <3>2
    <3>. QED BY <3>1, <3>2
  <2>. QED BY <2>1, <2>7, <2>8
<1>5. \A e \in Els : unseen'[e] = unseen[e] - (IF e = cells[iter] THEN 1 ELSE 0)
  BY <1>1, <1>2 DEF Seen
<1>6. unseen' \in [Els -> Nat]
  <2>1. unseen' = [unseen EXCEPT ![cells[iter]] = @ - 1]
    BY DEF Seen
  <2>. QED BY <1>1, <1>4, <1>5, <2>1
<1>7. \A e \in Els : unseen'[e] = Cardinality(CellsOf(c, NextCell(c, iter + 1), e))
  BY <1>4, <1>5
<1>. QED BY <1>1, <1>2, <1>3, <1>6, <1>7

LEMMA VisitKeeps == ASSUME BagInv, Visit PROVE BagInv'
<1>1. /\ cells \in Seq(Values) /\ Len(cells) \in Nat /\ iter \in 1 .. Len(cells)
      /\ Seen /\ iter' = NextCell(cells, iter + 1) /\ cells' = cells /\ ref' = ref
  BY DEF BagInv, BagTypeOK, Visit
<1>2. /\ unseen' \in [Els -> Nat] /\ iter' \in 1 .. Len(cells) + 1
      /\ iter' \in 1 .. Len(cells) => cells[iter'] # Null
      /\ \A e \in Els : unseen'[e] = Cardinality(CellsOf(cells, iter', e))
  BY <1>1, VisitCounts
<1>3. BagTypeOK' /\ StaysSmall' /\ Counted'
  BY <1>1, <1>2 DEF BagInv, BagTypeOK, StaysSmall, Counted
<1>4. Ahead'
  BY <1>1, <1>2 DEF Ahead
<1>. QED BY <1>3, <1>4 DEF BagInv

LEMMA VisitAndRemoveKeeps == ASSUME BagInv, VisitAndRemove PROVE BagInv'
<1>1. /\ cells \in Seq(Values) /\ Len(cells) \in Nat /\ iter \in 1 .. Len(cells)
      /\ Seen /\ iter' = NextCell(cells', iter + 1) /\ cells' = Remove(cells, iter)
      /\ ref' = [ref EXCEPT ![cells[iter]] = @ - 1] /\ ref \in [Els -> Nat]
  BY DEF BagInv, BagTypeOK, VisitAndRemove
<1>2. /\ cells' \in Seq(Values) /\ Len(cells') = Len(cells)
      /\ \A j \in 1 .. Len(cells) : cells'[j] = IF j = iter THEN Null ELSE cells[j]
  BY <1>1, RemoveFrees DEF Values
<1>3. \A j \in iter + 1 .. Len(cells) : cells'[j] = cells[j]
  BY <1>1, <1>2
<1>4. /\ cells[iter] \in Els
      /\ unseen' \in [Els -> Nat] /\ iter' \in 1 .. Len(cells') + 1
      /\ iter' \in 1 .. Len(cells') => cells'[iter'] # Null
      /\ \A e \in Els : unseen'[e] = Cardinality(CellsOf(cells', iter', e))
  BY <1>1, <1>2, <1>3, VisitCounts
<1>5. ASSUME NEW e \in Els
      PROVE  ref'[e] = Cardinality(CellsOf(cells', 1, e)) /\ ref'[e] \in Nat
  <2>1. Cardinality(CellsOf(cells', 1, e)) =
           Cardinality(CellsOf(cells, 1, e)) - (IF e = cells[iter] THEN 1 ELSE 0)
    BY <1>1, <1>4, RemoveCounts
  <2>2. ref[e] = Cardinality(CellsOf(cells, 1, e)) /\ ref[e] \in Nat
    BY <1>1 DEF BagInv, Counted
  <2>3. ref'[e] = ref[e] - (IF e = cells[iter] THEN 1 ELSE 0)
    BY <1>1, <1>4
  <2>4. Cardinality(CellsOf(cells', 1, e)) \in Nat
    BY <1>2, CellsOfFinite
  <2>. QED BY <2>1, <2>2, <2>3, <2>4
<1>6. ref' \in [Els -> Nat]
  BY <1>1, <1>4, <1>5
<1>7. BagTypeOK' /\ Counted'
  BY <1>1, <1>2, <1>4, <1>5, <1>6 DEF BagTypeOK, Counted
<1>8. StaysSmall'
  BY <1>2 DEF BagInv, StaysSmall
<1>9. Ahead'
  BY <1>1, <1>4 DEF Ahead
<1>. QED BY <1>7, <1>8, <1>9 DEF BagInv

LEMMA EndKeeps == ASSUME BagInv, End PROVE BagInv'
BY DEF BagInv, BagTypeOK, Counted, Ahead, StaysSmall, End, Nothing

LEMMA BagInvStep == BagInv /\ [BagNext]_bagVars => BagInv'
<1>. SUFFICES ASSUME BagInv, [BagNext]_bagVars PROVE BagInv'
  OBVIOUS
<1>1. CASE UNCHANGED bagVars
  BY <1>1 DEF BagInv, BagTypeOK, Counted, Ahead, StaysSmall, Nothing, bagVars
<1>. QED BY <1>1, InsertElKeeps, InsertNullKeeps, BeginKeeps, VisitKeeps,
            VisitAndRemoveKeeps, EndKeeps DEF BagNext

LEMMA BagInvHolds == BagSpec => []BagInv
BY BagInvInit, BagInvStep, PTL DEF BagSpec

\* IsMultiset: the cells hold each element as often as it was inserted and not
\* removed (bag.hpp:7, 23-43).
THEOREM MultisetCorrect == BagSpec => []IsMultiset
<1>1. BagInv => IsMultiset
  BY DEF BagInv, Counted, CellsOf, IsMultiset
<1>. QED BY <1>1, BagInvHolds, PTL

\* VisitsEach: a loop that removes elements as it goes misses none and visits
\* none twice (bag.hpp:45-79).
THEOREM IterationCorrect == BagSpec => []VisitsEach
<1>1. ASSUME BagInv, iter = Len(cells) + 1 PROVE unseen = Nothing
  <2>1. Len(cells) \in Nat /\ iter # 0 /\ unseen \in [Els -> Nat]
    BY <1>1 DEF BagInv, BagTypeOK
  <2>2. \A e \in Els : CellsOf(cells, iter, e) = {}
    BY <1>1, <2>1 DEF CellsOf
  <2>3. \A e \in Els : unseen[e] = 0
    BY <1>1, <2>1, <2>2, FS_EmptySet DEF BagInv, Ahead
  <2>. QED BY <2>1, <2>3 DEF Nothing
<1>2. BagInv => VisitsEach
  BY <1>1 DEF VisitsEach
<1>. QED BY <1>2, BagInvHolds, PTL

\* StaysSmall: the array stays within twice the most elements held at a time
\* (bag.hpp:23-34).
THEOREM SizeCorrect == BagSpec => []StaysSmall
BY BagInvHolds, PTL DEF BagInv

-----------------------------------------------------------------------------
(* The registry. *)

Steps == {"off", "idle", "ended", "scan_lock", "scan", "create", "install",
          "wait_lock", "wait"}

Cells == Workers \union {Null}

TypeOK ==
    /\ threads \in Seq(Cells)
    /\ mutex \subseteq Actors
    /\ pc \in [Actors -> Steps]
    /\ at \in [Actors -> Nat]
    /\ made \in [Actors -> Cells]
    /\ ready \subseteq Workers

\* The mutex is held by the thread that is in a loop over the bag.
Locked == \A a \in Actors : pc[a] \in {"scan", "wait"} <=> mutex = {a}

Making == \A a \in Actors : made[a] # Null <=> pc[a] = "install"

\* An iterator is at an element or at the end.
Placed ==
    \A a \in Actors : pc[a] \in {"scan", "wait"} =>
        /\ at[a] \in 1 .. Len(threads) + 1
        /\ at[a] <= Len(threads) => threads[at[a]] # Null

\* What lies behind the iterator: nothing for the wait, and no thread that had
\* ended and told so for the scan.
Behind ==
    \A a \in Actors : \A j \in 1 .. at[a] - 1 :
        /\ pc[a] = "wait" => threads[j] = Null
        /\ pc[a] = "scan" => threads[j] \notin ready

\* Threads do not make each other in a circle.
Rooted ==
    \A S \in SUBSET Workers : S # {} => \E w \in S : \A a \in S : made[a] # w

IInv == TypeOK /\ HandlesMatch /\ Locked /\ Making /\ Placed /\ Behind /\ Rooted

-----------------------------------------------------------------------------
(* The bag of the registry, with each handle in one cell at most. *)

Elements(c) == {c[i] : i \in 1 .. Len(c)} \ {Null}

Once(c) ==
    \A i, j \in 1 .. Len(c) : c[i] = c[j] /\ c[i] # Null => i = j

LEMMA InsertRecords ==
    ASSUME NEW c \in Seq(Cells), NEW el \in Workers, el # Null,
           el \notin Elements(c), Once(c)
    PROVE  /\ Elements(Insert(c, el)) = Elements(c) \union {el}
           /\ Once(Insert(c, el))
<1>. DEFINE new == Insert(c, el)
<1>0. new \in Seq(Cells) /\ Stored(c, el, new)
  <2>1. Null \in Cells /\ el \in Cells
    BY DEF Cells
  <2>. QED BY <2>1, InsertStores
<1>. HIDE DEF new
<1>1. Len(c) \in Nat /\ Len(new) \in Nat /\ Len(new) >= Len(c)
  BY <1>0 DEF Stored
<1>2. PICK f \in 1 .. Len(new) :
         /\ new[f] = el
         /\ f <= Len(c) => c[f] = Null
         /\ \A j \in 1 .. Len(new) \ {f} :
               new[j] = IF j <= Len(c) THEN c[j] ELSE Null
  BY <1>0 DEF Stored
<1>3. \A j \in 1 .. Len(new) : j # f /\ new[j] # Null =>
         j \in 1 .. Len(c) /\ new[j] = c[j]
  BY <1>1, <1>2
<1>4. \A j \in 1 .. Len(c) : c[j] # Null =>
         j \in 1 .. Len(new) /\ j # f /\ new[j] = c[j]
  BY <1>1, <1>2
<1>5. Elements(new) = Elements(c) \union {el}
  BY <1>2, <1>3, <1>4 DEF Elements
<1>6. Once(new)
  <2>1. ASSUME NEW i \in 1 .. Len(new), NEW j \in 1 .. Len(new),
               new[i] = new[j], new[i] # Null
        PROVE  i = j
    <3>1. CASE i # f /\ j # f
      BY <2>1, <3>1, <1>3 DEF Once
    <3>2. ASSUME NEW k \in 1 .. Len(new), k # f, new[k] # Null PROVE new[k] # el
      BY <3>2, <1>3 DEF Elements
    <3>. QED BY <2>1, <3>1, <3>2, <1>2
  <2>. QED BY <2>1 DEF Once
<1>. QED BY <1>5, <1>6 DEF new

\* remove() of an element that is there once leaves the others.
LEMMA RemoveForgets ==
    ASSUME NEW c \in Seq(Cells), NEW i \in 1 .. Len(c),
           c[i] # Null, Once(c)
    PROVE  /\ Remove(c, i) \in Seq(Cells)
           /\ Len(Remove(c, i)) = Len(c)
           /\ \A j \in 1 .. Len(c) :
                 Remove(c, i)[j] = IF j = i THEN Null ELSE c[j]
           /\ Elements(Remove(c, i)) = Elements(c) \ {c[i]}
           /\ Once(Remove(c, i))
<1>. DEFINE new == Remove(c, i)
<1>1. /\ new \in Seq(Cells) /\ Len(new) = Len(c)
      /\ \A j \in 1 .. Len(c) : new[j] = IF j = i THEN Null ELSE c[j]
  <2>1. Null \in Cells
    BY DEF Cells
  <2>. QED BY <2>1, RemoveFrees
<1>. HIDE DEF new
<1>2. Elements(new) = Elements(c) \ {c[i]}
  BY <1>1 DEF Elements, Once
<1>3. Once(new)
  BY <1>1 DEF Once
<1>. QED BY <1>1, <1>2, <1>3 DEF new

-----------------------------------------------------------------------------
(* The invariant. *)

LEMMA HandlesAre ==
    HandlesMatch <=>
       /\ \A w \in Workers :
             pc[w] # "off" <=> w \in Elements(threads) \/ \E a \in Actors : made[a] = w
       /\ Once(threads)
       /\ \A a, b \in Actors : made[a] = made[b] /\ made[a] # Null => a = b
       /\ \A a \in Actors : made[a] \notin Elements(threads)
BY DEF HandlesMatch, Recorded, Elements, Once

LEMMA InvariantInit == Init => IInv
<1>. SUFFICES ASSUME Init PROVE IInv
  OBVIOUS
<1>. USE RegistryAssumption DEF Init
<1>1. TypeOK
  BY DEF TypeOK, Actors, Cells, Steps
<1>2. HandlesMatch
  <2>1. Elements(threads) = {} /\ Once(threads)
    BY DEF Elements, Once
  <2>2. \A w \in Workers : pc[w] = "off"
    BY DEF Actors
  <2>3. \A a \in Actors : made[a] = Null
    OBVIOUS
  <2>. QED BY <2>1, <2>2, <2>3, HandlesAre
<1>3. Locked /\ Making /\ Placed /\ Behind
  BY DEF Locked, Making, Placed, Behind, Actors
<1>4. Rooted
  BY DEF Rooted, Actors
<1>. QED BY <1>1, <1>2, <1>3, <1>4 DEF IInv

\* Steps that move one thread, which neither holds the mutex nor makes a thread
\* before or after, and leave the rest alone.
LEMMA MoveKeeps ==
    ASSUME IInv, NEW a \in Actors, NEW step \in Steps,
           pc[a] \notin {"off", "scan", "wait", "install"},
           step \notin {"off", "scan", "wait", "install"},
           GoTo(a, step), UNCHANGED <<threads, mutex, at, made, ready>>
    PROVE  IInv'
<1>. USE DEF GoTo
<1>1. TypeOK'
  BY DEF IInv, TypeOK
<1>2. \A b \in Actors : (pc'[b] = "off" <=> pc[b] = "off")
         /\ (pc'[b] = "install" <=> pc[b] = "install")
         /\ (pc'[b] = "scan" <=> pc[b] = "scan") /\ (pc'[b] = "wait" <=> pc[b] = "wait")
  BY DEF IInv, TypeOK
<1>3. HandlesMatch'
  BY <1>2 DEF IInv, HandlesMatch, Recorded, Actors
<1>4. Locked' /\ Making' /\ Placed' /\ Behind' /\ Rooted'
  BY <1>2 DEF IInv, Locked, Making, Placed, Behind, Rooted
<1>. QED BY <1>1, <1>3, <1>4 DEF IInv

\* Two threads cannot both be in a loop over the bag.
LEMMA OneLoop ==
    ASSUME TypeOK, Locked, NEW a \in Actors, pc[a] \in {"scan", "wait"}
    PROVE  mutex = {a} /\ \A b \in Actors : pc[b] \in {"scan", "wait"} => b = a
BY DEF Locked

\* A loop over the bag begins.
LEMMA LoopBegins ==
    ASSUME IInv, NEW a \in Actors, NEW step \in {"scan", "wait"},
           pc[a] \in {"scan_lock", "wait_lock"}, mutex = {}, mutex' = {a},
           at' = [at EXCEPT ![a] = NextCell(threads, 1)], GoTo(a, step),
           ready' \subseteq Workers, UNCHANGED <<threads, made>>
    PROVE  IInv'
<1>. USE DEF GoTo
<1>1. /\ Len(threads) \in Nat /\ NextCell(threads, 1) \in 1 .. Len(threads) + 1
      /\ NextCell(threads, 1) = Len(threads) + 1 \/ threads[NextCell(threads, 1)] # Null
      /\ \A k \in 1 .. NextCell(threads, 1) - 1 : threads[k] = Null
  <2>1. threads \in Seq(Cells)
    BY DEF IInv, TypeOK
  <2>2. Len(threads) \in Nat /\ 1 \in 1 .. Len(threads) + 1
    BY <2>1
  <2>. QED BY <2>1, <2>2, NextCellFound
<1>2. TypeOK'
  BY <1>1 DEF IInv, TypeOK, Steps
<1>3. \A b \in Actors : /\ pc'[b] = "off" <=> pc[b] = "off"
                        /\ pc'[b] = "install" <=> pc[b] = "install"
  BY DEF IInv, TypeOK
<1>4. \A b \in Actors : pc'[b] \in {"scan", "wait"} <=> b = a
  BY DEF IInv, TypeOK, Locked
<1>5. HandlesMatch'
  BY <1>3 DEF IInv, HandlesMatch, Recorded, Actors
<1>6. Locked' /\ Making' /\ Rooted'
  BY <1>3, <1>4 DEF IInv, Locked, Making, Rooted
<1>7. at'[a] = NextCell(threads, 1)
  BY DEF IInv, TypeOK
<1>8. Placed'
  BY <1>1, <1>4, <1>7 DEF Placed
<1>9. Behind'
  <2>1. Null \notin ready'
    BY RegistryAssumption
  <2>2. ASSUME NEW b \in Actors, NEW j \in 1 .. at'[b] - 1
        PROVE  /\ pc'[b] = "wait" => threads'[j] = Null
               /\ pc'[b] = "scan" => threads'[j] \notin ready'
    <3>1. CASE b = a
      BY <3>1, <1>1, <1>7, <2>1
    <3>2. CASE b # a
      BY <3>2, <1>4
    <3>. QED BY <3>1, <3>2
  <2>. QED BY <2>2 DEF Behind
<1>. QED BY <1>2, <1>5, <1>6, <1>8, <1>9 DEF IInv

\* An iterator goes on from a cell that is free or need not be looked at.
LEMMA IteratorMoves ==
    ASSUME IInv, NEW a \in Actors, pc[a] \in {"scan", "wait"}, at[a] <= Len(threads),
           threads' \in Seq(Cells), Len(threads') = Len(threads),
           \A j \in 1 .. Len(threads) :
              threads'[j] = threads[j] \/ (j = at[a] /\ threads'[j] = Null),
           pc[a] = "wait" => threads'[at[a]] = Null,
           pc[a] = "scan" => threads'[at[a]] \notin ready',
           at' = [at EXCEPT ![a] = NextCell(threads', at[a] + 1)],
           pc' \in [Actors -> Steps], pc'[a] = pc[a],
           \A b \in Actors : pc'[b] \in {"scan", "wait"} => pc[b] \in {"scan", "wait"},
           ready' \subseteq ready
    PROVE  at' \in [Actors -> Nat] /\ Placed' /\ Behind'
<1>1. /\ at[a] \in 1 .. Len(threads) /\ Len(threads) \in Nat /\ at \in [Actors -> Nat]
      /\ ready \subseteq Workers
  BY DEF IInv, TypeOK, Placed
<1>. DEFINE k == NextCell(threads', at[a] + 1)
<1>2. /\ k \in at[a] + 1 .. Len(threads') + 1
      /\ k = Len(threads') + 1 \/ threads'[k] # Null
      /\ \A j \in at[a] + 1 .. k - 1 : threads'[j] = Null
  <2>1. at[a] + 1 \in 1 .. Len(threads') + 1
    BY <1>1
  <2>. QED BY <2>1, NextCellFound
<1>3. at' = [at EXCEPT ![a] = k]
  OBVIOUS
<1>. HIDE DEF k
<1>4. k \in Nat /\ k >= 1 /\ at'[a] = k
  BY <1>1, <1>2, <1>3
<1>5. \A b \in Actors : pc'[b] \in {"scan", "wait"} => b = a
  BY OneLoop DEF IInv
<1>6. Placed'
  BY <1>1, <1>2, <1>4, <1>5 DEF Placed
<1>7. ASSUME NEW j \in 1 .. k - 1
      PROVE  /\ pc[a] = "wait" => threads'[j] = Null
             /\ pc[a] = "scan" => threads'[j] \notin ready'
  <2>1. CASE j < at[a]
    <3>1. j \in 1 .. at[a] - 1 /\ j \in 1 .. Len(threads) /\ j # at[a]
      BY <2>1, <1>1, <1>4
    <3>2. threads'[j] = threads[j]
      BY <3>1
    <3>. QED BY <3>1, <3>2 DEF IInv, Behind
  <2>2. CASE j = at[a]
    BY <2>2
  <2>3. CASE j > at[a]
    <3>1. threads'[j] = Null
      BY <2>3, <1>1, <1>2, <1>4
    <3>. QED BY <3>1, <1>1, RegistryAssumption
  <2>. QED BY <2>1, <2>2, <2>3, <1>1, <1>4
<1>8. Behind'
  BY <1>4, <1>5, <1>7 DEF Behind
<1>. QED BY <1>1, <1>3, <1>4, <1>6, <1>8

LEMMA KeepStep == ASSUME IInv, NEW a \in Actors, KeepThread(a) PROVE IInv'
<1>. USE DEF KeepThread
<1>1. threads \in Seq(Cells) /\ pc \in [Actors -> Steps] /\ ready' \subseteq Workers
  BY DEF IInv, TypeOK
<1>2. at' \in [Actors -> Nat] /\ Placed' /\ Behind'
  BY <1>1, IteratorMoves
<1>3. TypeOK'
  BY <1>1, <1>2 DEF IInv, TypeOK
<1>4. HandlesMatch' /\ Locked' /\ Making' /\ Rooted'
  BY DEF IInv, HandlesMatch, Recorded, Locked, Making, Rooted
<1>. QED BY <1>2, <1>3, <1>4 DEF IInv

\* A thread that has ended is joined and its handle removed.
LEMMA JoinKeeps ==
    ASSUME IInv, NEW a \in Actors, pc[a] \in {"scan", "wait"}, at[a] <= Len(threads),
           pc[threads[at[a]]] = "ended", JoinAndGoTo(threads[at[a]], a, pc[a]),
           threads' = Remove(threads, at[a]),
           at' = [at EXCEPT ![a] = NextCell(threads', at[a] + 1)],
           UNCHANGED <<mutex, made, ready>>
    PROVE  IInv'
<1>. DEFINE w == threads[at[a]]
<1>1. /\ threads \in Seq(Cells) /\ at[a] \in 1 .. Len(threads) /\ w # Null
      /\ Once(threads)
  BY HandlesAre DEF IInv, TypeOK, Placed
<1>2. w \in Workers /\ w \in Actors /\ w \in Elements(threads)
  BY <1>1 DEF Cells, Actors, Elements
<1>3. /\ threads' \in Seq(Cells) /\ Len(threads') = Len(threads)
      /\ \A j \in 1 .. Len(threads) :
            threads'[j] = IF j = at[a] THEN Null ELSE threads[j]
      /\ Elements(threads)' = Elements(threads) \ {w} /\ Once(threads)'
  BY <1>1, RemoveForgets
<1>4. pc' = [pc EXCEPT ![w] = "off", ![a] = pc[a]] /\ pc[w] = "ended"
  BY DEF JoinAndGoTo
<1>. HIDE DEF w
<1>5. /\ pc' \in [Actors -> Steps] /\ w # a
      /\ \A b \in Actors : pc'[b] = IF b = w THEN "off" ELSE pc[b]
  BY <1>2, <1>4 DEF IInv, TypeOK, Steps
<1>6. at' \in [Actors -> Nat] /\ Placed' /\ Behind'
  <2>1. \A j \in 1 .. Len(threads) :
           threads'[j] = threads[j] \/ (j = at[a] /\ threads'[j] = Null)
    BY <1>3
  <2>2. threads'[at[a]] = Null /\ Null \notin ready'
    BY <1>1, <1>3, RegistryAssumption DEF IInv, TypeOK
  <2>3. \A b \in Actors : pc'[b] \in {"scan", "wait"} => pc[b] \in {"scan", "wait"}
    BY <1>5
  <2>. QED BY <1>3, <1>5, <2>1, <2>2, <2>3, IteratorMoves
<1>7. TypeOK'
  BY <1>3, <1>5, <1>6 DEF IInv, TypeOK
<1>8. HandlesMatch'
  <2>1. \A b \in Actors : made[b] # w
    BY <1>2, HandlesAre DEF IInv
  <2>2. \A v \in Workers : pc'[v] # "off" <=>
           v \in Elements(threads)' \/ \E b \in Actors : made'[b] = v
    BY <1>2, <1>3, <1>5, <2>1, HandlesAre DEF IInv, Actors
  <2>3. \A b \in Actors : made'[b] \notin Elements(threads)'
    BY <1>3, HandlesAre DEF IInv
  <2>4. \A b, c \in Actors : made'[b] = made'[c] /\ made'[b] # Null => b = c
    BY HandlesAre DEF IInv
  <2>. QED BY <1>3, <2>2, <2>3, <2>4 DEF HandlesMatch, Recorded, Elements, Once
<1>9. Locked' /\ Making' /\ Rooted'
  BY <1>4, <1>5 DEF IInv, Locked, Making, Rooted
<1>. QED BY <1>6, <1>7, <1>8, <1>9 DEF IInv

\* A loop over the bag ends, and with it the mutex is given back.
LEMMA LoopEnds ==
    ASSUME IInv, NEW a \in Actors, NEW step \in {"create", "idle"},
           pc[a] \in {"scan", "wait"}, mutex' = {}, at' = [at EXCEPT ![a] = 0],
           GoTo(a, step), ready' \subseteq Workers, UNCHANGED <<threads, made>>
    PROVE  IInv'
<1>. USE DEF GoTo
<1>1. TypeOK'
  BY DEF IInv, TypeOK, Steps
<1>2. \A b \in Actors : /\ pc'[b] = "off" <=> pc[b] = "off"
                        /\ pc'[b] = "install" <=> pc[b] = "install"
                        /\ pc'[b] \notin {"scan", "wait"}
  BY OneLoop DEF IInv, TypeOK
<1>3. HandlesMatch'
  BY <1>2 DEF IInv, HandlesMatch, Recorded, Actors
<1>4. Locked' /\ Making' /\ Placed' /\ Rooted'
  BY <1>2 DEF IInv, Locked, Making, Placed, Rooted
<1>5. Behind'
  BY <1>2 DEF Behind
<1>. QED BY <1>1, <1>3, <1>4, <1>5 DEF IInv

LEMMA CreateStep == ASSUME IInv, NEW a \in Actors, CreateThread(a) PROVE IInv'
<1>1. PICK w \in Workers : /\ pc[w] = "off"
                           /\ made' = [made EXCEPT ![a] = w]
                           /\ pc' = [pc EXCEPT ![w] = "idle", ![a] = "install"]
  BY DEF CreateThread
<1>2. pc[a] = "create" /\ UNCHANGED <<threads, mutex, at, ready>>
  BY DEF CreateThread
<1>3. w # a /\ w \in Actors /\ w # Null
  BY <1>1, <1>2, RegistryAssumption DEF Actors
<1>4. \A b \in Actors :
         /\ pc'[b] = IF b = a THEN "install" ELSE IF b = w THEN "idle" ELSE pc[b]
         /\ made'[b] = IF b = a THEN w ELSE made[b]
  BY <1>1, <1>3 DEF IInv, TypeOK
<1>5. TypeOK'
  BY <1>1, <1>2, <1>3 DEF IInv, TypeOK, Steps, Cells
<1>6. made[a] = Null /\ made[w] = Null /\ w \notin Elements(threads)
      /\ \A b \in Actors : made[b] # w
  BY <1>1, <1>2, <1>3, HandlesAre DEF IInv, Making
<1>7. HandlesMatch'
  <2>1. Elements(threads)' = Elements(threads) /\ Once(threads)'
    BY <1>2, HandlesAre DEF IInv, Elements, Once
  <2>2. \A v \in Workers : pc'[v] # "off" <=>
           v \in Elements(threads)' \/ \E b \in Actors : made'[b] = v
    <3>1. ASSUME NEW v \in Workers, v # w, v # a
          PROVE  pc'[v] # "off" <=>
                    v \in Elements(threads)' \/ \E b \in Actors : made'[b] = v
      <4>1. pc[v] # "off" <=> v \in Elements(threads) \/ \E b \in Actors : made[b] = v
        BY HandlesAre DEF IInv
      <4>2. (\E b \in Actors : made'[b] = v) <=> (\E b \in Actors : made[b] = v)
        BY <3>1, <1>4, <1>6, RegistryAssumption
      <4>. QED BY <3>1, <4>1, <4>2, <2>1, <1>4 DEF Actors
    <3>2. pc'[w] # "off" /\ made'[a] = w
      BY <1>3, <1>4
    <3>3. a \in Workers => pc'[a] # "off" /\
             (a \in Elements(threads)' \/ \E b \in Actors : made'[b] = a)
      <4>1. HAVE a \in Workers
      <4>2. a \in Elements(threads) \/ \E b \in Actors : made[b] = a
        BY <4>1, <1>2, HandlesAre DEF IInv
      <4>3. \A b \in Actors : made[b] = a => made'[b] = a
        BY <4>1, <1>4, <1>6, RegistryAssumption
      <4>. QED BY <4>2, <4>3, <2>1, <1>4
    <3>. QED BY <3>1, <3>2, <3>3
  <2>3. \A b \in Actors : made'[b] \notin Elements(threads)'
    BY <1>4, <1>6, <2>1, HandlesAre DEF IInv
  <2>4. \A b, c \in Actors : made'[b] = made'[c] /\ made'[b] # Null => b = c
    BY <1>4, <1>6, HandlesAre DEF IInv
  <2>. QED BY <2>1, <2>2, <2>3, <2>4 DEF HandlesMatch, Recorded, Elements, Once
<1>8. Locked' /\ Making' /\ Placed' /\ Behind'
  <2>1. \A b \in Actors : /\ pc'[b] = "scan" <=> pc[b] = "scan"
                          /\ pc'[b] = "wait" <=> pc[b] = "wait"
    <3>1. pc[a] = "create" /\ pc[w] = "off"
      BY <1>1, <1>2
    <3>. QED BY <3>1, <1>4
  <2>2. Making'
    <3>1. made'[a] # Null /\ pc'[a] = "install" /\ made'[w] = Null /\ pc'[w] = "idle"
      BY <1>3, <1>4, <1>6
    <3>2. \A b \in Actors \ {a, w} : made'[b] = made[b] /\ pc'[b] = pc[b]
      BY <1>4
    <3>. QED BY <3>1, <3>2 DEF IInv, Making
  <2>. QED BY <1>2, <2>1, <2>2 DEF IInv, Locked, Placed, Behind
<1>9. Rooted'
  <2>1. ASSUME NEW S \in SUBSET Workers, S # {}
        PROVE  \E v \in S : \A b \in S : made'[b] # v
    <3>1. CASE S = {w}
      BY <3>1, <1>3, <1>4, <1>6
    <3>2. CASE S # {w}
      <4>1. S \ {w} # {} /\ S \ {w} \in SUBSET Workers
        BY <2>1, <3>2
      <4>2. PICK v \in S \ {w} : \A b \in S \ {w} : made[b] # v
        BY <4>1 DEF IInv, Rooted
      <4>3. \A b \in S : made'[b] # v
        BY <4>2, <1>3, <1>4, <1>6, RegistryAssumption DEF Actors
      <4>. QED BY <4>2, <4>3
    <3>. QED BY <3>1, <3>2
  <2>. QED BY <2>1 DEF Rooted
<1>. QED BY <1>5, <1>7, <1>8, <1>9 DEF IInv

LEMMA InstallStep == ASSUME IInv, NEW a \in Actors, Install(a) PROVE IInv'
<1>. DEFINE w == made[a]
<1>1. /\ pc[a] = "install" /\ mutex = {} /\ threads' = Insert(threads, w)
      /\ made' = [made EXCEPT ![a] = Null] /\ pc' = [pc EXCEPT ![a] = "idle"]
      /\ UNCHANGED <<mutex, at, ready>>
  BY DEF Install, GoTo
<1>2. w \in Workers /\ w # Null /\ w \notin Elements(threads) /\ Once(threads)
      /\ threads \in Seq(Cells)
  BY <1>1, HandlesAre DEF IInv, TypeOK, Making, Cells
<1>3. /\ threads' \in Seq(Cells) /\ Once(threads)'
      /\ Elements(threads)' = Elements(threads) \union {w}
  <2>1. Null \in Cells /\ w \in Cells
    BY <1>2 DEF Cells
  <2>2. Insert(threads, w) \in Seq(Cells)
    BY <1>2, <2>1, InsertStores
  <2>3. /\ Elements(Insert(threads, w)) = Elements(threads) \union {w}
        /\ Once(Insert(threads, w))
    BY <1>2, InsertRecords
  <2>. QED BY <1>1, <2>2, <2>3 DEF Elements, Once
<1>. HIDE DEF w
<1>4. \A b \in Actors : /\ pc'[b] = IF b = a THEN "idle" ELSE pc[b]
                        /\ made'[b] = IF b = a THEN Null ELSE made[b]
  BY <1>1 DEF IInv, TypeOK
<1>5. TypeOK'
  BY <1>1, <1>3 DEF IInv, TypeOK, Cells, Steps
<1>6. HandlesMatch'
  <2>1. made[a] = w
    BY DEF w
  <2>2. \A v \in Workers : pc'[v] # "off" <=>
           v \in Elements(threads)' \/ \E b \in Actors : made'[b] = v
    <3>1. ASSUME NEW v \in Workers
          PROVE  pc'[v] # "off" <=>
                    v \in Elements(threads)' \/ \E b \in Actors : made'[b] = v
      <4>1. pc[v] # "off" <=> v \in Elements(threads) \/ \E b \in Actors : made[b] = v
        BY HandlesAre DEF IInv
      <4>2. pc'[v] # "off" <=> pc[v] # "off"
        BY <1>1, <1>4 DEF Actors
      <4>3. v = w \/ ((\E b \in Actors : made'[b] = v) <=> (\E b \in Actors : made[b] = v))
        BY <1>4, <2>1, RegistryAssumption
      <4>4. \E b \in Actors : made[b] = w
        BY <2>1
      <4>. QED BY <4>1, <4>2, <4>3, <4>4, <1>3
    <3>. QED BY <3>1
  <2>3. \A b \in Actors : made'[b] \notin Elements(threads)'
    <3>1. Null \notin Elements(threads)'
      BY DEF Elements
    <3>. QED BY <1>2, <1>3, <1>4, <2>1, <3>1, HandlesAre DEF IInv
  <2>4. \A b, c \in Actors : made'[b] = made'[c] /\ made'[b] # Null => b = c
    BY <1>4, HandlesAre DEF IInv
  <2>. QED BY <1>3, <2>2, <2>3, <2>4 DEF HandlesMatch, Recorded, Elements, Once
<1>7. \A b \in Actors : pc'[b] \notin {"scan", "wait"} /\ pc[b] \notin {"scan", "wait"}
  BY <1>1, <1>4 DEF IInv, Locked
<1>8. Locked' /\ Making' /\ Placed' /\ Behind'
  BY <1>1, <1>4, <1>7 DEF IInv, Locked, Making, Placed, Behind
<1>9. Rooted'
  <2>1. ASSUME NEW S \in SUBSET Workers, S # {}
        PROVE  \E v \in S : \A b \in S : made'[b] # v
    <3>1. PICK v \in S : \A b \in S : made[b] # v
      BY <2>1 DEF IInv, Rooted
    <3>. QED BY <3>1, <1>4, RegistryAssumption DEF Actors
  <2>. QED BY <2>1 DEF Rooted
<1>. QED BY <1>5, <1>6, <1>8, <1>9 DEF IInv

LEMMA SpawnKeeps == ASSUME IInv, NEW a \in Actors, SpawnStep(a) PROVE IInv'
<1>1. CASE LockToScan(a)
  <2>1. ready' \subseteq Workers
    BY <1>1 DEF LockToScan, IInv, TypeOK, Recorded, Cells
  <2>. QED BY <1>1, <2>1, LoopBegins DEF LockToScan, ThreadsMutex!Acquire
<1>2. CASE KeepThread(a)
  BY <1>2, KeepStep
<1>3. CASE JoinReady(a)
  <2>1. pc[a] = "scan" /\ JoinAndGoTo(threads[at[a]], a, pc[a])
    BY <1>3 DEF JoinReady
  <2>. QED BY <1>3, <2>1, JoinKeeps DEF JoinReady
<1>4. CASE EndScan(a)
  BY <1>4, LoopEnds DEF EndScan, ThreadsMutex!Release
<1>5. CASE CreateThread(a)
  BY <1>5, CreateStep
<1>6. CASE CreateFails(a)
  BY <1>6, MoveKeeps DEF CreateFails, Steps
<1>7. CASE Install(a)
  BY <1>7, InstallStep
<1>. QED BY <1>1, <1>2, <1>3, <1>4, <1>5, <1>6, <1>7 DEF SpawnStep

LEMMA MainWaits == Main \in Actors
BY DEF Actors

LEMMA WaitKeeps == ASSUME IInv, WaitStep PROVE IInv'
<1>1. CASE LockToWait
  <2>1. ready' \subseteq Workers
    BY <1>1 DEF LockToWait, IInv, TypeOK
  <2>. QED BY <1>1, <2>1, LoopBegins, MainWaits DEF LockToWait, ThreadsMutex!Acquire
<1>2. CASE JoinNext
  <2>1. pc[Main] = "wait" /\ JoinAndGoTo(threads[at[Main]], Main, pc[Main])
    BY <1>2 DEF JoinNext
  <2>. QED BY <1>2, <2>1, JoinKeeps, MainWaits DEF JoinNext
<1>3. CASE EndWait
  <2>1. ready' \subseteq Workers
    BY <1>3 DEF EndWait, IInv, TypeOK
  <2>. QED BY <1>3, <2>1, LoopEnds, MainWaits DEF EndWait, ThreadsMutex!Release
<1>. QED BY <1>1, <1>2, <1>3 DEF WaitStep

LEMMA InvariantStep == IInv /\ [Next]_vars => IInv'
<1>. SUFFICES ASSUME IInv, [Next]_vars PROVE IInv'
  OBVIOUS
<1>1. ASSUME NEW a \in Spawners, BeginSpawn(a) PROVE IInv'
  <2>1. a \in Actors
    BY RegistryAssumption DEF Actors
  <2>. QED BY <1>1, <2>1, MoveKeeps DEF BeginSpawn, Steps
<1>2. ASSUME NEW a \in Actors, SpawnStep(a) PROVE IInv'
  BY <1>2, SpawnKeeps
<1>3. CASE BeginWait
  BY <1>3, MoveKeeps, MainWaits DEF BeginWait, Steps
<1>4. CASE WaitStep
  BY <1>4, WaitKeeps
<1>5. ASSUME NEW w \in Workers, ThreadEnds(w) PROVE IInv'
  <2>1. w \in Actors
    BY DEF Actors
  <2>. QED BY <1>5, <2>1, MoveKeeps DEF ThreadEnds, Steps
<1>6. CASE UNCHANGED vars
  <2>1. TypeOK'
    BY <1>6 DEF IInv, TypeOK, vars
  <2>2. HandlesMatch'
    BY <1>6 DEF IInv, HandlesMatch, Recorded, vars
  <2>3. Locked' /\ Making' /\ Placed' /\ Behind' /\ Rooted'
    BY <1>6 DEF IInv, Locked, Making, Placed, Behind, Rooted, vars
  <2>. QED BY <2>1, <2>2, <2>3 DEF IInv
<1>. QED BY <1>1, <1>2, <1>3, <1>4, <1>5, <1>6 DEF Next

-----------------------------------------------------------------------------
(* The theorems. *)

THEOREM InvariantHolds == Spec => []IInv
BY InvariantInit, InvariantStep, PTL DEF Spec

\* HandlesMatch: every thread that exists is in the bag or with its creator,
\* once, though handles are used again (thread.cpp:229-301).
THEOREM HandlesCorrect == Spec => []HandlesMatch
<1>1. IInv => HandlesMatch
  BY DEF IInv
<1>. QED BY <1>1, InvariantHolds, PTL

\* When the iterator of the wait is at the end nothing is recorded; a thread
\* that is not recorded has a creator that is at work, and so on, but not in a
\* circle and not from the main thread.
LEMMA NobodyLeft ==
    ASSUME IInv, pc[Main] = "wait", at[Main] > Len(threads)
    PROVE  \A w \in Workers : pc[w] = "off"
<1>. DEFINE S == {w \in Workers : pc[w] # "off"}
<1>1. Elements(threads) = {}
  <2>1. \A j \in 1 .. Len(threads) : j \in 1 .. at[Main] - 1
    BY MainWaits DEF IInv, TypeOK
  <2>. QED BY <2>1, MainWaits DEF IInv, Behind, Elements
<1>2. ASSUME S # {} PROVE FALSE
  <2>1. PICK w \in S : \A a \in S : made[a] # w
    BY <1>2 DEF IInv, Rooted
  <2>2. PICK a \in Actors : made[a] = w
    BY <2>1, <1>1, HandlesAre DEF IInv
  <2>3. made[a] # Null /\ pc[a] = "install"
    BY <2>1, <2>2, RegistryAssumption DEF IInv, Making
  <2>4. a \in S
    BY <2>3 DEF Actors
  <2>. QED BY <2>1, <2>2, <2>4
<1>. QED BY <1>2

LEMMA OnlyEndWait ==
    ASSUME IInv, [Next]_vars, pc[Main] = "wait", pc'[Main] = "idle"
    PROVE  EndWait
<1>1. \A w \in Workers : w # Main
  BY RegistryAssumption
<1>2. ASSUME NEW a \in Spawners, BeginSpawn(a) PROVE FALSE
  <2>1. a # Main /\ a \in Actors
    BY <1>2, RegistryAssumption DEF BeginSpawn, Actors
  <2>. QED BY <1>2, <2>1, MainWaits DEF BeginSpawn, GoTo, IInv, TypeOK
<1>3. ASSUME NEW a \in Actors, SpawnStep(a) PROVE FALSE
  <2>1. a # Main
    BY <1>3 DEF SpawnStep, LockToScan, KeepThread, JoinReady, EndScan, CreateThread,
                CreateFails, Install
  <2>2. \A b \in Actors : pc[b] = "scan" => FALSE
    BY OneLoop, MainWaits, RegistryAssumption DEF IInv
  <2>3. CASE CreateThread(a)
    <3>1. PICK w \in Workers : pc' = [pc EXCEPT ![w] = "idle", ![a] = "install"]
      BY <2>3 DEF CreateThread
    <3>. QED BY <3>1, <2>1, <1>1, MainWaits DEF IInv, TypeOK
  <2>4. CASE LockToScan(a) \/ CreateFails(a) \/ Install(a)
    BY <2>4, <2>1, MainWaits DEF LockToScan, CreateFails, Install, GoTo, IInv, TypeOK
  <2>5. CASE KeepThread(a) \/ JoinReady(a) \/ EndScan(a)
    BY <2>5, <2>2 DEF KeepThread, JoinReady, EndScan
  <2>. QED BY <1>3, <2>3, <2>4, <2>5 DEF SpawnStep
<1>4. ~BeginWait /\ ~LockToWait
  BY DEF BeginWait, LockToWait
<1>5. ~JoinNext
  <2>1. ASSUME JoinNext PROVE FALSE
    <3>1. pc' = [pc EXCEPT ![threads[at[Main]]] = "off", ![Main] = "wait"]
      BY <2>1 DEF JoinNext, JoinAndGoTo
    <3>. QED BY <3>1, MainWaits DEF IInv, TypeOK
  <2>. QED BY <2>1
<1>6. ASSUME NEW w \in Workers, ThreadEnds(w) PROVE FALSE
  BY <1>6, <1>1, MainWaits DEF ThreadEnds, GoTo, IInv, TypeOK, Actors
<1>. QED BY <1>2, <1>3, <1>4, <1>5, <1>6 DEF Next, WaitStep, vars

\* WaitLeavesNone: when wait_for_threads returns no thread is left, also when
\* threads started threads (thread.cpp:317-337).
THEOREM WaitCorrect == Spec => WaitLeavesNone
<1>1. IInv /\ [Next]_vars =>
         [pc[Main] = "wait" /\ pc'[Main] = "idle" => \A w \in Workers : pc[w] = "off"]_pc
  BY OnlyEndWait, NobodyLeft DEF EndWait
<1>. QED BY <1>1, InvariantHolds, PTL DEF Spec, WaitLeavesNone

\* ReadyJoined: a scan has joined all threads it could (thread.cpp:265-285).
THEOREM ReadyCorrect == Spec => ReadyJoined
<1>1. ASSUME IInv, [Next]_vars, NEW a \in Actors, pc[a] = "scan", pc'[a] = "create"
      PROVE  at[a] > Len(threads)
  <2>1. ASSUME NEW b \in Actors, SpawnStep(b) PROVE at[a] > Len(threads)
    <3>1. CASE EndScan(b)
      <4>1. pc[b] = "scan"
        BY <3>1 DEF EndScan
      <4>2. a = b
        BY <4>1, <1>1, OneLoop DEF IInv
      <4>. QED BY <3>1, <4>2 DEF EndScan
    <3>2. CASE JoinReady(b)
      BY <3>2, <1>1 DEF JoinReady, JoinAndGoTo, IInv, TypeOK
    <3>3. CASE CreateThread(b)
      BY <3>3, <1>1 DEF CreateThread, IInv, TypeOK
    <3>4. CASE LockToScan(b) \/ CreateFails(b) \/ Install(b) \/ KeepThread(b)
      BY <3>4, <1>1 DEF LockToScan, CreateFails, Install, KeepThread, GoTo, IInv, TypeOK
    <3>. QED BY <2>1, <3>1, <3>2, <3>3, <3>4 DEF SpawnStep
  <2>2. ASSUME NEW b \in Spawners, BeginSpawn(b) PROVE FALSE
    BY <2>2, <1>1 DEF BeginSpawn, GoTo, IInv, TypeOK
  <2>3. ~BeginWait
    BY <1>1 DEF BeginWait, GoTo, IInv, TypeOK
  <2>4. ~WaitStep
    BY <1>1 DEF WaitStep, LockToWait, JoinNext, EndWait, GoTo, JoinAndGoTo, IInv, TypeOK
  <2>5. ASSUME NEW w \in Workers, ThreadEnds(w) PROVE FALSE
    BY <2>5, <1>1 DEF ThreadEnds, GoTo, IInv, TypeOK
  <2>. QED BY <1>1, <2>1, <2>2, <2>3, <2>4, <2>5 DEF Next, vars
<1>2. ASSUME IInv, NEW a \in Actors, pc[a] = "scan", at[a] > Len(threads)
      PROVE  ready \intersect Recorded = {}
  <2>1. \A j \in 1 .. Len(threads) : j \in 1 .. at[a] - 1
    BY <1>2 DEF IInv, TypeOK
  <2>. QED BY <1>2, <2>1 DEF IInv, Behind, Recorded
<1>3. IInv /\ [Next]_vars =>
         [\A a \in Actors : pc[a] = "scan" /\ pc'[a] = "create" =>
             ready \intersect Recorded = {}]_vars
  BY <1>1, <1>2
<1>. QED BY <1>3, InvariantHolds, PTL DEF Spec, ReadyJoined

-----------------------------------------------------------------------------
(* Who waits for whom.  The holder of the mutex is in a loop, the main       *)
(* thread alone in that of the wait, and a scan never blocks: all that can   *)
(* stop the library is a join of the main thread.                            *)

Roles ==
    /\ pc[Main] \notin {"off", "ended"}
    /\ \A w \in Workers : pc[w] \notin {"wait_lock", "wait"}
    /\ \A w \in Workers \ Spawners : pc[w] \in {"off", "idle", "ended"}
    /\ \A a \in mutex : mutex = {a} /\ pc[a] \in {"scan", "wait"}

LEMMA RolesInit == Init => Roles
BY RegistryAssumption DEF Init, Roles, Actors

\* Steps that move a in the library and take or release nothing.
LEMMA RolesMove ==
    ASSUME IInv, Roles, NEW a \in Actors, NEW step \in Steps,
           pc' = [pc EXCEPT ![a] = step], mutex' = mutex,
           a = Main => step \notin {"off", "ended"},
           a # Main => step \notin {"wait_lock", "wait"},
           a \notin Spawners /\ a # Main => step \in {"off", "idle", "ended"},
           pc[a] \in {"scan", "wait"} => step = pc[a]
    PROVE  Roles'
<1>1. pc \in [Actors -> Steps] /\ mutex \subseteq Actors
  BY DEF IInv, TypeOK
<1>2. \A w \in Workers : w # Main /\ w \in Actors
  BY RegistryAssumption DEF Actors
<1>3. \A b \in Actors : pc'[b] = IF b = a THEN step ELSE pc[b]
  BY <1>1
<1>. QED BY <1>1, <1>2, <1>3, MainWaits DEF Roles

\* A join, in the loop of thread a.
LEMMA RolesJoin ==
    ASSUME IInv, Roles, NEW a \in Actors, pc[a] \in {"scan", "wait"},
           at[a] <= Len(threads), JoinAndGoTo(threads[at[a]], a, pc[a]),
           pc[threads[at[a]]] = "ended", mutex' = mutex
    PROVE  Roles'
<1>1. pc \in [Actors -> Steps] /\ mutex \subseteq Actors
  BY DEF IInv, TypeOK
<1>2. \A w \in Workers : w # Main /\ w \in Actors
  BY RegistryAssumption DEF Actors
<1>3. PICK w : w = threads[at[a]] /\ w \in Workers
  BY DEF IInv, TypeOK, Placed, Cells
<1>4. pc[w] = "ended" /\ w # a /\ pc' = [pc EXCEPT ![w] = "off", ![a] = pc[a]]
  BY <1>3 DEF JoinAndGoTo
<1>5. \A b \in Actors : pc'[b] = IF b = w THEN "off" ELSE pc[b]
  BY <1>1, <1>4
<1>. QED BY <1>1, <1>2, <1>3, <1>4, <1>5, MainWaits DEF Roles

LEMMA RolesSpawn ==
    ASSUME IInv, Roles, NEW a \in Actors, SpawnStep(a)
    PROVE  Roles'
<1>1. /\ pc \in [Actors -> Steps] /\ mutex \subseteq Actors
      /\ \A w \in Workers : w # Main /\ w \in Actors
      /\ a # Main => a \in Workers
  BY RegistryAssumption DEF IInv, TypeOK, Actors
<1>2. a # Main => a \in Spawners
  BY <1>1 DEF Roles, SpawnStep, LockToScan, KeepThread, JoinReady, EndScan, CreateThread,
     CreateFails, Install
<1>3. CASE LockToScan(a)
  BY <1>1, <1>2, <1>3, MainWaits DEF LockToScan, ThreadsMutex!Acquire, GoTo, Roles
<1>4. CASE KeepThread(a)
  BY <1>4 DEF KeepThread, Roles
<1>5. CASE JoinReady(a)
  BY <1>5, RolesJoin DEF JoinReady
<1>6. CASE EndScan(a)
  <2>1. mutex = {a}
    BY <1>6, OneLoop DEF EndScan, IInv
  <2>2. mutex' = {}
    BY <1>6, <2>1 DEF EndScan, ThreadsMutex!Release
  <2>. QED BY <1>1, <1>2, <1>6, <2>2, MainWaits DEF EndScan, GoTo, Roles
<1>7. CASE CreateThread(a)
  <2>1. PICK w \in Workers :
           pc[w] = "off" /\ pc' = [pc EXCEPT ![w] = "idle", ![a] = "install"]
    BY <1>7 DEF CreateThread
  <2>2. w # a /\ pc[a] = "create" /\ mutex' = mutex
    BY <1>7, <2>1 DEF CreateThread
  <2>3. \A b \in Actors : pc'[b] = IF b = a THEN "install" ELSE IF b = w THEN "idle" ELSE pc[b]
    BY <1>1, <2>1, <2>2
  <2>. QED BY <1>1, <1>2, <2>1, <2>2, <2>3, MainWaits DEF Roles
<1>8. CASE CreateFails(a)
  BY <1>2, <1>8, RolesMove DEF CreateFails, GoTo, Steps
<1>9. CASE Install(a)
  BY <1>2, <1>9, RolesMove DEF Install, GoTo, Steps
<1>. QED BY <1>3, <1>4, <1>5, <1>6, <1>7, <1>8, <1>9 DEF SpawnStep

LEMMA RolesStep == IInv /\ Roles /\ [Next]_vars => Roles'
<1>. SUFFICES ASSUME IInv, Roles, [Next]_vars PROVE Roles'
  OBVIOUS
<1>0. Main \notin Workers /\ Spawners \subseteq Actors
  BY RegistryAssumption DEF Actors
<1>1. ASSUME NEW a \in Spawners, BeginSpawn(a) PROVE Roles'
  BY <1>0, <1>1, RolesMove DEF BeginSpawn, GoTo, Steps
<1>2. ASSUME NEW a \in Actors, SpawnStep(a) PROVE Roles'
  BY <1>2, RolesSpawn
<1>3. CASE BeginWait
  BY <1>3, RolesMove, MainWaits DEF BeginWait, GoTo, Steps
<1>4. CASE LockToWait
  BY <1>0, <1>4, MainWaits DEF LockToWait, ThreadsMutex!Acquire, GoTo, Roles, IInv, TypeOK, Actors
<1>5. CASE JoinNext
  <2>1. pc[Main] = "wait" /\ JoinAndGoTo(threads[at[Main]], Main, pc[Main])
    BY <1>5 DEF JoinNext
  <2>. QED BY <1>5, <2>1, RolesJoin, MainWaits DEF JoinNext
<1>6. CASE EndWait
  <2>1. mutex = {Main}
    BY <1>6, OneLoop, MainWaits DEF EndWait, IInv
  <2>2. mutex' = {}
    BY <1>6, <2>1 DEF EndWait, ThreadsMutex!Release
  <2>. QED BY <1>0, <1>6, <2>2, MainWaits DEF EndWait, GoTo, Roles, IInv, TypeOK, Actors
<1>7. ASSUME NEW w \in Workers, ThreadEnds(w) PROVE Roles'
  <2>1. w \in Actors /\ w # Main
    BY <1>0 DEF Actors
  <2>. QED BY <1>7, <2>1, RolesMove DEF ThreadEnds, GoTo, Steps
<1>8. CASE UNCHANGED vars
  BY <1>8 DEF vars, Roles
<1>. QED BY <1>1, <1>2, <1>3, <1>4, <1>5, <1>6, <1>7, <1>8 DEF Next, WaitStep

LEMMA RolesHold == Spec => []Roles
BY RolesInit, RolesStep, InvariantHolds, PTL DEF Spec

\* The thread that the main thread joins.
Joins(w) == pc[Main] = "wait" /\ at[Main] <= Len(threads) /\ threads[at[Main]] = w

Inside(a) == pc[a] \notin {"off", "idle", "ended"}

\* What keeps a thread inside the library: the mutex, or a thread that has not
\* ended.
Waits(a) ==
    \/ pc[a] \in {"scan_lock", "install", "wait_lock"} /\ mutex # {}
    \/ a = Main /\ \E w \in Workers : Joins(w) /\ pc[w] # "ended"

\* No deadlock but the wedge: when all threads inside the library wait, the
\* main thread joins one that is still in its entry function, as it should, or
\* one that needs the mutex itself.
OnlyWedge ==
    (\E a \in Actors : Inside(a)) /\ (\A a \in Actors : Inside(a) => Waits(a))
    => Wedged \/ \E w \in Workers : Joins(w) /\ pc[w] = "idle"

\* It takes a thread that starts threads.
WedgeNeedsSpawner == Wedged => \E w \in Workers \intersect Spawners : Joins(w)

LEMMA Joined ==
    ASSUME IInv, pc[Main] = "wait", at[Main] <= Len(threads)
    PROVE  /\ threads[at[Main]] \in Workers
           /\ pc[threads[at[Main]]] # "off"
           /\ Joins(threads[at[Main]])
<1>1. /\ at[Main] \in 1 .. Len(threads) /\ threads[at[Main]] # Null
      /\ threads[at[Main]] \in Cells
  BY MainWaits DEF IInv, TypeOK, Placed
<1>. QED BY <1>1 DEF IInv, HandlesMatch, Recorded, Cells, Joins

LEMMA StopsAre == IInv /\ Roles => OnlyWedge
<1>. SUFFICES ASSUME IInv, Roles, NEW a \in Actors, Inside(a),
                     \A b \in Actors : Inside(b) => Waits(b)
              PROVE  Wedged \/ \E w \in Workers : Joins(w) /\ pc[w] = "idle"
  BY DEF OnlyWedge
<1>1. PICK w \in Workers : Joins(w) /\ pc[w] # "ended"
  <2>1. CASE mutex # {}
    <3>1. PICK h \in Actors : pc[h] \in {"scan", "wait"}
      BY <2>1 DEF Roles, IInv, TypeOK
    <3>. QED BY <3>1 DEF Inside, Waits
  <2>2. CASE mutex = {}
    BY <2>2 DEF Waits
  <2>. QED BY <2>1, <2>2
<1>2. w \in Actors /\ w # Main /\ pc[w] # "off" /\ pc[Main] = "wait" /\ pc[w] \in Steps
  BY <1>1, Joined, RegistryAssumption DEF Actors, Joins, IInv, TypeOK
<1>3. pc[w] # "scan"
  BY <1>2, OneLoop, MainWaits DEF IInv
<1>4. Inside(w) => pc[w] \in {"scan_lock", "install"}
  BY <1>2 DEF Waits, Roles
<1>. QED BY <1>1, <1>2, <1>4 DEF Inside, Wedged, Joins

LEMMA WedgesAre == IInv /\ Roles => WedgeNeedsSpawner
BY Joined DEF Wedged, WedgeNeedsSpawner, Roles

\* OnlyWedge for any threads, any of which start others (thread.cpp:261-337).
THEOREM NeverStuck == Spec => []OnlyWedge
BY StopsAre, RolesHold, InvariantHolds, PTL

\* Where only the main thread starts threads, wait_for_threads never wedges:
\* it waits for entry functions alone (thread.cpp:317-337).
THEOREM MainAloneNeverWedges ==
    ASSUME Spawners \subseteq {Main}
    PROVE  Spec => []~Wedged
<1>1. Workers \intersect Spawners = {}
  BY RegistryAssumption
<1>2. IInv /\ Roles => ~Wedged
  BY <1>1, WedgesAre DEF WedgeNeedsSpawner
<1>. QED BY <1>2, RolesHold, InvariantHolds, PTL

\* While a thread is in a loop over the bag, the bag gets no longer and only
\* that thread changes it; its iterator moves on with each step of it.
LoopAdvances ==
    [][\A a \in Actors :
          pc[a] \in {"scan", "wait"} /\ pc'[a] = pc[a] =>
             /\ Len(threads') = Len(threads)
             /\ \/ at'[a] \in at[a] + 1 .. Len(threads) + 1
                \/ at'[a] = at[a] /\ threads' = threads]_vars

\* The step of the loop itself.
LEMMA IteratorAdvances ==
    ASSUME IInv, NEW a \in Actors, pc[a] \in {"scan", "wait"}, at[a] <= Len(threads),
           threads' = threads \/ threads' = Remove(threads, at[a]),
           at' = [at EXCEPT ![a] = NextCell(threads', @ + 1)]
    PROVE  Len(threads') = Len(threads) /\ at'[a] \in at[a] + 1 .. Len(threads) + 1
<1>1. /\ threads \in Seq(Cells) /\ at \in [Actors -> Nat]
      /\ at[a] \in 1 .. Len(threads) /\ threads[at[a]] # Null /\ Once(threads)
  BY HandlesAre DEF IInv, TypeOK, Placed
<1>2. threads' \in Seq(Cells) /\ Len(threads') = Len(threads)
  BY <1>1, RemoveForgets
<1>3. at[a] + 1 \in 1 .. Len(threads') + 1
  BY <1>1, <1>2
<1>4. NextCell(threads', at[a] + 1) \in at[a] + 1 .. Len(threads') + 1
  BY <1>2, <1>3, NextCellFound
<1>. QED BY <1>1, <1>2, <1>4

\* The loops of join_ready_threads and wait_for_threads end, but for the joins
\* that block (thread.cpp:261-337).
THEOREM LoopsAdvance == Spec => LoopAdvances
<1>. DEFINE Goal(a) == /\ Len(threads') = Len(threads)
                       /\ \/ at'[a] \in at[a] + 1 .. Len(threads) + 1
                          \/ at'[a] = at[a] /\ threads' = threads
<1>1. ASSUME IInv, Next, NEW a \in Actors, pc[a] \in {"scan", "wait"}, pc'[a] = pc[a]
      PROVE  Goal(a)
  <2>1. /\ at \in [Actors -> Nat] /\ pc \in [Actors -> Steps] /\ mutex = {a}
        /\ \A b \in Actors : pc[b] \in {"scan", "wait"} => b = a
    BY <1>1, OneLoop DEF IInv, TypeOK
  <2>2. ASSUME NEW b \in Actors, SpawnStep(b) PROVE Goal(a)
    <3>1. CASE KeepThread(b) \/ JoinReady(b)
      <4>1. a = b
        BY <2>1, <3>1 DEF KeepThread, JoinReady
      <4>. QED BY <1>1, <3>1, <4>1, IteratorAdvances DEF KeepThread, JoinReady
    <3>2. ~EndScan(b)
      <4>1. ASSUME EndScan(b) PROVE FALSE
        BY <4>1, <1>1, <2>1 DEF EndScan, GoTo
      <4>. QED BY <4>1
    <3>3. ~LockToScan(b) /\ ~Install(b)
      BY <2>1 DEF LockToScan, ThreadsMutex!Acquire, Install
    <3>4. CASE CreateThread(b) \/ CreateFails(b)
      BY <3>4 DEF CreateThread, CreateFails
    <3>. QED BY <2>2, <3>1, <3>2, <3>3, <3>4 DEF SpawnStep
  <2>3. ~LockToWait
    BY <2>1 DEF LockToWait, ThreadsMutex!Acquire
  <2>4. ASSUME JoinNext PROVE Goal(a)
    <3>1. a = Main
      BY <2>1, <2>4, MainWaits DEF JoinNext
    <3>. QED BY <1>1, <2>4, <3>1, IteratorAdvances DEF JoinNext
  <2>5. ~EndWait
    <3>1. ASSUME EndWait PROVE FALSE
      BY <3>1, <1>1, <2>1, MainWaits DEF EndWait, GoTo
    <3>. QED BY <3>1
  <2>6. ASSUME UNCHANGED <<threads, at>> PROVE Goal(a)
    BY <2>6
  <2>7. BeginWait => UNCHANGED <<threads, at>>
    BY DEF BeginWait
  <2>8. \A b : BeginSpawn(b) \/ ThreadEnds(b) => UNCHANGED <<threads, at>>
    BY DEF BeginSpawn, ThreadEnds
  <2>. QED BY <1>1, <2>2, <2>3, <2>4, <2>5, <2>6, <2>7, <2>8 DEF Next, WaitStep
<1>2. IInv /\ [Next]_vars =>
         [\A a \in Actors : pc[a] \in {"scan", "wait"} /\ pc'[a] = pc[a] => Goal(a)]_vars
  BY <1>1
<1>. QED BY <1>2, InvariantHolds, PTL DEF Spec, LoopAdvances
=============================================================================
