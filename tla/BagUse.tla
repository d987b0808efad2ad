------------------------------- MODULE BagUse -------------------------------
(***************************************************************************)
(* Any sequence of operations on one bag, beside the multiset it stands    *)
(* for.  As in thread.cpp the elements may be removed while the bag is     *)
(* iterated; inserting then would leave the iterator in a freed array and  *)
(* is not done.                                                            *)
(***************************************************************************)
EXTENDS Bag, FiniteSets

CONSTANTS
    Els,        \* elements, none of them null
    MaxEls      \* bound on the elements in the bag at one time

ASSUME BagAssumption ==
    /\ Null \notin Els
    /\ MaxEls \in Nat \ {0}

VARIABLES
    cells,      \* bag.cells
    iter,       \* the iterator's cell, 0 when the bag is not being iterated
    ref,        \* ref[e]: how many e the multiset holds
    unseen      \* unseen[e]: how many e the iteration has still to visit

bagVars == <<cells, iter, ref, unseen>>

Nothing == [e \in Els |-> 0]
Held == {i \in 1 .. Len(cells) : cells[i] # Null}

BagInit ==
    /\ cells = <<>>
    /\ iter = 0
    /\ ref = Nothing
    /\ unseen = Nothing

InsertEl(e) ==
    /\ iter = 0
    /\ Cardinality(Held) < MaxEls
    /\ cells' = Insert(cells, e)
    /\ ref' = [ref EXCEPT ![e] = @ + 1]
    /\ UNCHANGED <<iter, unseen>>

\* Inserting a null element adds nothing, but may double a full bag.
InsertNull ==
    /\ iter = 0
    /\ Cardinality(Held) < MaxEls
    /\ cells' = Insert(cells, Null)
    /\ UNCHANGED <<iter, ref, unseen>>

\* begin(bag)
Begin ==
    /\ iter = 0
    /\ iter' = NextCell(cells, 1)
    /\ unseen' = ref
    /\ UNCHANGED <<cells, ref>>

Seen == unseen' = [unseen EXCEPT ![cells[iter]] = @ - 1]

\* The loop's body leaves the element where it is; operator ++.
Visit ==
    /\ iter \in 1 .. Len(cells)
    /\ Seen
    /\ iter' = NextCell(cells, iter + 1)
    /\ UNCHANGED <<cells, ref>>

\* The loop's body removes the element the iterator is at; operator ++.
VisitAndRemove ==
    /\ iter \in 1 .. Len(cells)
    /\ Seen
    /\ ref' = [ref EXCEPT ![cells[iter]] = @ - 1]
    /\ cells' = Remove(cells, iter)
    /\ iter' = NextCell(cells', iter + 1)

\* operator != with end(bag)
End ==
    /\ iter = Len(cells) + 1
    /\ iter' = 0
    /\ unseen' = Nothing
    /\ UNCHANGED <<cells, ref>>

BagNext ==
    \/ \E e \in Els : InsertEl(e)
    \/ InsertNull
    \/ Begin
    \/ Visit
    \/ VisitAndRemove
    \/ End

BagSpec == BagInit /\ [][BagNext]_bagVars

-----------------------------------------------------------------------------
\* bag_t "is functionally a multiset" (bag.hpp:7): the occupied cells hold each
\* element as often as it was inserted and not removed.
IsMultiset ==
    \A e \in Els : Cardinality({i \in 1 .. Len(cells) : cells[i] = e}) = ref[e]

\* A loop over the bag visits every element that was there when it began once,
\* even those behind elements it removes (bag.hpp:58-79).
VisitsEach == iter = Len(cells) + 1 => unseen = Nothing

\* However long elements come and go, the array stays within twice the largest
\* number ever held at one time: freed cells are found again (bag.hpp:23-34).
StaysSmall == Len(cells) <= 2 * MaxEls
=============================================================================
