-------------------------------- MODULE Bag ---------------------------------
(***************************************************************************)
(* bag_t (bag.hpp): a multiset kept in an array of cells, of which the     *)
(* null ones are free.  Cell i of the sequence is bag.cells[i - 1].        *)
(***************************************************************************)
EXTENDS Naturals, Sequences

CONSTANT Null   \* a cell that holds no element

\* Mutant: always takes the cell after the last.
FirstFreeAppends(cells) == Len(cells) + 1

\* The cell insert() finds free, or the one after the last.
FirstFree(cells) ==
    CHOOSE i \in 1 .. Len(cells) + 1 :
        /\ i = Len(cells) + 1 \/ cells[i] = Null
        /\ \A j \in 1 .. i - 1 : cells[j] # Null

\* Mutant: doubles a full bag and forgets to store the element.
InsertForgets(cells, el) ==
    LET i == FirstFree(cells)
    IN  IF i <= Len(cells) THEN [cells EXCEPT ![i] = el]
        ELSE [j \in 1 .. (IF Len(cells) = 0 THEN 1 ELSE 2 * Len(cells)) |->
                 IF j <= Len(cells) THEN cells[j] ELSE Null]

\* insert(bag, el): into the first free cell; a full bag doubles first.
Insert(cells, el) ==
    LET i == FirstFree(cells)
        grown == IF i <= Len(cells) THEN Len(cells)
                 ELSE IF Len(cells) = 0 THEN 1 ELSE 2 * Len(cells)
    IN  [j \in 1 .. grown |->
            IF j = i THEN el
            ELSE IF j <= Len(cells) THEN cells[j]
            ELSE Null]

\* remove(bag, el), el being a reference to cell i.
Remove(cells, i) == [cells EXCEPT ![i] = Null]

\* Mutant: steps over a cell without looking at it.
NextCellSkips(cells, i) ==
    IF i > Len(cells) THEN i
    ELSE CHOOSE j \in i + 1 .. Len(cells) + 1 :
            /\ j = Len(cells) + 1 \/ cells[j] # Null
            /\ \A k \in i + 1 .. j - 1 : cells[k] = Null

\* Where an iterator at cell i comes to rest: skip_unoccupied_cells.  The
\* position after the last cell is end().
NextCell(cells, i) ==
    CHOOSE j \in i .. Len(cells) + 1 :
        /\ j = Len(cells) + 1 \/ cells[j] # Null
        /\ \A k \in i .. j - 1 : cells[k] = Null
=============================================================================
