----------------------------- MODULE LzmaCodes -----------------------------
(***************************************************************************)
(* What the bits of an LZMA stream stand for (lzma.cpp:169-280, 338-389),  *)
(* and the cells of the probability arrays they are read with.  A code is  *)
(* a sequence of bits in the order of reading.                             *)
(***************************************************************************)
EXTENDS Integers, Sequences, FiniteSets, SequencesExt

CONSTANT SlotBits   \* a slot of a distance has this many bits: 6

ASSUME LzmaCodesAssumption == SlotBits \in 4 .. 6

n_pos_bits_max == 4
n_len_to_pos_states == 4
n_align_bits == 4
end_pos_model_ix == 14
n_full_dists == 2 ^ (end_pos_model_ix \div 2)
n_states == 12

Codes(n) == [1 .. n -> {0, 1}]

\* The node of a bit tree that is reached by a code; the next bit is read with
\* the probability of this number.
Node(code) == FoldLeft(LAMBDA m, bit : 2 * m + bit, 1, code)
Nodes(code) == {Node(SubSeq(code, 1, k)) : k \in 0 .. Len(code) - 1}

\* dec(bit_tree_dec_t).
Dec(code) == Node(code) - 2 ^ Len(code)

\* bit_tree_reverse_dec.
ReverseDec(code) ==
    FoldLeft(LAMBDA sym, i : sym + code[i] * 2 ^ (i - 1), 0, [i \in 1 .. Len(code) |-> i])

-----------------------------------------------------------------------------
(* Lengths. *)

LenCodes ==
    {<<0>> \o low : low \in Codes(3)}
    \union {<<1, 0>> \o mid : mid \in Codes(3)}
    \union {<<1, 1>> \o high : high \in Codes(8)}

\* dec(len_dec_t).
LenOf(code) ==
    IF code[1] = 0 THEN Dec(SubSeq(code, 2, 4))
    ELSE IF code[2] = 0 THEN 8 + Dec(SubSeq(code, 3, 5))
    ELSE 16 + Dec(SubSeq(code, 3, 10))

-----------------------------------------------------------------------------
(* Distances: a slot, and the lower bits of the distance, read in one of three
   ways (dec_dist). *)

Slots == 0 .. 2 ^ SlotBits - 1
DistVals == 2 ^ (2 ^ (SlotBits - 1))
EndMarker == DistVals - 1

NumDirectBits(slot) == IF slot < 4 THEN 0 ELSE (slot \div 2) - 1

Base(slot) == IF slot < 4 THEN slot ELSE (2 + (slot % 2)) * 2 ^ NumDirectBits(slot)

\* Mutant: the aligned bits are not counted off the direct ones.
LowBitsUnaligned(slot, code) ==
    IF slot < end_pos_model_ix THEN ReverseDec(code)
    ELSE Dec(code) * 2 ^ n_align_bits

LowBits(slot, code) ==
    IF slot < end_pos_model_ix THEN ReverseDec(code)
    ELSE LET direct == Len(code) - n_align_bits
         IN  Dec(SubSeq(code, 1, direct)) * 2 ^ n_align_bits
             + ReverseDec(SubSeq(code, direct + 1, Len(code)))

DistOf(code) ==
    LET slot == Dec(SubSeq(code, 1, SlotBits))
    IN  Base(slot) + LowBits(slot, SubSeq(code, SlotBits + 1, Len(code)))

DistCodes ==
    UNION {{s \o tail : tail \in Codes(NumDirectBits(Dec(s)))} : s \in Codes(SlotBits)}

\* The cell of pos_decs for a node of a slot's tree; one tree for each of the
\* slots that use the array.
PosDecCell(slot, m) == Base(slot) - slot + m
PosDecSlots == 4 .. end_pos_model_ix - 1
PosDecCells(slot) ==
    {PosDecCell(slot, m) : m \in UNION {Nodes(c) : c \in Codes(NumDirectBits(slot))}}

-----------------------------------------------------------------------------
(* Literals, whose probabilities lie behind the window in the buffer. *)

\* dec_lzma_props of the first byte.
Lc(d) == d % 9
Pb(d) == (d \div 9) \div 5
Lp(d) == (d \div 9) % 5

NumLitProbs(d) == 768 * 2 ^ (Lc(d) + Lp(d))

\* The literal's state: the low bits of total_i, the high ones of prev_byte.
LitState(d, total, prev) ==
    (total % 2 ^ Lp(d)) * 2 ^ Lc(d) + prev \div 2 ^ (8 - Lc(d))

BitOf(byte, k) == (byte \div 2 ^ (8 - k)) % 2

\* The cell for bit k of a literal after a match: the byte at the last distance
\* says which half, until the literal differs from it.
MatchedCell(code, match, k) ==
    LET sym == Node(SubSeq(code, 1, k - 1))
    IN  IF \A j \in 1 .. k - 1 : code[j] = BitOf(match, j)
        THEN (1 + BitOf(match, k)) * 256 + sym
        ELSE sym

-----------------------------------------------------------------------------
\* Every length and every distance has one code and every code is read to its
\* end: no distance, the end marker's neighbours included, can be meant in two
\* ways or in none (lzma.cpp:169-244, 368-389).
OneCodeEach ==
    /\ \A n \in 1 .. 8 :
          \A decode \in {[c \in Codes(n) |-> Dec(c)], [c \in Codes(n) |-> ReverseDec(c)]} :
             {decode[c] : c \in Codes(n)} = 0 .. 2 ^ n - 1
    /\ {LenOf(c) : c \in LenCodes} = 0 .. Cardinality(LenCodes) - 1
    /\ Cardinality(DistCodes) = DistVals
    /\ {DistOf(c) : c \in DistCodes} = 0 .. EndMarker

\* No two contexts share a cell and every cell lies in its array: the trees of
\* ten slots do not meet in pos_decs; a literal's state tells the bits of total_i
\* and prev_byte that it is made of, and its 768 cells, of which those for the
\* bits after a match are part, end where dec_lzma_props said that the array ends
\* (lzma.cpp:277, 294, 338-361, 381).
CellsFit ==
    /\ \A s, t \in PosDecSlots :
          /\ PosDecCells(s) \subseteq 1 .. n_full_dists - end_pos_model_ix
          /\ s # t => PosDecCells(s) \intersect PosDecCells(t) = {}
    /\ \A d \in 0 .. 9 * 5 * 5 - 1 : \A prev \in 0 .. 255 : \A total \in {0, 6, 15} :
          /\ LitState(d, total, prev) \div 2 ^ Lc(d) = total % 2 ^ Lp(d)
          /\ LitState(d, total, prev) % 2 ^ Lc(d) = prev \div 2 ^ (8 - Lc(d))
          /\ 768 * (LitState(d, total, prev) + 1) <= NumLitProbs(d)
    /\ \A code \in Codes(8), match \in {0, 85, 255} : \A k \in 1 .. 8 :
          MatchedCell(code, match, k) \in 1 .. 767
=============================================================================
