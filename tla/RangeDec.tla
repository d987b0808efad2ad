------------------------------ MODULE RangeDec ------------------------------
(***************************************************************************)
(* The range decoder under LZMA (lzma.cpp:72-167), for any widths.  Its    *)
(* two words narrow an interval of length "range" in which "code" is the   *)
(* place of the input; each bit takes one of two parts of the interval,    *)
(* and Normalize widens an interval that has become short by a byte of the *)
(* input.  A byte read past the end is zero.                               *)
(***************************************************************************)
EXTENDS Integers

CONSTANTS
    ByteVals,   \* how many values a byte has: 2^8
    Top,        \* top_val: 2^24; a word has Top * ByteVals values
    ProbOne,    \* a probability of one: 2^11
    MoveDiv     \* a probability moves by a part of this size: 2^5

ASSUME RangeDecAssumption ==
    /\ {ByteVals, Top, ProbOne, MoveDiv} \subseteq Nat \ {0, 1}
    /\ Top % 2 = 0 /\ Top % ProbOne = 0
    /\ (MoveDiv - 1) * ByteVals >= ProbOne
    /\ 2 * MoveDiv <= ProbOne

Word == Top * ByteVals
ByteSet == 0 .. ByteVals - 1

\* The probabilities that can occur, and their first value (init_probs).
Probs == MoveDiv - 1 .. ProbOne - MoveDiv + 1
FirstProb == ProbOne \div 2

\* The decoders that can occur: an interval is never short, and the place is in
\* it unless the input was found corrupt.
Decs == {d \in [range : Top .. Word - 1, code : 0 .. Word - 1, corrupt : BOOLEAN] :
            d.corrupt \/ d.code < d.range}

\* init() of the first byte and of the word after it.
Start(b, code) ==
    [range |-> Word - 1, code |-> code, corrupt |-> b # 0 \/ code = Word - 1]

\* x shifted left by a byte; what does not fit is lost.
Shifted(x) == (x % Top) * ByteVals

\* Mutant: widens one value too late.
NormalizeLate(d, b) ==
    IF d.range + 1 < Top
    THEN [d EXCEPT !.range = Shifted(@), !.code = Shifted(@) + b]
    ELSE d

Normalize(d, b) ==
    IF d.range < Top
    THEN [d EXCEPT !.range = Shifted(@), !.code = Shifted(@) + b]
    ELSE d

\* One round of dec_direct_bits: the bit is 1 in the upper half.  The difference
\* wraps around in the lower half, and its sign bit adds the half back.
DirectBit(d, b) ==
    LET half == d.range \div 2
        diff == (d.code - half) % Word
        sign == IF diff < Word \div 2 THEN 0 ELSE 1
        code == (diff + half * sign) % Word
    IN  [dec |-> Normalize([range |-> half, code |-> code,
                            corrupt |-> d.corrupt \/ code = half], b),
         sym |-> 1 - sign]

Bound(d, v) == (d.range \div ProbOne) * v

\* dec_bit, with the byte it would read; v is the probability of a 0.
DecBit(d, v, b) ==
    IF d.code < Bound(d, v)
    THEN [dec |-> Normalize([d EXCEPT !.range = Bound(d, v)], b),
          prob |-> v + (ProbOne - v) \div MoveDiv,
          sym |-> 0]
    ELSE [dec |-> Normalize([d EXCEPT !.range = @ - Bound(d, v),
                                      !.code = @ - Bound(d, v)], b),
          prob |-> v - v \div MoveDiv,
          sym |-> 1]

-----------------------------------------------------------------------------
(* Each step from a decoder that can occur. *)

DirectBitKeeps(d, b) ==
    LET r == DirectBit(d, b)
    IN  r.dec \in Decs /\ r.sym \in {0, 1} /\ (d.corrupt => r.dec.corrupt)

DecBitKeeps(d, v, b) ==
    LET r == DecBit(d, v, b)
    IN  r.dec \in Decs /\ r.prob \in Probs /\ r.dec.corrupt = d.corrupt

\* Whatever the input is, no number of bits makes the interval short or empty,
\* moves the place out of it unnoticed, gives a probability that never changes
\* its mind, or forgets that the input was corrupt (lzma.cpp:118-167).
RangeDecKeeps ==
    /\ FirstProb \in Probs
    /\ \A code \in 0 .. Word - 1 : Start(0, code) \in Decs
    /\ \A d \in Decs : \A b \in ByteSet :
          /\ DirectBitKeeps(d, b)
          /\ \A v \in Probs : DecBitKeeps(d, v, b)

=============================================================================
