----------------------------- MODULE LzmaProofs -----------------------------
(***************************************************************************)
(* Proofs about Lzma for a window, a destination and a stream of any size. *)
(* Putting a byte shifts the window by one (PutShifts), whether it wraps   *)
(* or not; with that, a byte copied from the window is the byte of the     *)
(* data that the distance means.                                           *)
(*                                                                         *)
(* The range decoder comes first: for any widths it keeps its interval     *)
(* long enough, its place inside it and its probabilities away from zero   *)
(* and one.  The assumption is (MoveDiv - 1) * ByteVals >= ProbOne: the    *)
(* least part of an interval, times a byte, is a whole interval again.     *)
(*                                                                         *)
(* Last the codes: reading a bit tree is a fold, of which everything is    *)
(* proved with sets of numbers that go Upwards; trees of n bits then give  *)
(* each number below 2^n once, and so do the choices between trees.        *)
(***************************************************************************)
EXTENDS Lzma, TLAPS, WellFoundedInduction, FiniteSetTheorems, FunctionTheorems

LEMMA Widths ==
    /\ ByteVals \in Nat /\ ByteVals >= 2 /\ Top \in Nat /\ Top >= 2
    /\ ProbOne \in Nat /\ ProbOne >= 2 /\ MoveDiv \in Nat /\ MoveDiv >= 2
    /\ (MoveDiv - 1) * ByteVals >= ProbOne /\ 2 * MoveDiv <= ProbOne
    /\ Top % 2 = 0 /\ Top % ProbOne = 0
BY RangeDecAssumption

LEMMA MulMono == \A a, b, c \in Nat : a <= b => a * c <= b * c
OBVIOUS

LEMMA MulMonoLess == \A a, b, c \in Nat : a < b /\ c > 0 => a * c < b * c
OBVIOUS

LEMMA DivFacts ==
    ASSUME NEW x \in Nat, NEW n \in Nat, n > 0
    PROVE  /\ x \div n \in Nat
           /\ (x \div n) * n <= x
           /\ x < (x \div n) * n + n
OBVIOUS

LEMMA ModSmall ==
    ASSUME NEW x \in Int, NEW n \in Nat, n > 0
    PROVE  /\ x % n \in 0 .. n - 1
           /\ 0 <= x /\ x < n => x % n = x
           /\ x < 0 /\ 0 - n <= x => x % n = x + n
           /\ n <= x /\ x < n + n => x % n = x - n
OBVIOUS

LEMMA WordFacts ==
    /\ Word \in Nat /\ Word >= Top + Top
    /\ \E h \in Nat : Word = h + h
<1>1. Top * ByteVals \in Nat /\ Top * ByteVals >= Top * 2
  BY Widths
<1>2. PICK t \in Nat : Top = 2 * t
  BY Widths
<1>3. Top * ByteVals = t * ByteVals + t * ByteVals /\ t * ByteVals \in Nat
  BY <1>2, Widths
<1>4. Word \in Nat /\ Word >= Top + Top
  BY <1>1, Widths DEF Word
<1>5. Word = t * ByteVals + t * ByteVals
  BY <1>3 DEF Word
<1>. QED BY <1>3, <1>4, <1>5

-----------------------------------------------------------------------------
(* Normalize. *)

\* A decoder whose interval a byte makes long enough.
Nearly(d) ==
    /\ d \in [range : Nat, code : 0 .. Word - 1, corrupt : BOOLEAN]
    /\ d.range < Word /\ d.range * ByteVals >= Top
    /\ d.corrupt \/ d.code < d.range

LEMMA ShiftedFacts ==
    ASSUME NEW x \in Nat
    PROVE  /\ Shifted(x) \in Nat /\ Shifted(x) + ByteVals <= Word
           /\ x < Top => Shifted(x) = x * ByteVals
<1>1. x % Top \in 0 .. Top - 1 /\ (x < Top => x % Top = x)
  BY Widths, ModSmall
<1>2. ((x % Top) + 1) * ByteVals <= Top * ByteVals
  BY <1>1, Widths, MulMono
<1>3. ((x % Top) + 1) * ByteVals = (x % Top) * ByteVals + ByteVals
  BY <1>1, Widths
<1>4. (x % Top) * ByteVals \in Nat
  BY <1>1, Widths
<1>. QED BY <1>1, <1>2, <1>3, <1>4 DEF Shifted, Word

LEMMA NormalizeKeeps ==
    ASSUME NEW d, Nearly(d), NEW b \in ByteSet
    PROVE  Normalize(d, b) \in Decs /\ Normalize(d, b).corrupt = d.corrupt
<1>. USE DEF Nearly
<1>1. b \in Nat /\ b < ByteVals
  BY Widths DEF ByteSet
<1>2. CASE d.range < Top
  <2>1. Normalize(d, b) = [d EXCEPT !.range = Shifted(@), !.code = Shifted(@) + b]
    BY <1>2 DEF Normalize
  <2>2. Shifted(d.range) = d.range * ByteVals /\ Shifted(d.range) \in Nat
    BY <1>2, ShiftedFacts
  <2>3. Shifted(d.range) \in Top .. Word - 1
    BY <2>2, ShiftedFacts, Widths, WordFacts
  <2>4. Shifted(d.code) + b \in 0 .. Word - 1
    BY <1>1, ShiftedFacts, Widths, WordFacts
  <2>5. d.code < d.range => Shifted(d.code) + b < Shifted(d.range)
    <3>. SUFFICES ASSUME d.code < d.range PROVE Shifted(d.code) + b < Shifted(d.range)
      OBVIOUS
    <3>1. d.code \in Nat /\ d.range \in Nat /\ d.code + 1 <= d.range /\ d.code < Top
      BY <1>2, WordFacts, Widths
    <3>2. (d.code + 1) * ByteVals <= d.range * ByteVals
      BY <3>1, Widths, MulMono
    <3>3. (d.code + 1) * ByteVals = d.code * ByteVals + ByteVals
      BY <3>1, Widths
    <3>4. Shifted(d.code) = d.code * ByteVals /\ Shifted(d.code) \in Nat
      BY <3>1, ShiftedFacts
    <3>. QED BY <1>1, <2>2, <3>2, <3>3, <3>4, Widths
  <2>. QED BY <2>1, <2>3, <2>4, <2>5 DEF Decs
<1>3. CASE ~(d.range < Top)
  BY <1>3, Widths, WordFacts DEF Normalize, Decs
<1>. QED BY <1>2, <1>3

-----------------------------------------------------------------------------
(* dec_direct_bits. *)

LEMMA DirectBitSound ==
    ASSUME NEW d \in Decs, NEW b \in ByteSet
    PROVE  DirectBitKeeps(d, b)
<1>. DEFINE half == d.range \div 2
            diff == (d.code - half) % Word
            sign == IF diff < Word \div 2 THEN 0 ELSE 1
            code == (diff + half * sign) % Word
            e == [range |-> half, code |-> code, corrupt |-> d.corrupt \/ code = half]
<1>1. /\ d.range \in Nat /\ d.range >= Top /\ d.range < Word
      /\ d.code \in Nat /\ d.code < Word /\ d.corrupt \in BOOLEAN
      /\ d.corrupt \/ d.code < d.range
  BY Widths, WordFacts DEF Decs
<1>2. PICK h \in Nat : Word = h + h /\ Word \div 2 = h /\ h > 0
  BY WordFacts, Widths
<1>3. /\ half \in Nat /\ half + half <= d.range /\ d.range <= half + half + 1
      /\ half < h
  BY <1>1, <1>2
<1>. HIDE DEF half
<1>4. diff \in 0 .. Word - 1
  BY <1>1, <1>3, WordFacts, Widths, ModSmall
<1>5. code \in 0 .. Word - 1
  BY <1>3, <1>4, WordFacts, Widths, ModSmall
<1>6. d.code < d.range => code <= half
  <2>1. CASE d.code < half
    <3>1. diff = d.code - half + Word
      BY <2>1, <1>1, <1>2, <1>3, ModSmall
    <3>2. sign = 1
      BY <3>1, <1>1, <1>2, <1>3
    <3>3. diff + half * sign = d.code + Word
      BY <3>1, <3>2, <1>1, <1>2, <1>3
    <3>4. code = d.code
      BY <3>3, <1>1, <1>2, ModSmall
    <3>. QED BY <3>4, <2>1, <1>1, <1>3
  <2>2. CASE d.code >= half /\ d.code < d.range
    <3>1. diff = d.code - half /\ diff <= half
      BY <2>2, <1>1, <1>2, <1>3, ModSmall
    <3>2. sign = 0
      BY <3>1, <1>1, <1>2, <1>3
    <3>3. diff + half * sign = d.code - half
      BY <3>1, <3>2, <1>1, <1>3
    <3>4. code = d.code - half
      BY <3>3, <2>2, <1>1, <1>2, <1>3, ModSmall
    <3>. QED BY <3>4, <3>1
  <2>. QED BY <2>1, <2>2, <1>1, <1>3
<1>7. half * ByteVals >= Top
  <2>1. half + half >= Top
    <3>1. PICK t \in Nat : Top = 2 * t
      BY Widths
    <3>. QED BY <3>1, <1>1, <1>3
  <2>2. 2 * half <= ByteVals * half /\ ByteVals * half = half * ByteVals
    BY <1>3, Widths, MulMono
  <2>. QED BY <2>1, <2>2, <1>3, Widths
<1>8. /\ e.range = half /\ e.code = code /\ e.corrupt = (d.corrupt \/ code = half)
      /\ e \in [range : Nat, code : 0 .. Word - 1, corrupt : BOOLEAN]
  BY <1>3, <1>5
<1>9. e.corrupt \/ e.code < e.range
  <2>1. CASE d.corrupt \/ code = half
    BY <2>1, <1>8
  <2>2. CASE ~d.corrupt /\ code # half
    <3>1. code <= half
      BY <2>2, <1>1, <1>6
    <3>2. code < half
      BY <3>1, <2>2, <1>3, <1>5, WordFacts
    <3>. QED BY <3>2, <1>8
  <2>. QED BY <2>1, <2>2
<1>10. sign \in {0, 1}
  OBVIOUS
<1>11. DirectBit(d, b).dec = Normalize(e, b) /\ DirectBit(d, b).sym = 1 - sign
  BY DEF DirectBit, half
<1>. HIDE DEF e, sign, code
<1>12. half < Word
  BY <1>2, <1>3
<1>13. Nearly(e)
  BY <1>7, <1>8, <1>9, <1>12 DEF Nearly
<1>14. Normalize(e, b) \in Decs /\ Normalize(e, b).corrupt = e.corrupt
  BY <1>13, NormalizeKeeps
<1>15. 1 - sign \in {0, 1}
  BY <1>10
<1>16. d.corrupt => e.corrupt
  BY <1>8
<1>17. d.corrupt => DirectBit(d, b).dec.corrupt
  BY <1>11, <1>14, <1>16
<1>. QED BY <1>11, <1>14, <1>15, <1>17 DEF DirectBitKeeps

-----------------------------------------------------------------------------
(* dec_bit. *)

\* A part of the distance moved never crosses the end of Probs.
LEMMA Shrink ==
    ASSUME NEW u \in Nat, u >= MoveDiv - 1
    PROVE  /\ u \div MoveDiv \in Nat /\ u \div MoveDiv <= u
           /\ u - u \div MoveDiv >= MoveDiv - 1
<1>. DEFINE k == u \div MoveDiv
<1>1. k \in Nat /\ k * MoveDiv <= u /\ u < k * MoveDiv + MoveDiv
  BY Widths, DivFacts
<1>. HIDE DEF k
<1>2. CASE k = 0
  BY <1>1, <1>2 DEF k
<1>3. CASE k >= 1
  <2>1. 1 * (MoveDiv - 1) <= k * (MoveDiv - 1)
    BY <1>1, <1>3, Widths, MulMono
  <2>2. k * (MoveDiv - 1) = k * MoveDiv - k
    BY <1>1, Widths
  <2>3. k * MoveDiv \in Nat
    BY <1>1, Widths
  <2>4. k <= k * MoveDiv
    <3>1. 1 * k <= MoveDiv * k
      BY <1>1, Widths, MulMono
    <3>. QED BY <3>1, <1>1, Widths
  <2>5. k * MoveDiv - k <= u - k
    BY <1>1, <2>3
  <2>. QED BY <1>1, <2>1, <2>2, <2>3, <2>4, <2>5, Widths DEF k
<1>. QED BY <1>1, <1>2, <1>3

\* A part of an interval as long as the least probability, times a byte.
LEMMA PartFacts ==
    ASSUME NEW q \in Nat, NEW w \in Nat, q * ProbOne >= Top, w >= MoveDiv - 1
    PROVE  (q * w) * ByteVals >= Top
<1>1. (MoveDiv - 1) * ByteVals <= w * ByteVals
  BY Widths, MulMono
<1>2. (MoveDiv - 1) * ByteVals \in Nat /\ w * ByteVals \in Nat
  BY Widths
<1>3. ProbOne <= w * ByteVals
  BY <1>1, <1>2, Widths
<1>4. ProbOne * q <= (w * ByteVals) * q
  BY <1>2, <1>3, Widths, MulMono
<1>5. (w * ByteVals) * q = (q * w) * ByteVals /\ ProbOne * q = q * ProbOne
  BY Widths
<1>6. (q * w) * ByteVals \in Nat /\ q * ProbOne \in Nat
  BY Widths
<1>. QED BY <1>4, <1>5, <1>6, Widths

LEMMA BoundFacts ==
    ASSUME NEW d \in Decs, NEW v \in Probs
    PROVE  /\ Bound(d, v) \in Nat /\ Bound(d, v) < d.range
           /\ Bound(d, v) * ByteVals >= Top
           /\ (d.range - Bound(d, v)) * ByteVals >= Top
<1>. DEFINE q == d.range \div ProbOne
<1>1. d.range \in Nat /\ d.range >= Top
  BY Widths, WordFacts DEF Decs
<1>2. v \in Nat /\ v >= MoveDiv - 1 /\ v <= ProbOne - MoveDiv + 1
  BY Widths DEF Probs
<1>3. q \in Nat /\ q * ProbOne <= d.range /\ d.range < q * ProbOne + ProbOne
  BY <1>1, Widths, DivFacts
<1>. HIDE DEF q
<1>4. PICK t \in Nat : Top = t * ProbOne
  BY Widths
<1>5. t <= q
  <2>1. SUFFICES ASSUME q < t PROVE FALSE
    BY <1>3
  <2>2. (q + 1) * ProbOne <= t * ProbOne
    BY <2>1, <1>3, Widths, MulMono
  <2>3. (q + 1) * ProbOne = q * ProbOne + ProbOne /\ q * ProbOne \in Nat
    BY <1>3, Widths
  <2>. QED BY <2>2, <2>3, <1>1, <1>3, <1>4, Widths
<1>6. q * ProbOne >= Top /\ q * ProbOne \in Nat
  BY <1>3, <1>4, <1>5, Widths, MulMono
<1>7. q >= 1
  BY <1>3, <1>6, Widths
<1>8. q * v \in Nat /\ Bound(d, v) = q * v
  BY <1>2, <1>3 DEF Bound, q
<1>9. ProbOne - v \in Nat /\ ProbOne - v >= MoveDiv - 1
  BY <1>2, Widths
<1>10. q * (ProbOne - v) = q * ProbOne - q * v
  BY <1>2, <1>3, Widths
<1>11. q * (ProbOne - v) >= 1 /\ q * (ProbOne - v) \in Nat
  <2>1. ProbOne - v >= 1
    BY <1>9, Widths
  <2>2. 1 * (ProbOne - v) <= q * (ProbOne - v)
    BY <1>3, <1>7, <1>9, MulMono
  <2>. QED BY <2>1, <2>2, <1>3, <1>9
<1>12. d.range - q * v >= q * (ProbOne - v)
  BY <1>1, <1>3, <1>6, <1>8, <1>10
<1>13. (q * (ProbOne - v)) * ByteVals >= Top
  BY <1>3, <1>6, <1>9, PartFacts
<1>14. d.range - q * v \in Nat
  BY <1>1, <1>8, <1>11, <1>12
<1>15. (q * (ProbOne - v)) * ByteVals <= (d.range - q * v) * ByteVals
  BY <1>11, <1>12, <1>14, Widths, MulMono
<1>16. (q * v) * ByteVals >= Top
  BY <1>2, <1>3, <1>6, PartFacts
<1>17. (q * (ProbOne - v)) * ByteVals \in Nat /\ (d.range - q * v) * ByteVals \in Nat
  BY <1>11, <1>14, Widths
<1>18. (d.range - q * v) * ByteVals >= Top
  BY <1>13, <1>15, <1>17, Widths
<1>19. q * v < d.range
  BY <1>1, <1>8, <1>11, <1>12
<1>. QED BY <1>8, <1>16, <1>18, <1>19

LEMMA DecBitSound ==
    ASSUME NEW d \in Decs, NEW v \in Probs, NEW b \in ByteSet
    PROVE  DecBitKeeps(d, v, b)
<1>. DEFINE bound == Bound(d, v)
            low   == [d EXCEPT !.range = bound]
            high  == [d EXCEPT !.range = @ - bound, !.code = @ - bound]
<1>1. /\ d \in [range : Nat, code : 0 .. Word - 1, corrupt : BOOLEAN]
      /\ d.range \in Nat /\ d.range < Word /\ d.code \in Nat /\ d.code < Word
  BY Widths, WordFacts DEF Decs
<1>2. d.corrupt \/ d.code < d.range
  BY DEF Decs
<1>3. /\ bound \in Nat /\ bound < d.range
      /\ bound * ByteVals >= Top /\ (d.range - bound) * ByteVals >= Top
  BY BoundFacts
<1>4. v \in Nat /\ v >= MoveDiv - 1 /\ v <= ProbOne - MoveDiv + 1
  BY Widths DEF Probs
<1>. HIDE DEF bound
<1>5. CASE d.code < bound
  <2>1. /\ DecBit(d, v, b).dec = Normalize(low, b)
        /\ DecBit(d, v, b).prob = v + (ProbOne - v) \div MoveDiv
    BY <1>5 DEF DecBit, bound
  <2>2. /\ low \in [range : Nat, code : 0 .. Word - 1, corrupt : BOOLEAN]
        /\ low.range = bound /\ low.code = d.code /\ low.corrupt = d.corrupt
    BY <1>1, <1>3
  <2>. HIDE DEF low
  <2>3. Nearly(low)
    BY <1>1, <1>3, <1>5, <2>2, WordFacts DEF Nearly
  <2>4. ProbOne - v \in Nat /\ ProbOne - v >= MoveDiv - 1
    BY <1>4, Widths
  <2>5. /\ (ProbOne - v) \div MoveDiv \in Nat
        /\ (ProbOne - v) - (ProbOne - v) \div MoveDiv >= MoveDiv - 1
    BY <2>4, Shrink
  <2>6. v + (ProbOne - v) \div MoveDiv \in Probs
    BY <1>4, <2>5, Widths DEF Probs
  <2>7. Normalize(low, b) \in Decs /\ Normalize(low, b).corrupt = d.corrupt
    BY <2>2, <2>3, NormalizeKeeps
  <2>. QED BY <2>1, <2>6, <2>7 DEF DecBitKeeps
<1>6. CASE ~(d.code < bound)
  <2>1. /\ DecBit(d, v, b).dec = Normalize(high, b)
        /\ DecBit(d, v, b).prob = v - v \div MoveDiv
    BY <1>6 DEF DecBit, bound
  <2>2. /\ d.range - bound \in Nat /\ d.range - bound < Word
        /\ d.code - bound \in 0 .. Word - 1
    BY <1>1, <1>3, <1>6, WordFacts
  <2>3. /\ high \in [range : Nat, code : 0 .. Word - 1, corrupt : BOOLEAN]
        /\ high.range = d.range - bound /\ high.code = d.code - bound
        /\ high.corrupt = d.corrupt
    BY <1>1, <2>2
  <2>. HIDE DEF high
  <2>4. d.code < d.range => d.code - bound < d.range - bound
    BY <1>1, <1>3
  <2>5. high.corrupt \/ high.code < high.range
    BY <1>2, <2>3, <2>4
  <2>6. Nearly(high)
    BY <1>3, <2>2, <2>3, <2>5 DEF Nearly
  <2>7. v \div MoveDiv \in Nat /\ v \div MoveDiv <= v /\ v - v \div MoveDiv >= MoveDiv - 1
    BY <1>4, Shrink
  <2>8. v - v \div MoveDiv \in Probs
    BY <1>4, <2>7, Widths DEF Probs
  <2>9. Normalize(high, b) \in Decs /\ Normalize(high, b).corrupt = d.corrupt
    BY <2>3, <2>6, NormalizeKeeps
  <2>. QED BY <2>1, <2>8, <2>9 DEF DecBitKeeps
<1>. QED BY <1>5, <1>6

-----------------------------------------------------------------------------
\* Of any widths, the decoder's interval stays long enough, its place inside it
\* or the input known as corrupt, and its probabilities away from both ends.
THEOREM RangeDecSoundAlways == RangeDecKeeps
<1>1. FirstProb \in Probs
  <2>1. ProbOne \div 2 \in Nat /\ (ProbOne \div 2) * 2 <= ProbOne /\ ProbOne < (ProbOne \div 2) * 2 + 2
    BY Widths, DivFacts
  <2>. QED BY <2>1, Widths DEF FirstProb, Probs
<1>2. ASSUME NEW code \in 0 .. Word - 1 PROVE Start(0, code) \in Decs
  <2>1. /\ Start(0, code).range = Word - 1 /\ Start(0, code).code = code
        /\ Start(0, code).corrupt = (code = Word - 1)
        /\ Start(0, code) = [range |-> Word - 1, code |-> code, corrupt |-> code = Word - 1]
    BY DEF Start
  <2>2. Word - 1 \in Top .. Word - 1
    BY Widths, WordFacts
  <2>3. (code = Word - 1) \/ code < Word - 1
    BY Widths, WordFacts
  <2>. QED BY <2>1, <2>2, <2>3 DEF Decs
<1>. QED BY <1>1, <1>2, DirectBitSound, DecBitSound DEF RangeDecKeeps

-----------------------------------------------------------------------------
(* The window and the data. *)

OutWnd == [buf : [Window -> Bytes], buf_i : Window, is_full : BOOLEAN,
           dst : Seq(Bytes), dst_i : Nat, dst_len : Nat]

\* At, of any window.
DataAt(w, j) == IF j >= 1 THEN w.dst[j] ELSE 0

Holds(w) == \A d \in 1 .. DictSz : Byte(w, d) = DataAt(w, Len(w.dst) + 1 - d)

\* What check_dist can tell from buf_i and is_full.
Counted(w) ==
    /\ ~w.is_full => Len(w.dst) = w.buf_i
    /\ w.is_full => Len(w.dst) >= DictSz
    /\ w.dst_i = Len(w.dst)

Good(w) == w \in OutWnd /\ Holds(w) /\ Counted(w)

LEMMA Constants == DictSz \in Nat /\ DictSz >= 1 /\ 0 \in Bytes
BY LzmaAssumption

LEMMA PutFields ==
    ASSUME NEW w \in OutWnd, NEW b \in Bytes, w.dst_i < w.dst_len
    PROVE  /\ Put(w, b) \in OutWnd
           /\ Put(w, b).buf = [w.buf EXCEPT ![w.buf_i] = b]
           /\ Put(w, b).buf_i = IF w.buf_i + 1 = DictSz THEN 0 ELSE w.buf_i + 1
           /\ Put(w, b).is_full = (w.is_full \/ w.buf_i + 1 = DictSz)
           /\ Put(w, b).dst = Append(w.dst, b)
           /\ Put(w, b).dst_i = w.dst_i + 1
           /\ Put(w, b).dst_len = w.dst_len
<1>1. Put(w, b) = [w EXCEPT !.buf = [@ EXCEPT ![w.buf_i] = b],
                            !.buf_i = IF w.buf_i + 1 = DictSz THEN 0 ELSE w.buf_i + 1,
                            !.is_full = @ \/ w.buf_i + 1 = DictSz,
                            !.dst = Append(@, b),
                            !.dst_i = @ + 1]
  <2>1. ~(w.dst_i >= w.dst_len)
    BY DEF OutWnd
  <2>. QED BY <2>1, Zenon DEF Put
<1>2. /\ [w.buf EXCEPT ![w.buf_i] = b] \in [Window -> Bytes]
      /\ (IF w.buf_i + 1 = DictSz THEN 0 ELSE w.buf_i + 1) \in Window
      /\ (w.is_full \/ w.buf_i + 1 = DictSz) \in BOOLEAN
      /\ Append(w.dst, b) \in Seq(Bytes)
      /\ w.dst_i + 1 \in Nat
  BY Constants DEF OutWnd, Window
<1>. QED BY <1>1, <1>2 DEF OutWnd

LEMMA PutShifts ==
    ASSUME NEW w \in OutWnd, NEW b \in Bytes, w.dst_i < w.dst_len
    PROVE  /\ Byte(Put(w, b), 1) = b
           /\ \A d \in 1 .. DictSz - 1 : Byte(Put(w, b), d + 1) = Byte(w, d)
<1>. DEFINE v == Put(w, b)
<1>1. /\ v.buf = [w.buf EXCEPT ![w.buf_i] = b]
      /\ v.buf_i = IF w.buf_i + 1 = DictSz THEN 0 ELSE w.buf_i + 1
      /\ w.buf \in [Window -> Bytes] /\ w.buf_i \in Window
  BY PutFields DEF OutWnd
<1>. HIDE DEF v
<1>2. Byte(v, 1) = b
  BY <1>1, Constants DEF Byte, Window
<1>3. ASSUME NEW d \in 1 .. DictSz - 1 PROVE Byte(v, d + 1) = Byte(w, d)
  <2>1. CASE w.buf_i + 1 = DictSz
    BY <2>1, <1>1, Constants DEF Byte, Window
  <2>2. CASE w.buf_i + 1 # DictSz /\ d <= w.buf_i
    <3>1. v.buf_i = w.buf_i + 1 /\ w.buf_i - d \in Window /\ w.buf_i - d # w.buf_i
      BY <2>2, <1>1, Constants DEF Window
    <3>2. Byte(v, d + 1) = v.buf[w.buf_i - d]
      BY <2>2, <3>1, <1>1, Constants DEF Byte, Window
    <3>. QED BY <2>2, <3>1, <3>2, <1>1 DEF Byte
  <2>3. CASE w.buf_i + 1 # DictSz /\ d > w.buf_i
    <3>1. /\ v.buf_i = w.buf_i + 1
          /\ DictSz - d + w.buf_i \in Window /\ DictSz - d + w.buf_i # w.buf_i
      BY <2>3, <1>1, Constants DEF Window
    <3>2. Byte(v, d + 1) = v.buf[DictSz - d + w.buf_i]
      BY <2>3, <3>1, <1>1, Constants, SMTT(30) DEF Byte, Window
    <3>3. ~(d <= w.buf_i)
      BY <2>3, <1>1 DEF Window
    <3>. QED BY <3>1, <3>2, <3>3, <1>1 DEF Byte
  <2>. QED BY <2>1, <2>2, <2>3, <1>1 DEF Window
<1>. QED BY <1>2, <1>3 DEF v

LEMMA PutKeepsGood ==
    ASSUME NEW w, Good(w), NEW b \in Bytes, w.dst_i < w.dst_len
    PROVE  Good(Put(w, b))
<1>. DEFINE v == Put(w, b)
<1>1. w \in OutWnd /\ Holds(w) /\ Counted(w)
  BY DEF Good
<1>2. /\ v \in OutWnd
      /\ v.buf_i = IF w.buf_i + 1 = DictSz THEN 0 ELSE w.buf_i + 1
      /\ v.is_full = (w.is_full \/ w.buf_i + 1 = DictSz)
      /\ v.dst = Append(w.dst, b)
      /\ v.dst_i = w.dst_i + 1
  BY <1>1, PutFields
<1>3. /\ Byte(v, 1) = b
      /\ \A d \in 1 .. DictSz - 1 : Byte(v, d + 1) = Byte(w, d)
  BY <1>1, PutShifts
<1>. HIDE DEF v
<1>4. w.dst \in Seq(Bytes) /\ w.buf_i \in Window
  BY <1>1 DEF OutWnd
<1>5. Counted(v)
  <2>1. Len(v.dst) = Len(w.dst) + 1
    BY <1>2, <1>4
  <2>2. CASE w.buf_i + 1 = DictSz
    <3>1. v.is_full
      BY <2>2, <1>2
    <3>2. Len(w.dst) + 1 >= DictSz
      <4>1. CASE w.is_full
        BY <4>1, <1>1, <1>4, Constants DEF Counted
      <4>2. CASE ~w.is_full
        BY <4>2, <2>2, <1>1, <1>4, Constants DEF Counted, Window
      <4>. QED BY <4>1, <4>2
    <3>. QED BY <3>1, <3>2, <2>1, <1>1, <1>2 DEF Counted
  <2>3. CASE w.buf_i + 1 # DictSz
    <3>1. v.is_full <=> w.is_full
      BY <2>3, <1>2
    <3>2. v.buf_i = w.buf_i + 1
      BY <2>3, <1>2
    <3>. QED BY <3>1, <3>2, <2>1, <1>1, <1>2, <1>4, Constants DEF Counted, Window
  <2>. QED BY <2>2, <2>3
<1>6. ASSUME NEW d \in 1 .. DictSz
      PROVE  Byte(v, d) = DataAt(v, Len(v.dst) + 1 - d)
  <2>1. CASE d = 1
    BY <2>1, <1>2, <1>3, <1>4 DEF DataAt
  <2>2. CASE d # 1
    <3>1. d - 1 \in 1 .. DictSz - 1 /\ (d - 1) + 1 = d /\ d - 1 \in 1 .. DictSz
      BY <2>2, Constants
    <3>2. Byte(v, d) = DataAt(w, Len(w.dst) + 1 - (d - 1))
      BY <3>1, <1>3, <1>1 DEF Holds
    <3>3. DataAt(w, Len(w.dst) + 1 - (d - 1)) = DataAt(v, Len(v.dst) + 1 - d)
      BY <3>1, <2>2, <1>2, <1>4 DEF DataAt
    <3>. QED BY <3>2, <3>3
  <2>. QED BY <2>1, <2>2
<1>. QED BY <1>2, <1>5, <1>6 DEF Good, Holds, v

\* A byte of the window is a byte.
LEMMA ByteInBytes ==
    ASSUME NEW w \in OutWnd, NEW d \in 1 .. DictSz
    PROVE  Byte(w, d) \in Bytes
<1>. w.buf \in [Window -> Bytes] /\ w.buf_i \in Window
  BY DEF OutWnd
<1>. QED BY Constants DEF Byte, Window

-----------------------------------------------------------------------------
Explained ==
    \A j \in 1 .. Len(ownd.dst) :
        ownd.dst[j] = IF from[j].dist = 0 THEN from[j].lit
                      ELSE DataAt(ownd, j - from[j].dist)

Reach == pc # "done" => \A k \in 0 .. 3 : rep[k] < DictSz /\ rep[k] <= Len(ownd.dst)

Balance ==
    Len(ownd.dst) + unpack_sz = ownd.dst_len + (IF pc = "copy" THEN copied ELSE 0)

\* The bytes of from that are not written belong to the copy under way.
Pending ==
    /\ pc # "copy" => Len(from) = Len(ownd.dst)
    /\ pc = "copy" =>
          /\ copied < len /\ len <= unpack_sz
          /\ Len(from) = Len(ownd.dst) + len - copied
          /\ \A j \in Len(ownd.dst) + 1 .. Len(from) :
                from[j] = [dist |-> rep[0] + 1, lit |-> 0]

Results ==
    /\ pc # "done" => result = "none"
    /\ result = "data" => Len(ownd.dst) = ownd.dst_len

IInv == TypeOK /\ Good(ownd) /\ Explained /\ Reach /\ Balance /\ Pending /\ Results

LEMMA InvariantInit == Init => IInv
<1>. SUFFICES ASSUME Init PROVE IInv
  OBVIOUS
<1>. PICK n \in 0 .. MaxDst :
        /\ ownd = [buf |-> [c \in Window |-> 0], buf_i |-> 0, is_full |-> FALSE,
                   dst |-> <<>>, dst_i |-> 0, dst_len |-> n]
        /\ unpack_sz = n
  BY DEF Init
<1>1. n \in Nat /\ 0 \in Window
  BY LzmaAssumption, Constants DEF Window
<1>2. ownd \in OutWnd
  BY <1>1, Constants DEF OutWnd
<1>3. TypeOK
  BY <1>1, <1>2, Constants DEF Init, TypeOK, OutWnd, n_states
<1>4. Holds(ownd)
  BY Constants DEF Holds, Byte, DataAt, Window
<1>5. Counted(ownd)
  BY DEF Counted
<1>6. Explained /\ Reach /\ Balance /\ Pending /\ Results
  BY <1>1, Constants DEF Init, Explained, Reach, Balance, Pending, Results
<1>. QED BY <1>2, <1>3, <1>4, <1>5, <1>6 DEF IInv, Good

\* Steps that write nothing: the window and the packets taken stay as they are.
LEMMA ReturnKeeps ==
    ASSUME IInv, pc = "packet" \/ pc = "begin", pc' \in {"packet", "done"},
           result' \in {"none", "nothing", "data"},
           pc' # "done" => result' = "none" /\ rep' = rep,
           result' = "data" => ownd.dst_i = ownd.dst_len,
           UNCHANGED <<ownd, unpack_sz, from>>, TypeOK'
    PROVE  IInv'
<1>. USE DEF IInv
<1>1. Good(ownd)' /\ Explained'
  BY DEF Explained
<1>2. Reach'
  BY DEF Reach
<1>3. Balance' /\ Pending'
  BY DEF Balance, Pending
<1>4. Results'
  BY DEF Results, Good, Counted
<1>. QED BY <1>1, <1>2, <1>3, <1>4

LEMMA DistFromNext == \A n, d \in Nat : n + 1 - d = (n + 1) - d
OBVIOUS

LEMMA OneLess ==
    ASSUME NEW n \in Nat, NEW u \in Nat, NEW m, m = n + 1
    PROVE  m + (u - 1) = n + u
OBVIOUS

LEMMA AppendKeeps ==
    ASSUME NEW S, NEW s \in Seq(S), NEW e \in S, NEW k \in Int, k >= 1, k <= Len(s)
    PROVE  Append(s, e)[k] = s[k] /\ k \in 1 .. Len(s)
OBVIOUS

LEMMA ElementOf ==
    ASSUME NEW S, NEW s \in Seq(S)
    PROVE  Len(s) \in Nat /\ \A j \in 1 .. Len(s) : s[j] \in S
OBVIOUS

LEMMA DistIsNat ==
    ASSUME NEW f \in Seq([dist : Nat, lit : Bytes])
    PROVE  Len(f) \in Nat /\ \A j \in 1 .. Len(f) : f[j].dist \in Nat
<1>. DEFINE S == [dist : Nat, lit : Bytes]
<1>1. \A r \in S : r.dist \in Nat
  OBVIOUS
<1>. HIDE DEF S
<1>2. f \in Seq(S)
  BY DEF S
<1>3. Len(f) \in Nat /\ \A j \in 1 .. Len(f) : f[j] \in S
  BY <1>2, ElementOf
<1>. QED BY <1>1, <1>3

\* What writing a byte does to the parts that speak of the window.
LEMMA PutKeeps ==
    ASSUME IInv, NEW b \in Bytes, NEW r, pc # "done",
           ownd' = Put(ownd, b), unpack_sz > 0,
           pc = "copy" => copied < unpack_sz,
           from' \in Seq([dist : Nat, lit : Bytes]),
           Len(from') >= Len(ownd.dst) + 1,
           \A j \in 1 .. Len(ownd.dst) : from'[j] = from[j],
           from'[Len(ownd.dst) + 1] = r,
           b = IF r.dist = 0 THEN r.lit ELSE DataAt(ownd, Len(ownd.dst) + 1 - r.dist)
    PROVE  /\ Good(ownd)' /\ Explained' /\ ownd' \in OutWnd
           /\ Len(ownd'.dst) = Len(ownd.dst) + 1
           /\ ownd'.dst_len = ownd.dst_len
<1>1. /\ ownd \in OutWnd /\ Good(ownd) /\ ownd.dst \in Seq(Bytes)
      /\ ownd.dst_i = Len(ownd.dst) /\ ownd.dst_len \in Nat
  BY DEF IInv, Good, Counted, OutWnd
<1>2. ownd.dst_i < ownd.dst_len
  <2>1. Len(ownd.dst) \in Nat /\ unpack_sz \in Nat /\ copied \in Nat
    BY <1>1 DEF IInv, TypeOK
  <2>2. Len(ownd.dst) + unpack_sz = ownd.dst_len + (IF pc = "copy" THEN copied ELSE 0)
    BY DEF IInv, Balance
  <2>3. CASE pc = "copy"
    BY <2>1, <2>2, <2>3, <1>1
  <2>4. CASE pc # "copy"
    BY <2>1, <2>2, <2>4, <1>1
  <2>. QED BY <2>3, <2>4
<1>3. /\ ownd' \in OutWnd
      /\ ownd'.dst = Append(ownd.dst, b) /\ ownd'.dst_len = ownd.dst_len
  BY <1>1, <1>2, PutFields
<1>4. Good(ownd)'
  BY <1>1, <1>2, PutKeepsGood
<1>5. Len(ownd'.dst) = Len(ownd.dst) + 1
  BY <1>1, <1>3
<1>6. ASSUME NEW k \in Int, k <= Len(ownd.dst)
      PROVE  DataAt(ownd', k) = DataAt(ownd, k)
  <2>1. CASE k >= 1
    <3>1. ownd.dst \in Seq(Bytes)
      BY <1>1
    <3>2. Append(ownd.dst, b)[k] = ownd.dst[k]
      BY <2>1, <3>1, <1>6, AppendKeeps
    <3>3. ownd'.dst[k] = ownd.dst[k]
      BY <3>2, <1>3
    <3>. QED BY <2>1, <3>3 DEF DataAt
  <2>2. CASE ~(k >= 1)
    BY <2>2 DEF DataAt
  <2>. QED BY <2>1, <2>2
<1>7. Len(from') \in Nat /\ \A j \in 1 .. Len(from') : from'[j].dist \in Nat
  BY DistIsNat
<1>8. ASSUME NEW j \in 1 .. Len(ownd'.dst)
      PROVE  ownd'.dst[j] = IF from'[j].dist = 0 THEN from'[j].lit
                            ELSE DataAt(ownd', j - from'[j].dist)
  <2>0. /\ j \in 1 .. Len(from') /\ from'[j].dist \in Nat
    BY <1>1, <1>5, <1>7, SMTT(30)
  <2>1. from'[j].dist # 0 =>
           DataAt(ownd', j - from'[j].dist) = DataAt(ownd, j - from'[j].dist)
    BY <2>0, <1>1, <1>5, <1>6, SMTT(30)
  <2>2. CASE j <= Len(ownd.dst)
    <3>1. ownd'.dst[j] = ownd.dst[j] /\ from'[j] = from[j] /\ j \in 1 .. Len(ownd.dst)
      <4>1. Len(ownd.dst) \in Nat /\ j \in Int /\ j >= 1
        BY <1>1, <1>5, ElementOf
      <4>2. Append(ownd.dst, b)[j] = ownd.dst[j] /\ j \in 1 .. Len(ownd.dst)
        BY <4>1, <2>2, <1>1, AppendKeeps
      <4>3. ownd'.dst[j] = ownd.dst[j]
        BY <4>2, <1>3
      <4>4. from'[j] = from[j]
        BY <4>2
      <4>. QED BY <4>2, <4>3, <4>4
    <3>2. ownd.dst[j] = IF from[j].dist = 0 THEN from[j].lit
                        ELSE DataAt(ownd, j - from[j].dist)
      BY <3>1 DEF IInv, Explained
    <3>3. CASE from'[j].dist = 0
      BY <3>1, <3>2, <3>3
    <3>4. CASE from'[j].dist # 0
      BY <3>1, <3>2, <3>4, <2>1
    <3>. QED BY <3>3, <3>4
  <2>3. CASE j = Len(ownd.dst) + 1
    <3>1. ownd'.dst[j] = b
      BY <2>3, <1>1, <1>3
    <3>2. from'[j] = r
      BY <2>3
    <3>4. CASE r.dist = 0
      BY <3>1, <3>2, <3>4
    <3>5. CASE r.dist # 0
      <4>1. b = DataAt(ownd, Len(ownd.dst) + 1 - r.dist)
        BY <3>5
      <4>2. Len(ownd.dst) + 1 - r.dist = j - r.dist
        <5>1. Len(ownd.dst) \in Nat /\ r.dist \in Nat
          BY <1>1, <2>0, <3>2, ElementOf
        <5>2. Len(ownd.dst) + 1 - r.dist = (Len(ownd.dst) + 1) - r.dist
          BY <5>1, DistFromNext
        <5>. QED BY <5>2, <2>3, Zenon
      <4>3. b = DataAt(ownd, j - from'[j].dist)
        BY <4>1, <4>2, <3>2
      <4>. QED BY <3>1, <3>2, <3>5, <4>3, <2>1
    <3>. QED BY <3>4, <3>5
  <2>. QED BY <2>2, <2>3, <1>1, <1>5
<1>9. Explained'
  BY <1>8 DEF Explained
<1>. QED BY <1>3, <1>4, <1>5, <1>9

-----------------------------------------------------------------------------
LEMMA BeginStep == IInv /\ Begin => IInv'
<1>. SUFFICES ASSUME IInv, Begin PROVE IInv'
  OBVIOUS
<1>. USE DEF Begin, Return, history
<1>1. TypeOK'
  BY DEF IInv, TypeOK
<1>2. pc' = "packet" => result' = "none"
  BY DEF IInv, Results
<1>. QED BY <1>1, <1>2, ReturnKeeps

LEMMA EndLoopStep == IInv /\ EndLoop => IInv'
<1>. SUFFICES ASSUME IInv, EndLoop PROVE IInv'
  OBVIOUS
<1>. USE DEF EndLoop, Finished, Return, history
<1>1. TypeOK'
  BY DEF IInv, TypeOK
<1>. QED BY <1>1, ReturnKeeps

LEMMA RefuseStep == IInv /\ RefusePacket => IInv'
<1>. SUFFICES ASSUME IInv, RefusePacket PROVE IInv'
  OBVIOUS
<1>. USE DEF RefusePacket, Return, history
<1>1. TypeOK'
  BY DEF IInv, TypeOK
<1>. QED BY <1>1, ReturnKeeps

LEMMA StateTypes ==
    ASSUME state \in 0 .. n_states - 1
    PROVE  /\ AfterLiteral(state) \in 0 .. n_states - 1
           /\ \A m \in {7, 8, 9} : (IF state < 7 THEN m ELSE 11) \in 0 .. n_states - 1
           /\ (IF state < 7 THEN 7 ELSE 10) \in 0 .. n_states - 1
BY DEF AfterLiteral, n_states

LEMMA NotedType ==
    ASSUME TypeOK, NEW kind \in {"match", "rep", "short"}
    PROVE  Noted(kind) \in [kind : {"none", "match", "rep", "short"},
                            behindLiteral : BOOLEAN, literals : 0 .. 3]
BY DEF Noted, TypeOK

\* A packet of one byte: a literal, or a repetition of one byte.
LEMMA OneByteKeeps ==
    ASSUME IInv, NEW b \in Bytes, NEW r \in [dist : Nat, lit : Bytes],
           pc = "packet", unpack_sz > 0,
           ownd' = Put(ownd, b), from' = Append(from, r),
           b = IF r.dist = 0 THEN r.lit ELSE DataAt(ownd, Len(ownd.dst) + 1 - r.dist),
           unpack_sz' = unpack_sz - 1,
           UNCHANGED <<pc, rep, len, copied, result>>,
           state' \in 0 .. n_states - 1,
           last' \in [kind : {"none", "match", "rep", "short"},
                      behindLiteral : BOOLEAN, literals : 0 .. 3]
    PROVE  IInv'
<1>1. /\ from \in Seq([dist : Nat, lit : Bytes]) /\ Len(from) = Len(ownd.dst)
      /\ Len(ownd.dst) \in Nat /\ unpack_sz \in Nat
  BY DEF IInv, TypeOK, Pending
<1>2. /\ from' \in Seq([dist : Nat, lit : Bytes])
      /\ Len(from') = Len(ownd.dst) + 1
      /\ \A j \in 1 .. Len(ownd.dst) : from'[j] = from[j]
      /\ from'[Len(ownd.dst) + 1] = r
  <2>. DEFINE S == [dist : Nat, lit : Bytes]
  <2>. HIDE DEF S
  <2>1. from \in Seq(S) /\ r \in S
    BY <1>1 DEF S
  <2>2. /\ Append(from, r) \in Seq(S) /\ Len(Append(from, r)) = Len(from) + 1
        /\ \A j \in 1 .. Len(from) : Append(from, r)[j] = from[j]
        /\ Append(from, r)[Len(from) + 1] = r
    BY <2>1
  <2>. QED BY <2>2, <1>1 DEF S
<1>3. /\ Good(ownd)' /\ Explained' /\ ownd' \in OutWnd
      /\ Len(ownd'.dst) = Len(ownd.dst) + 1
      /\ ownd'.dst_len = ownd.dst_len
  <2>1. Len(from') >= Len(ownd.dst) + 1
    BY <1>1, <1>2
  <2>. QED BY <1>2, <2>1, PutKeeps
<1>4. TypeOK'
  BY <1>1, <1>2, <1>3 DEF IInv, TypeOK, OutWnd
<1>5. Reach'
  <2>1. \A k \in 0 .. 3 : rep[k] \in Nat /\ rep[k] < DictSz /\ rep[k] <= Len(ownd.dst)
    BY DEF IInv, Reach, TypeOK
  <2>2. \A k \in 0 .. 3 : rep[k] < DictSz /\ rep[k] <= Len(ownd.dst) + 1
    BY <2>1, <1>1, SMTT(30)
  <2>. QED BY <2>2, <1>3 DEF Reach
<1>6. Balance'
  <2>1. ownd.dst_len \in Nat
    BY DEF IInv, TypeOK
  <2>2. Len(ownd.dst) + unpack_sz = ownd.dst_len
    BY <2>1, <1>1 DEF IInv, Balance
  <2>3. Len(ownd'.dst) + unpack_sz' = ownd'.dst_len
    <3>1. Len(ownd'.dst) = Len(ownd.dst) + 1 /\ ownd'.dst_len = ownd.dst_len
      BY <1>3
    <3>2. Len(ownd'.dst) + (unpack_sz - 1) = Len(ownd.dst) + unpack_sz
      <4>1. Len(ownd.dst) \in Nat /\ unpack_sz \in Nat
        BY <1>1
      <4>. QED BY <3>1, <4>1, OneLess, SMTT(30)
    <3>3. Len(ownd'.dst) + unpack_sz' = Len(ownd.dst) + unpack_sz
      BY <3>2
    <3>. QED BY <3>1, <3>3, <2>2
  <2>4. pc' # "copy" /\ ownd'.dst_len + 0 = ownd'.dst_len
    BY <2>1, <1>3
  <2>. QED BY <2>3, <2>4 DEF Balance
<1>7. Pending' /\ Results'
  BY <1>1, <1>2, <1>3 DEF IInv, Pending, Results
<1>. QED BY <1>3, <1>4, <1>5, <1>6, <1>7 DEF IInv

LEMMA LiteralStep == IInv /\ Literal => IInv'
<1>. SUFFICES ASSUME IInv, Literal PROVE IInv'
  OBVIOUS
<1>. PICK b \in Bytes : /\ ownd' = Put(ownd, b)
                        /\ from' = Append(from, [dist |-> 0, lit |-> b])
  BY DEF Literal
<1>1. state' \in 0 .. n_states - 1
  BY StateTypes DEF Literal, IInv, TypeOK
<1>2. last' \in [kind : {"none", "match", "rep", "short"},
                 behindLiteral : BOOLEAN, literals : 0 .. 3]
  <2>1. (IF last.literals = 3 THEN 3 ELSE last.literals + 1) \in 0 .. 3
    BY DEF IInv, TypeOK
  <2>. QED BY <2>1 DEF Literal, IInv, TypeOK
<1>. DEFINE r == [dist |-> 0, lit |-> b]
<1>3. r \in [dist : Nat, lit : Bytes] /\ r.dist = 0 /\ r.lit = b
  OBVIOUS
<1>. HIDE DEF r
<1>4. from' = Append(from, r)
  BY DEF r
<1>5. b = IF r.dist = 0 THEN r.lit ELSE DataAt(ownd, Len(ownd.dst) + 1 - r.dist)
  BY <1>3
<1>. QED BY <1>1, <1>2, <1>3, <1>4, <1>5, OneByteKeeps DEF Literal

\* What a window gives for the distance of rep[0].
LEMMA RepByte ==
    ASSUME IInv, pc # "done"
    PROVE  /\ rep[0] + 1 \in 1 .. DictSz /\ rep[0] \in Nat
           /\ Byte(ownd, rep[0] + 1) \in Bytes
           /\ Byte(ownd, rep[0] + 1) = DataAt(ownd, Len(ownd.dst) + 1 - (rep[0] + 1))
<1>1. rep[0] + 1 \in 1 .. DictSz /\ rep[0] \in Nat
  BY Constants DEF IInv, TypeOK, Reach
<1>2. ownd \in OutWnd /\ Holds(ownd)
  BY DEF IInv, Good
<1>3. Byte(ownd, rep[0] + 1) = DataAt(ownd, Len(ownd.dst) + 1 - (rep[0] + 1))
  BY <1>1, <1>2 DEF Holds
<1>. QED BY <1>1, <1>2, <1>3, ByteInBytes

LEMMA ShortRepStep == IInv /\ ShortRep => IInv'
<1>. SUFFICES ASSUME IInv, ShortRep PROVE IInv'
  OBVIOUS
<1>. DEFINE b == Byte(ownd, rep[0] + 1)
            r == [dist |-> rep[0] + 1, lit |-> 0]
<1>1. state' \in 0 .. n_states - 1
  BY StateTypes DEF ShortRep, IInv, TypeOK
<1>2. last' \in [kind : {"none", "match", "rep", "short"},
                 behindLiteral : BOOLEAN, literals : 0 .. 3]
  BY NotedType DEF ShortRep, IInv
<1>3. /\ b \in Bytes
      /\ r \in [dist : Nat, lit : Bytes] /\ r.dist = rep[0] + 1 /\ r.dist # 0
      /\ b = DataAt(ownd, Len(ownd.dst) + 1 - r.dist)
  BY RepByte, Constants DEF ShortRep
<1>4. ownd' = Put(ownd, b) /\ from' = Append(from, r)
  BY DEF ShortRep
<1>. HIDE DEF b, r
<1>5. b = IF r.dist = 0 THEN r.lit ELSE DataAt(ownd, Len(ownd.dst) + 1 - r.dist)
  BY <1>3
<1>. QED BY <1>1, <1>2, <1>3, <1>4, <1>5, OneByteKeeps DEF ShortRep

LEMMA Repeated ==
    ASSUME NEW S, NEW e \in S, NEW m \in Nat
    PROVE  /\ [j \in 1 .. m |-> e] \in Seq(S) /\ Len([j \in 1 .. m |-> e]) = m
           /\ \A i \in 1 .. m : [j \in 1 .. m |-> e][i] = e
OBVIOUS

\* A packet that copies, once rep holds its distance.
LEMMA BeginCopyKeeps ==
    ASSUME IInv, pc = "packet", NEW n \in Lens, BeginCopy(n),
           rep' \in [0 .. 3 -> Nat],
           \A k \in 0 .. 3 : rep'[k] < DictSz /\ rep'[k] <= Len(ownd.dst),
           state' \in 0 .. n_states - 1,
           last' \in [kind : {"none", "match", "rep", "short"},
                      behindLiteral : BOOLEAN, literals : 0 .. 3],
           UNCHANGED <<ownd, unpack_sz>>
    PROVE  IInv'
<1>. DEFINE S == [dist : Nat, lit : Bytes]
            r == [dist |-> rep'[0] + 1, lit |-> 0]
<1>1. /\ from \in Seq(S) /\ Len(from) = Len(ownd.dst)
      /\ Len(ownd.dst) \in Nat /\ unpack_sz \in Nat /\ n + 2 \in Nat /\ r \in S
      /\ n + 2 > 0
  <2>1. n \in 0 .. 271
    BY LzmaAssumption
  <2>2. rep'[0] \in Nat
    OBVIOUS
  <2>3. r \in S
    BY <2>2, Constants
  <2>4. from \in Seq(S) /\ unpack_sz \in Nat /\ ownd.dst \in Seq(Bytes)
    BY DEF IInv, TypeOK
  <2>5. Len(from) = Len(ownd.dst) /\ Len(ownd.dst) \in Nat
    BY <2>4 DEF IInv, Pending
  <2>. QED BY <2>1, <2>3, <2>4, <2>5
<1>2. Good(ownd)' /\ Reach'
  BY DEF IInv, Reach
<1>3. CASE unpack_sz < n + 2
  <2>1. pc' = "done" /\ result' = "nothing" /\ UNCHANGED <<copied, from>> /\ len' = n + 2
    BY <1>3 DEF BeginCopy, Return
  <2>2. TypeOK' /\ Explained'
    BY <1>1, <2>1 DEF IInv, TypeOK, Explained
  <2>3. Balance' /\ Pending' /\ Results'
    BY <2>1 DEF IInv, Balance, Pending, Results
  <2>. QED BY <1>2, <2>2, <2>3 DEF IInv
<1>4. CASE ~(unpack_sz < n + 2)
  <2>1. /\ pc' = "copy" /\ copied' = 0 /\ result' = result /\ len' = n + 2
        /\ from' = from \o [j \in 1 .. n + 2 |-> r]
    BY <1>4 DEF BeginCopy
  <2>. HIDE DEF S, r
  <2>2. /\ from' \in Seq(S) /\ Len(from') = Len(from) + (n + 2)
        /\ \A j \in 1 .. Len(from) : from'[j] = from[j]
        /\ \A j \in Len(from) + 1 .. Len(from') : from'[j] = r
    <3>. DEFINE u == [j \in 1 .. n + 2 |-> r]
    <3>1. u \in Seq(S) /\ Len(u) = n + 2 /\ \A i \in 1 .. n + 2 : u[i] = r
      BY <1>1, Repeated
    <3>2. from' = from \o u
      BY <2>1
    <3>. HIDE DEF u
    <3>3. /\ from' \in Seq(S) /\ Len(from') = Len(from) + (n + 2)
          /\ \A j \in 1 .. Len(from) : from'[j] = from[j]
          /\ \A j \in Len(from) + 1 .. Len(from') : from'[j] = u[j - Len(from)]
      <4>1. from \in Seq(S) /\ u \in Seq(S) /\ Len(u) = n + 2
        BY <1>1, <3>1
      <4>2. /\ from \o u \in Seq(S) /\ Len(from \o u) = Len(from) + Len(u)
            /\ \A j \in 1 .. Len(from) : (from \o u)[j] = from[j]
            /\ \A j \in Len(from) + 1 .. Len(from \o u) :
                  (from \o u)[j] = u[j - Len(from)]
        BY <4>1, SMTT(30)
      <4>. QED BY <4>1, <4>2, <3>2
    <3>4. ASSUME NEW j \in Len(from) + 1 .. Len(from') PROVE from'[j] = r
      <4>1. j - Len(from) \in 1 .. n + 2
        BY <1>1, <3>3, SMTT(30)
      <4>. QED BY <4>1, <3>1, <3>3
    <3>. QED BY <3>3, <3>4
  <2>3. TypeOK'
    BY <1>1, <2>1, <2>2 DEF IInv, TypeOK, S
  <2>4. Explained'
    BY <1>1, <2>2 DEF IInv, Explained
  <2>5. Balance'
    BY <1>1, <2>1 DEF IInv, Balance
  <2>6. Pending'
    <3>1. copied' < len' /\ len' <= unpack_sz'
      BY <1>1, <1>4, <2>1
    <3>2. Len(from') = Len(ownd'.dst) + len' - copied'
      BY <1>1, <2>1, <2>2
    <3>3. \A j \in Len(ownd'.dst) + 1 .. Len(from') :
             from'[j] = [dist |-> rep'[0] + 1, lit |-> 0]
      BY <1>1, <2>2 DEF r
    <3>. QED BY <2>1, <3>1, <3>2, <3>3 DEF Pending
  <2>7. Results'
    BY <2>1 DEF IInv, Results
  <2>. QED BY <1>2, <2>3, <2>4, <2>5, <2>6, <2>7 DEF IInv
<1>. QED BY <1>3, <1>4

LEMMA RepStep == IInv /\ Rep => IInv'
<1>. SUFFICES ASSUME IInv, Rep PROVE IInv'
  OBVIOUS
<1>. PICK k \in 0 .. 3 : rep' = ToFront(k)
  BY DEF Rep
<1>. PICK n \in Lens : BeginCopy(n)
  BY DEF Rep
<1>0. rep \in [0 .. 3 -> Nat]
  BY DEF IInv, TypeOK
<1>1. rep' \in [0 .. 3 -> Nat]
  BY <1>0 DEF ToFront
<1>2. \A j \in 0 .. 3 : \E i \in 0 .. 3 : rep'[j] = rep[i]
  BY <1>0 DEF ToFront
<1>3. \A j \in 0 .. 3 : rep'[j] < DictSz /\ rep'[j] <= Len(ownd.dst)
  BY <1>2 DEF IInv, Reach, Rep
<1>4. state' \in 0 .. n_states - 1
  BY StateTypes DEF Rep, IInv, TypeOK
<1>5. last' \in [kind : {"none", "match", "rep", "short"},
                 behindLiteral : BOOLEAN, literals : 0 .. 3]
  BY NotedType DEF Rep, IInv
<1>. QED BY <1>1, <1>3, <1>4, <1>5, BeginCopyKeeps DEF Rep

LEMMA MatchStep == IInv /\ Match => IInv'
<1>. SUFFICES ASSUME IInv, Match PROVE IInv'
  OBVIOUS
<1>. PICK dist \in Dists :
        /\ rep' = [j \in 0 .. 3 |-> IF j = 0 THEN dist ELSE rep[j - 1]]
        /\ \/ /\ dist = EndMarker
              /\ Finished
              /\ UNCHANGED <<len, copied, from>>
           \/ /\ dist # EndMarker
              /\ unpack_sz = 0 \/ dist >= DictSz \/ ~CheckDist(ownd, dist)
              /\ Return("nothing")
              /\ UNCHANGED <<len, copied, from>>
           \/ /\ dist # EndMarker
              /\ unpack_sz > 0 /\ dist < DictSz /\ CheckDist(ownd, dist)
              /\ \E n \in Lens : BeginCopy(n)
  BY DEF Match
<1>0. rep \in [0 .. 3 -> Nat] /\ dist \in Nat /\ pc = "packet"
  BY LzmaAssumption DEF IInv, TypeOK, Match
<1>1. rep' \in [0 .. 3 -> Nat]
  BY <1>0
<1>2. state' \in 0 .. n_states - 1
  BY StateTypes DEF Match, IInv, TypeOK
<1>3. last' \in [kind : {"none", "match", "rep", "short"},
                 behindLiteral : BOOLEAN, literals : 0 .. 3]
  BY NotedType DEF Match, IInv
<1>4. UNCHANGED <<ownd, unpack_sz>>
  BY DEF Match
<1>5. CASE /\ Finished \/ Return("nothing")
           /\ UNCHANGED <<len, copied, from>>
  <2>1. /\ pc' = "done" /\ result' \in {"none", "nothing", "data"}
        /\ result' = "data" => ownd.dst_i = ownd.dst_len
    BY <1>5 DEF Finished, Return
  <2>2. TypeOK'
    BY <1>1, <1>2, <1>3, <1>4, <1>5, <2>1 DEF IInv, TypeOK
  <2>. QED BY <1>0, <1>4, <1>5, <2>1, <2>2, ReturnKeeps
<1>6. CASE /\ dist < DictSz /\ CheckDist(ownd, dist)
           /\ \E n \in Lens : BeginCopy(n)
  <2>. PICK n \in Lens : BeginCopy(n)
    BY <1>6
  <2>1. dist <= Len(ownd.dst)
    <3>1. ownd \in OutWnd /\ Counted(ownd)
      BY DEF IInv, Good
    <3>2. ownd.buf_i \in Nat /\ Len(ownd.dst) \in Nat
      BY <3>1 DEF OutWnd, Window
    <3>3. CASE ownd.is_full
      BY <1>0, <1>6, <3>1, <3>2, <3>3, Constants DEF Counted
    <3>4. CASE ~ownd.is_full
      BY <1>6, <3>1, <3>4 DEF Counted, CheckDist
    <3>. QED BY <3>3, <3>4
  <2>2. \A j \in 0 .. 3 : rep'[j] = dist \/ \E i \in 0 .. 3 : rep'[j] = rep[i]
    BY <1>0
  <2>3. \A j \in 0 .. 3 : rep'[j] < DictSz /\ rep'[j] <= Len(ownd.dst)
    BY <1>0, <1>6, <2>1, <2>2 DEF IInv, Reach
  <2>. QED BY <1>0, <1>1, <1>2, <1>3, <1>4, <2>3, BeginCopyKeeps
<1>. QED BY <1>5, <1>6

LEMMA CopyByteStep == IInv /\ CopyByte => IInv'
<1>. SUFFICES ASSUME IInv, CopyByte PROVE IInv'
  OBVIOUS
<1>. DEFINE b == Byte(ownd, rep[0] + 1)
            r == [dist |-> rep[0] + 1, lit |-> 0]
<1>1. /\ b \in Bytes /\ r.dist = rep[0] + 1 /\ r.dist # 0
      /\ b = DataAt(ownd, Len(ownd.dst) + 1 - r.dist)
  BY RepByte, Constants DEF CopyByte
<1>2. /\ pc = "copy" /\ ownd' = Put(ownd, b) /\ copied' = copied + 1
      /\ from' = from /\ rep' = rep /\ len' = len /\ state' = state
      /\ last' = last /\ result' = result
  BY DEF CopyByte, history
<1>3. /\ copied < len /\ len <= unpack_sz
      /\ Len(from) = Len(ownd.dst) + len - copied
      /\ \A j \in Len(ownd.dst) + 1 .. Len(from) : from[j] = r
  BY <1>2 DEF IInv, Pending
<1>4. /\ Len(ownd.dst) \in Nat /\ len \in Nat /\ copied \in Nat /\ unpack_sz \in Nat
      /\ ownd.dst_len \in Nat /\ Len(from) \in Nat
  BY DEF IInv, TypeOK
<1>. HIDE DEF b, r
<1>5. /\ Good(ownd)' /\ Explained' /\ ownd' \in OutWnd
      /\ Len(ownd'.dst) = Len(ownd.dst) + 1
      /\ ownd'.dst_len = ownd.dst_len
  <2>1. b = IF r.dist = 0 THEN r.lit ELSE DataAt(ownd, Len(ownd.dst) + 1 - r.dist)
    BY <1>1
  <2>2. /\ Len(from') >= Len(ownd.dst) + 1
        /\ from'[Len(ownd.dst) + 1] = r
        /\ \A j \in 1 .. Len(ownd.dst) : from'[j] = from[j]
    BY <1>2, <1>3, <1>4
  <2>3. unpack_sz > 0 /\ (pc = "copy" => copied < unpack_sz) /\ pc # "done"
    BY <1>2, <1>3, <1>4
  <2>4. from' \in Seq([dist : Nat, lit : Bytes])
    BY <1>2 DEF IInv, TypeOK
  <2>. QED BY <1>1, <1>2, <2>1, <2>2, <2>3, <2>4, PutKeeps
<1>6. pc' \in {"packet", "copy"} /\ unpack_sz' \in Nat
  BY <1>2, <1>3, <1>4 DEF CopyByte
<1>7. TypeOK'
  BY <1>2, <1>4, <1>5, <1>6, SMTT(30) DEF IInv, TypeOK, OutWnd
<1>8. Reach'
  <2>1. \A k \in 0 .. 3 : rep[k] \in Nat /\ rep[k] < DictSz /\ rep[k] <= Len(ownd.dst)
    BY <1>2 DEF IInv, Reach, TypeOK
  <2>2. \A k \in 0 .. 3 : rep'[k] = rep[k]
    BY <1>2
  <2>3. Len(ownd'.dst) = Len(ownd.dst) + 1 /\ Len(ownd.dst) \in Nat
    BY <1>4, <1>5
  <2>4. ASSUME NEW k \in 0 .. 3 PROVE rep'[k] < DictSz /\ rep'[k] <= Len(ownd'.dst)
    <3>. DEFINE x == rep[k]
                n == Len(ownd.dst)
                m == Len(ownd'.dst)
    <3>1. x \in Nat /\ x < DictSz /\ x <= n /\ n \in Nat /\ m = n + 1 /\ rep'[k] = x
      BY <2>1, <2>2, <2>3
    <3>. HIDE DEF x, n, m
    <3>2. x <= m
      BY <3>1
    <3>. QED BY <3>1, <3>2, Zenon DEF m
  <2>. QED BY <2>4 DEF Reach
<1>9. Balance'
  <2>1. Len(ownd.dst) + unpack_sz = ownd.dst_len + copied
    BY <1>2 DEF IInv, Balance
  <2>2. CASE copied + 1 = len
    <3>1. pc' = "packet" /\ unpack_sz' = unpack_sz - len
      BY <2>2, <1>2 DEF CopyByte
    <3>2. Len(ownd'.dst) + unpack_sz' = ownd'.dst_len
      BY <3>1, <2>1, <2>2, <1>4, <1>5
    <3>3. ownd'.dst_len + 0 = ownd'.dst_len
      BY <1>4, <1>5
    <3>. QED BY <3>1, <3>2, <3>3 DEF Balance
  <2>3. CASE copied + 1 # len
    <3>1. pc' = "copy" /\ unpack_sz' = unpack_sz
      BY <2>3, <1>2 DEF CopyByte
    <3>2. Len(ownd'.dst) + unpack_sz' = ownd'.dst_len + copied'
      BY <3>1, <2>1, <1>2, <1>4, <1>5, SMTT(30)
    <3>. QED BY <3>1, <3>2 DEF Balance
  <2>. QED BY <2>2, <2>3
<1>10. Pending'
  <2>1. CASE copied + 1 = len
    <3>1. pc' = "packet"
      BY <2>1, <1>2 DEF CopyByte
    <3>2. Len(from') = Len(ownd'.dst)
      BY <2>1, <1>2, <1>3, <1>4, <1>5
    <3>. QED BY <3>1, <3>2 DEF Pending
  <2>2. CASE copied + 1 # len
    <3>1. pc' = "copy" /\ unpack_sz' = unpack_sz
      BY <2>2, <1>2 DEF CopyByte
    <3>2. \A j \in Len(ownd.dst) + 2 .. Len(from) : from[j] = r
      BY <1>3, <1>4
    <3>. QED BY <3>1, <3>2, <2>2, <1>2, <1>3, <1>4, <1>5 DEF Pending, r
  <2>. QED BY <2>1, <2>2
<1>11. Results'
  BY <1>2, <1>6 DEF IInv, Results
<1>. QED BY <1>5, <1>7, <1>8, <1>9, <1>10, <1>11 DEF IInv

LEMMA InvariantStep == IInv /\ [Next]_vars => IInv'
<1>. SUFFICES ASSUME IInv, [Next]_vars PROVE IInv'
  OBVIOUS
<1>1. CASE UNCHANGED vars
  BY <1>1 DEF vars, history, IInv, TypeOK, Explained, Reach, Balance, Pending, Results
<1>. QED BY <1>1, BeginStep, EndLoopStep, RefuseStep, LiteralStep, ShortRepStep,
           RepStep, MatchStep, CopyByteStep DEF Next

THEOREM InvariantHolds == Spec => []IInv
BY InvariantInit, InvariantStep, PTL DEF Spec

\* Whatever wraps around, the window holds the end of the data, and what may be
\* repeated lies in it, for any size of the window (lzma.cpp:31-65, 472).
THEOREM WindowCorrect == Spec => []WindowIsHistory
<1>1. IInv => WindowIsHistory
  BY DEF IInv, Good, Holds, DataAt, Reach, WindowIsHistory, Written, At
<1>. QED BY <1>1, InvariantHolds, PTL

\* The data is what the packets say, for any stream, window and destination
\* (lzma.cpp:40-60, 400-487).
THEOREM ExpansionCorrect == Spec => []Expansion
<1>1. IInv => Expansion
  BY DEF IInv, Good, Counted, DataAt, Explained, Balance, Pending, Results,
         Expansion, Written, At
<1>. QED BY <1>1, InvariantHolds, PTL

-----------------------------------------------------------------------------
(* Decoding ends: every packet unpacks at least one byte or is the last one, *)
(* and every round of a copy writes one.  This is DecEnds but for fairness.  *)

\* Twice the bytes still to be unpacked, and what the packet loop adds to it.
Left ==
    CASE pc = "begin" -> 2 * unpack_sz + 2
      [] pc = "packet" -> 2 * unpack_sz + 1
      [] pc = "copy" -> 2 * (unpack_sz - copied)
      [] pc = "done" -> 0

Lessens == Left \in Nat /\ Left' \in Nat /\ Left' < Left

Progress == [][Lessens]_vars

\* However long the stream and whatever it asks for, the decoder takes at most
\* 2 * unpack_sz + 2 steps: no packet may unpack nothing (lzma.cpp:400-487).
THEOREM ProgressCorrect == Spec => Progress
<1>1. ASSUME IInv, Next PROVE Lessens
  <2>1. unpack_sz \in Nat /\ len \in Nat /\ copied \in Nat
    BY <1>1 DEF IInv, TypeOK
  <2>2. ASSUME pc = "begin" \/ pc = "packet", pc' = "done"
        PROVE  Lessens
    BY <2>1, <2>2 DEF Left, Lessens
  <2>3. ASSUME NEW n \in Lens, pc = "packet", unpack_sz' = unpack_sz, BeginCopy(n)
        PROVE  Lessens
    <3>1. CASE pc' = "done"
      BY <2>2, <2>3, <3>1
    <3>2. CASE pc' = "copy" /\ copied' = 0
      BY <2>1, <2>3, <3>2 DEF Left, Lessens
    <3>. QED BY <2>3, <3>1, <3>2 DEF BeginCopy, Return
  <2>4. CASE Begin
    BY <2>1, <2>2, <2>4 DEF Begin, Return, Left, Lessens
  <2>5. CASE EndLoop \/ RefusePacket
    BY <2>2, <2>5 DEF EndLoop, RefusePacket, Finished, Return
  <2>6. CASE Literal \/ ShortRep
    BY <2>1, <2>6 DEF Literal, ShortRep, Left, Lessens
  <2>7. CASE Rep
    BY <2>3, <2>7 DEF Rep
  <2>8. CASE Match
    <3>1. pc = "packet" /\ unpack_sz' = unpack_sz
          /\ (pc' = "done" \/ \E n \in Lens : BeginCopy(n))
      BY <2>8 DEF Match, Finished, Return
    <3>. QED BY <2>2, <2>3, <3>1
  <2>9. CASE CopyByte
    <3>1. pc = "copy" /\ copied < len /\ len <= unpack_sz /\ copied' = copied + 1
      BY <1>1, <2>9 DEF CopyByte, IInv, Pending
    <3>2. \/ pc' = "packet" /\ unpack_sz' = unpack_sz - len /\ copied + 1 = len
          \/ pc' = "copy" /\ unpack_sz' = unpack_sz
      BY <2>9, <3>1 DEF CopyByte
    <3>. QED BY <2>1, <3>1, <3>2 DEF Left, Lessens
  <2>. QED BY <1>1, <2>4, <2>5, <2>6, <2>7, <2>8, <2>9 DEF Next
<1>2. IInv /\ [Next]_vars => [Lessens]_vars
  BY <1>1
<1>. QED BY <1>2, InvariantHolds, PTL DEF Spec, Progress

-----------------------------------------------------------------------------
\* The number of a kind of packet, in the states after it.
KindNumber(l) ==
    IF l.kind = "match" THEN 0
    ELSE IF l.behindLiteral /\ l.kind = "short" THEN 2 ELSE 1

StateOf(l) ==
    IF l.kind = "none" \/ l.literals = 3 THEN 0
    ELSE IF l.literals = 2 THEN 1 + KindNumber(l)
    ELSE IF l.literals = 1 THEN 4 + KindNumber(l)
    ELSE (IF l.behindLiteral THEN 7 ELSE 10) + KindNumber(l)

Packets == [kind : {"none", "match", "rep", "short"},
            behindLiteral : BOOLEAN, literals : 0 .. 3]

LEMMA StateIsStateOf ==
    ASSUME last \in Packets
    PROVE  StateMeansHistory <=> state = StateOf(last)
<1>. DEFINE kinds == [match |-> 0, rep |-> 1, short |-> 2]
            kind == IF last.behindLiteral THEN kinds[last.kind]
                    ELSE IF last.kind = "match" THEN 0 ELSE 1
<1>1. last.kind # "none" => kind = KindNumber(last)
  BY DEF Packets, KindNumber
<1>. HIDE DEF kind
<1>2. StateMeansHistory <=>
         state = IF last.kind = "none" \/ last.literals = 3 THEN 0
                 ELSE IF last.literals = 2 THEN 1 + kind
                 ELSE IF last.literals = 1 THEN 4 + kind
                 ELSE (IF last.behindLiteral THEN 7 ELSE 10) + kind
  BY DEF StateMeansHistory, kind
<1>. QED BY <1>1, <1>2 DEF StateOf

LEMMA StateAfterLiteral ==
    ASSUME NEW l \in Packets
    PROVE  AfterLiteral(StateOf(l)) =
              StateOf([l EXCEPT !.literals = IF @ = 3 THEN 3 ELSE @ + 1])
BY DEF Packets, StateOf, KindNumber, AfterLiteral

LEMMA StateAfterOther ==
    ASSUME NEW l \in Packets, NEW kind \in {"match", "rep", "short"},
           NEW m, m = [kind |-> kind, behindLiteral |-> l.kind = "none" \/ l.literals > 0,
                       literals |-> 0]
    PROVE  /\ kind = "match" => StateOf(m) = IF StateOf(l) < 7 THEN 7 ELSE 10
           /\ kind = "rep" => StateOf(m) = IF StateOf(l) < 7 THEN 8 ELSE 11
           /\ kind = "short" => StateOf(m) = IF StateOf(l) < 7 THEN 9 ELSE 11
<1>1. StateOf(l) < 7 <=> l.kind = "none" \/ l.literals > 0
  BY DEF Packets, StateOf, KindNumber
<1>2. StateOf(m) = (IF m.behindLiteral THEN 7 ELSE 10) + KindNumber(m)
  BY DEF StateOf
<1>3. m.kind = kind /\ (m.behindLiteral <=> StateOf(l) < 7)
  BY <1>1
<1>4. CASE StateOf(l) < 7
  BY <1>2, <1>3, <1>4 DEF KindNumber
<1>5. CASE ~(StateOf(l) < 7)
  BY <1>2, <1>3, <1>5 DEF KindNumber
<1>. QED BY <1>4, <1>5

\* The states mean the same after every stream: the history of all packets since
\* the last that is no literal (lzma.cpp:411-461).
THEOREM StateCorrect == Spec => []StateMeansHistory
<1>. DEFINE Inv == last \in Packets /\ state = StateOf(last)
<1>1. Init => Inv
  BY DEF Init, Packets, StateOf
<1>2. Inv /\ [Next]_vars => Inv'
  <2>. SUFFICES ASSUME Inv, [Next]_vars PROVE Inv'
    OBVIOUS
  <2>1. ASSUME UNCHANGED <<state, last>> PROVE Inv'
    BY <2>1
  <2>2. ASSUME NEW kind \in {"match", "rep", "short"}, last' = Noted(kind)
        PROVE  /\ last' \in Packets
               /\ last' = [kind |-> kind, literals |-> 0,
                           behindLiteral |-> last.kind = "none" \/ last.literals > 0]
    BY <2>2 DEF Noted, Packets
  <2>3. CASE Literal
    BY <2>3, StateAfterLiteral DEF Literal, Packets
  <2>4. CASE ShortRep
    <3>1. last' = Noted("short") /\ state' = IF state < 7 THEN 9 ELSE 11
      BY <2>4 DEF ShortRep
    <3>. QED BY <3>1, <2>2, StateAfterOther
  <2>5. CASE Rep
    <3>1. last' = Noted("rep") /\ state' = IF state < 7 THEN 8 ELSE 11
      BY <2>5 DEF Rep
    <3>. QED BY <3>1, <2>2, StateAfterOther
  <2>6. CASE Match
    <3>1. last' = Noted("match") /\ state' = IF state < 7 THEN 7 ELSE 10
      BY <2>6 DEF Match
    <3>. QED BY <3>1, <2>2, StateAfterOther
  <2>7. CASE Begin \/ EndLoop \/ RefusePacket \/ CopyByte \/ UNCHANGED vars
    BY <2>1, <2>7 DEF Begin, EndLoop, RefusePacket, CopyByte, vars, history
  <2>. QED BY <2>3, <2>4, <2>5, <2>6, <2>7 DEF Next
<1>3. Inv => StateMeansHistory
  BY StateIsStateOf
<1>. QED BY <1>1, <1>2, <1>3, PTL DEF Spec

\* RangeDecSound: the range decoder of any widths keeps its interval, its place
\* and its probabilities (lzma.cpp:118-167).
THEOREM RangeDecoderCorrect == Spec => []RangeDecSound
<1>1. RangeDecSound
  BY RangeDecSoundAlways DEF RangeDecSound
<1>2. Spec => []RangeDecSound
  BY <1>1, PTL
<1>. QED BY <1>2

-----------------------------------------------------------------------------
(* What a fold over the bits of a code computes, without RECURSIVE: the tree of the
   bits, from the root down, and the number of the reversed bits. *)

\* A set of naturals has a least member.
LEMMA LeastNat ==
    ASSUME NEW S \in SUBSET Nat, S # {}
    PROVE  \E m \in S : \A k \in S : m <= k
<1>. DEFINE R == OpToRel(<, Nat)
<1>1. \E x \in S : \A y \in S : ~ (<<y, x>> \in R)
  BY NatLessThanWellFounded, WFMin
<1>2. \A a, b \in Nat : a < b => <<a, b>> \in R
  BY DEF OpToRel
<1>. HIDE DEF R
<1>3. PICK x \in S : \A y \in S : ~ (<<y, x>> \in R)
  BY <1>1
<1>4. \A y \in S : ~(y < x)
  BY <1>2, <1>3
<1>. QED BY <1>4

\* Induction up to n, as a fact about sets.
LEMMA Upwards ==
    ASSUME NEW n \in Nat, NEW S, 0 \in S,
           \A k \in 0 .. n - 1 : k \in S => k + 1 \in S
    PROVE  0 .. n \subseteq S
<1>. SUFFICES ASSUME 0 .. n \ S # {} PROVE FALSE
  OBVIOUS
<1>1. 0 .. n \ S \in SUBSET Nat
  OBVIOUS
<1>2. PICK m \in 0 .. n \ S : \A k \in 0 .. n \ S : m <= k
  BY <1>1, LeastNat
<1>3. m - 1 \in 0 .. n - 1 /\ m - 1 + 1 = m
  BY <1>2
<1>4. m - 1 \in S
  BY <1>2, <1>3
<1>. QED BY <1>2, <1>3, <1>4

LEMMA MaxIs ==
    ASSUME NEW s \in SUBSET Int, NEW m \in s, \A y \in s : m >= y
    PROVE  Max(s) = m
<1>1. \E x \in s : \A y \in s : x >= y
  OBVIOUS
<1>2. Max(s) \in s /\ \A y \in s : Max(s) >= y
  BY <1>1 DEF Max
<1>3. Max(s) \in Int /\ m \in Int /\ Max(s) >= m /\ m >= Max(s)
  BY <1>2
<1>. QED BY <1>3

\* The greatest of some places up to n + 1 is n + 1, or one of the others.
LEMMA MaxBelow ==
    ASSUME NEW n \in Nat, NEW s \in SUBSET (1 .. n), s # {}
    PROVE  Max(s) \in s /\ \A y \in s : y <= Max(s)
<1>. DEFINE T == {n - x : x \in s}
<1>1. T \in SUBSET Nat /\ T # {}
  <2>1. \A x \in s : x \in Int /\ n - x \in Nat
    OBVIOUS
  <2>. QED BY <2>1
<1>2. PICK m \in T : \A k \in T : m <= k
  BY <1>1, LeastNat
<1>3. PICK x \in s : m = n - x
  BY <1>2
<1>4. ASSUME NEW y \in s PROVE x >= y
  <2>1. n - y \in T
    OBVIOUS
  <2>2. m <= n - y
    BY <1>2, <2>1
  <2>. QED BY <1>3, <2>2
<1>. QED BY <1>4 DEF Max

\* g folds the steps F from base on, over sets of places, the highest last.
Folds(F, base, n, g) ==
    g = [s \in SUBSET (1 .. n) |->
            IF s = {} THEN base ELSE F[Max(s)][g[s \ {Max(s)}]]]

LEMMA FoldExists ==
    ASSUME NEW V, NEW base \in V, NEW n \in Nat, NEW F \in [1 .. n -> [V -> V]]
    PROVE  \E g \in [SUBSET (1 .. n) -> V] : Folds(F, base, n, g)
<1>. DEFINE S == {k \in 0 .. n : \E g \in [SUBSET (1 .. k) -> V] : Folds(F, base, k, g)}
<1>1. 0 \in S
  <2>. DEFINE g == [s \in SUBSET (1 .. 0) |-> base]
  <2>1. \A s \in SUBSET (1 .. 0) : s = {}
    OBVIOUS
  <2>2. g \in [SUBSET (1 .. 0) -> V] /\ Folds(F, base, 0, g)
    BY <2>1 DEF Folds
  <2>. QED BY <2>2
<1>2. ASSUME NEW k \in 0 .. n - 1, k \in S PROVE k + 1 \in S
  <2>1. PICK g \in [SUBSET (1 .. k) -> V] : Folds(F, base, k, g)
    BY <1>2
  <2>. DEFINE h == [s \in SUBSET (1 .. k + 1) |->
                      IF k + 1 \in s THEN F[k + 1][g[s \ {k + 1}]] ELSE g[s]]
  <2>2. F[k + 1] \in [V -> V]
    OBVIOUS
  <2>3. ASSUME NEW s \in SUBSET (1 .. k + 1)
        PROVE  /\ h[s] \in V
               /\ h[s] = IF s = {} THEN base ELSE F[Max(s)][h[s \ {Max(s)}]]
    <3>1. CASE k + 1 \in s
      <4>1. Max(s) = k + 1
        BY <3>1, MaxIs
      <4>2. s \ {k + 1} \in SUBSET (1 .. k)
        OBVIOUS
      <4>3. h[s \ {k + 1}] = g[s \ {k + 1}] /\ h[s] = F[k + 1][g[s \ {k + 1}]]
        BY <3>1, <4>2
      <4>. QED BY <2>2, <3>1, <4>1, <4>2, <4>3
    <3>2. CASE k + 1 \notin s
      <4>1. s \in SUBSET (1 .. k) /\ h[s] = g[s]
        BY <3>2
      <4>2. g[s] = IF s = {} THEN base ELSE F[Max(s)][g[s \ {Max(s)}]]
        BY <2>1, <4>1 DEF Folds
      <4>3. h[s \ {Max(s)}] = g[s \ {Max(s)}]
        <5>1. s \ {Max(s)} \in SUBSET (1 .. k)
          BY <4>1
        <5>2. \A u \in SUBSET (1 .. k) : u \in SUBSET (1 .. k + 1) /\ k + 1 \notin u
          OBVIOUS
        <5>. QED BY <5>1, <5>2
      <4>. QED BY <4>1, <4>2, <4>3
    <3>. QED BY <3>1, <3>2
  <2>. HIDE DEF h
  <2>4. h \in [SUBSET (1 .. k + 1) -> V]
    BY <2>3 DEF h
  <2>5. Folds(F, base, k + 1, h)
    BY <2>3, <2>4 DEF Folds
  <2>. QED BY <2>4, <2>5
<1>3. n \in S
  <2>. HIDE DEF S
  <2>1. 0 .. n \subseteq S
    BY <1>1, <1>2, Upwards
  <2>. QED BY <2>1
<1>. QED BY <1>3

\* The places up to k, the last of which a fold takes last.
LEMMA PlacesUpTo ==
    ASSUME NEW n \in Nat, NEW k \in 1 .. n
    PROVE  /\ 1 .. k \in SUBSET (1 .. n) /\ 1 .. k # {}
           /\ Max(1 .. k) = k
           /\ (1 .. k) \ {k} = 1 .. k - 1
<1>1. k \in 1 .. k /\ (\A y \in 1 .. k : k >= y) /\ 1 .. k \in SUBSET Int
  OBVIOUS
<1>2. Max(1 .. k) = k
  BY <1>1, MaxIs
<1>. QED BY <1>2

LEMMA NodeIs ==
    ASSUME NEW n \in Nat, NEW code \in Codes(n)
    PROVE  Node(code) = (CHOOSE g : g = [s \in SUBSET (1 .. n) |->
              IF s = {} THEN 1 ELSE 2 * g[s \ {Max(s)}] + code[Max(s)]])[1 .. n]
BY DEF Codes, Node, FoldLeft, MapThenFoldSet

\* The bits are read in order; h[k] is the node after k of them.
Descends(h, n, code) ==
    /\ h[0] = 1
    /\ \A k \in 1 .. n : h[k] = 2 * h[k - 1] + code[k]
    /\ h[n] = Node(code)

LEMMA NodeSteps ==
    ASSUME NEW n \in Nat, NEW code \in Codes(n)
    PROVE  \E h : Descends(h, n, code)
<1>. DEFINE Eq(g) == g = [s \in SUBSET (1 .. n) |->
                IF s = {} THEN 1 ELSE 2 * g[s \ {Max(s)}] + code[Max(s)]]
            F == [k \in 1 .. n |-> [m \in Nat |-> 2 * m + code[k]]]
<1>1. \A k \in 1 .. n : code[k] \in Nat
  BY DEF Codes
<1>2. F \in [1 .. n -> [Nat -> Nat]]
  BY <1>1
<1>3. PICK f \in [SUBSET (1 .. n) -> Nat] : Folds(F, 1, n, f)
  <2>. HIDE DEF F
  <2>. QED BY <1>2, FoldExists
<1>4. Eq(f)
  <2>1. \A s \in SUBSET (1 .. n) :
           f[s] = IF s = {} THEN 1 ELSE F[Max(s)][f[s \ {Max(s)}]]
    BY <1>3 DEF Folds
  <2>2. ASSUME NEW s \in SUBSET (1 .. n), s # {}
        PROVE  F[Max(s)][f[s \ {Max(s)}]] = 2 * f[s \ {Max(s)}] + code[Max(s)]
    <3>1. Max(s) \in 1 .. n
      BY <2>2, MaxBelow
    <3>2. f[s \ {Max(s)}] \in Nat
      OBVIOUS
    <3>. QED BY <3>1, <3>2
  <2>. HIDE DEF F
  <2>3. \A s \in SUBSET (1 .. n) :
           f[s] = IF s = {} THEN 1 ELSE 2 * f[s \ {Max(s)}] + code[Max(s)]
    BY <2>1, <2>2
  <2>. QED BY <2>3
<1>. DEFINE G == CHOOSE g : Eq(g)
<1>5. Eq(G)
  <2>. HIDE DEF Eq
  <2>. QED BY <1>4
<1>6. G[1 .. n] = Node(code)
  BY NodeIs
<1>. HIDE DEF G
<1>7. \A s \in SUBSET (1 .. n) :
         G[s] = IF s = {} THEN 1 ELSE 2 * G[s \ {Max(s)}] + code[Max(s)]
  BY <1>5
<1>8. \A k \in 1 .. n : G[1 .. k] = 2 * G[1 .. k - 1] + code[k]
  BY <1>7, PlacesUpTo
<1>9. G[1 .. 0] = 1
  <2>1. 1 .. 0 = {}
    OBVIOUS
  <2>. QED BY <1>7, <2>1
<1>10. Descends([k \in 0 .. n |-> G[1 .. k]], n, code)
  BY <1>6, <1>8, <1>9 DEF Descends
<1>. QED BY <1>10

\* One more bit.
LEMMA NodeOfNone == ASSUME NEW code \in Codes(0) PROVE Node(code) = 1
<1>1. PICK h : Descends(h, 0, code)
  BY NodeSteps
<1>. QED BY <1>1 DEF Descends

LEMMA NodeOfMore ==
    ASSUME NEW n \in Nat, NEW code \in Codes(n + 1), NEW p \in Codes(n),
           \A k \in 1 .. n : p[k] = code[k]
    PROVE  Node(code) = 2 * Node(p) + code[n + 1]
<1>1. PICK h : Descends(h, n + 1, code)
  BY NodeSteps
<1>2. PICK q : Descends(q, n, p)
  BY NodeSteps
<1>. USE DEF Descends
<1>. DEFINE S == {k \in 0 .. n : h[k] = q[k]}
<1>3. 0 \in S
  BY <1>1, <1>2
<1>4. ASSUME NEW k \in 0 .. n - 1, k \in S PROVE k + 1 \in S
  <2>1. k + 1 \in 1 .. n /\ k + 1 \in 1 .. n + 1 /\ (k + 1) - 1 = k
    OBVIOUS
  <2>. QED BY <1>1, <1>2, <1>4, <2>1
<1>5. n \in S
  <2>. HIDE DEF S
  <2>. QED BY <1>3, <1>4, Upwards
<1>6. n + 1 \in 1 .. n + 1 /\ (n + 1) - 1 = n
  OBVIOUS
<1>. QED BY <1>1, <1>2, <1>5, <1>6

\* The powers of two that occur.
Power(n) == 2 ^ n

LEMMA Powers ==
    ASSUME NEW n \in 0 .. 32
    PROVE  2 ^ n \in Nat /\ 2 ^ n >= 1 /\ 2 ^ (n + 1) = 2 * 2 ^ n
<1>1. /\ Power(0) = 1 /\ Power(1) = 2 /\ Power(2) = 4 /\ Power(3) = 8
      /\ Power(4) = 16 /\ Power(5) = 32 /\ Power(6) = 64 /\ Power(7) = 128
      /\ Power(8) = 256 /\ Power(9) = 512 /\ Power(10) = 1024 /\ Power(11) = 2048
      /\ Power(12) = 4096 /\ Power(13) = 8192 /\ Power(14) = 16384 /\ Power(15) = 32768
      /\ Power(16) = 65536 /\ Power(17) = 131072 /\ Power(18) = 262144 /\ Power(19) = 524288
      /\ Power(20) = 1048576 /\ Power(21) = 2097152 /\ Power(22) = 4194304 /\ Power(23) = 8388608
      /\ Power(24) = 16777216 /\ Power(25) = 33554432 /\ Power(26) = 67108864 /\ Power(27) = 134217728
      /\ Power(28) = 268435456 /\ Power(29) = 536870912 /\ Power(30) = 1073741824 /\ Power(31) = 2147483648
      /\ Power(32) = 4294967296 /\ Power(33) = 8589934592
  BY DEF Power
<1>2. Power(n) \in Nat /\ Power(n) >= 1 /\ Power(n + 1) = 2 * Power(n)
  BY <1>1
<1>. QED BY <1>2 DEF Power

\* The first n bits of a code.
First(code, n) == [k \in 1 .. n |-> code[k]]

LEMMA FirstIs ==
    ASSUME NEW n \in Nat, NEW code \in Codes(n + 1)
    PROVE  /\ First(code, n) \in Codes(n) /\ code[n + 1] \in {0, 1}
           /\ Node(code) = 2 * Node(First(code, n)) + code[n + 1]
<1>1. First(code, n) \in Codes(n) /\ code[n + 1] \in {0, 1}
  BY DEF First, Codes
<1>2. \A k \in 1 .. n : First(code, n)[k] = code[k]
  BY DEF First
<1>. QED BY <1>1, <1>2, NodeOfMore

\* A code of one bit more; it is given by its first bits and its last.
Longer(p, n, bit) == [k \in 1 .. n + 1 |-> IF k = n + 1 THEN bit ELSE p[k]]

LEMMA LongerIs ==
    ASSUME NEW n \in Nat, NEW p \in Codes(n), NEW bit \in {0, 1}
    PROVE  /\ Longer(p, n, bit) \in Codes(n + 1)
           /\ First(Longer(p, n, bit), n) = p
           /\ Longer(p, n, bit)[n + 1] = bit
<1>1. Longer(p, n, bit) \in Codes(n + 1) /\ Longer(p, n, bit)[n + 1] = bit
  BY DEF Longer, Codes
<1>2. \A k \in 1 .. n : Longer(p, n, bit)[k] = p[k]
  BY DEF Longer
<1>3. p = [k \in 1 .. n |-> p[k]]
  BY DEF Codes
<1>. QED BY <1>1, <1>2, <1>3 DEF First

LEMMA SameCode ==
    ASSUME NEW n \in Nat, NEW c \in Codes(n + 1), NEW d \in Codes(n + 1),
           First(c, n) = First(d, n), c[n + 1] = d[n + 1]
    PROVE  c = d
<1>1. \A k \in 1 .. n : c[k] = First(c, n)[k] /\ d[k] = First(d, n)[k]
  BY DEF First
<1>2. \A k \in 1 .. n + 1 : k \in 1 .. n \/ k = n + 1
  OBVIOUS
<1>3. \A k \in 1 .. n + 1 : c[k] = d[k]
  BY <1>1, <1>2
<1>. QED BY <1>3 DEF Codes

\* The codes of n bits have the nodes of their level of the tree, one each.
NodesExact(n) ==
    /\ \A c \in Codes(n) : Node(c) \in 2 ^ n .. 2 ^ (n + 1) - 1
    /\ \A c, d \in Codes(n) : Node(c) = Node(d) => c = d
    /\ \A v \in 2 ^ n .. 2 ^ (n + 1) - 1 : \E c \in Codes(n) : Node(c) = v

LEMMA NoCodes == \A c, d \in Codes(0) : c = d
BY DEF Codes

LEMMA NodesOfLevel == ASSUME NEW n \in 0 .. 32 PROVE NodesExact(n)
<1>. DEFINE S == {k \in 0 .. 32 : NodesExact(k)}
<1>1. 0 \in S
  <2>1. 2 ^ 0 = 1 /\ 2 ^ (0 + 1) - 1 = 1
    OBVIOUS
  <2>2. <<>> \in Codes(0)
    BY DEF Codes
  <2>. QED BY <2>1, <2>2, NoCodes, NodeOfNone DEF NodesExact
<1>2. ASSUME NEW k \in 0 .. 31, k \in S PROVE k + 1 \in S
  <2>. DEFINE q == 2 ^ k
              r == 2 ^ (k + 1)
              t == 2 ^ (k + 1 + 1)
  <2>1. q \in Nat /\ q >= 1 /\ r = 2 * q /\ t = 2 * r /\ k \in Nat
    <3>1. k \in 0 .. 32 /\ k + 1 \in 0 .. 32
      OBVIOUS
    <3>2. q \in Nat /\ q >= 1 /\ r = 2 * q
      BY <3>1, Powers
    <3>3. t = 2 * r
      BY <3>1, Powers
    <3>. QED BY <3>1, <3>2, <3>3
  <2>2. /\ \A c \in Codes(k) : Node(c) \in q .. r - 1
        /\ \A c, d \in Codes(k) : Node(c) = Node(d) => c = d
        /\ \A v \in q .. r - 1 : \E c \in Codes(k) : Node(c) = v
    BY <1>2 DEF NodesExact
  <2>. HIDE DEF q, r, t
  <2>3. ASSUME NEW c \in Codes(k + 1) PROVE Node(c) \in r .. t - 1
    <3>1. /\ Node(First(c, k)) \in q .. r - 1 /\ c[k + 1] \in {0, 1}
          /\ Node(c) = 2 * Node(First(c, k)) + c[k + 1]
      BY <2>1, <2>2, FirstIs
    <3>. QED BY <2>1, <3>1
  <2>4. ASSUME NEW c \in Codes(k + 1), NEW d \in Codes(k + 1), Node(c) = Node(d)
        PROVE  c = d
    <3>1. /\ First(c, k) \in Codes(k) /\ c[k + 1] \in {0, 1}
          /\ Node(c) = 2 * Node(First(c, k)) + c[k + 1]
          /\ First(d, k) \in Codes(k) /\ d[k + 1] \in {0, 1}
          /\ Node(d) = 2 * Node(First(d, k)) + d[k + 1]
      BY <2>1, FirstIs
    <3>2. Node(First(c, k)) \in Nat /\ Node(First(d, k)) \in Nat
      BY <2>1, <2>2, <3>1
    <3>3. Node(First(c, k)) = Node(First(d, k)) /\ c[k + 1] = d[k + 1]
      <4>1. \A a, b \in Nat : \A x, y \in {0, 1} :
               2 * a + x = 2 * b + y => a = b /\ x = y
        OBVIOUS
      <4>. QED BY <2>4, <3>1, <3>2, <4>1
    <3>. QED BY <2>1, <2>2, <3>1, <3>3, SameCode
  <2>5. ASSUME NEW v \in r .. t - 1 PROVE \E c \in Codes(k + 1) : Node(c) = v
    <3>1. v \div 2 \in q .. r - 1 /\ v % 2 \in {0, 1} /\ v = 2 * (v \div 2) + (v % 2)
      BY <2>1
    <3>2. PICK p \in Codes(k) : Node(p) = v \div 2
      BY <2>2, <3>1
    <3>3. /\ Longer(p, k, v % 2) \in Codes(k + 1)
          /\ First(Longer(p, k, v % 2), k) = p
          /\ Longer(p, k, v % 2)[k + 1] = v % 2
      BY <2>1, <3>1, LongerIs
    <3>4. Node(Longer(p, k, v % 2)) = 2 * Node(p) + (v % 2)
      BY <2>1, <3>3, FirstIs
    <3>. QED BY <3>1, <3>2, <3>3, <3>4
  <2>. QED BY <2>3, <2>4, <2>5 DEF NodesExact, r, t
<1>3. 0 .. 32 \subseteq S
  <2>. HIDE DEF S
  <2>1. \A k \in 0 .. 32 - 1 : k \in S => k + 1 \in S
    BY <1>2
  <2>. QED BY <1>1, <2>1, Upwards
<1>. QED BY <1>3

\* bit_tree_reverse_dec reads the lowest bit first; h[k] is the symbol after k.
Adds(h, n, code) ==
    /\ h[0] = 0
    /\ \A k \in 1 .. n : h[k] = h[k - 1] + code[k] * 2 ^ (k - 1)
    /\ h[n] = ReverseDec(code)

Places(n) == [i \in 1 .. n |-> i]

ReverseSyms(g, n, code) ==
    g = [s \in SUBSET (1 .. n) |->
            IF s = {} THEN 0
            ELSE g[s \ {Max(s)}] + code[Places(n)[Max(s)]] * 2 ^ (Places(n)[Max(s)] - 1)]

LEMMA ReverseDecIs ==
    ASSUME NEW n \in Nat, NEW code \in Codes(n)
    PROVE  ReverseDec(code) = (CHOOSE g : ReverseSyms(g, n, code))[1 .. n]
<1>1. Len(code) = n
  BY DEF Codes
<1>. QED BY <1>1 DEF ReverseDec, FoldLeft, MapThenFoldSet, ReverseSyms, Places

LEMMA ReverseSteps ==
    ASSUME NEW n \in Nat, n \in 0 .. 32, NEW code \in Codes(n)
    PROVE  \E h : Adds(h, n, code)
<1>. DEFINE F == [k \in 1 .. n |-> [m \in Nat |-> m + code[k] * 2 ^ (k - 1)]]
<1>1. ASSUME NEW k \in 1 .. n PROVE code[k] * 2 ^ (k - 1) \in Nat /\ Places(n)[k] = k
  <2>1. k - 1 \in 0 .. 32 /\ code[k] \in {0, 1}
    BY DEF Codes
  <2>2. 2 ^ (k - 1) \in Nat
    BY <2>1, Powers
  <2>. QED BY <2>1, <2>2 DEF Places
<1>2. F \in [1 .. n -> [Nat -> Nat]]
  BY <1>1
<1>3. PICK f \in [SUBSET (1 .. n) -> Nat] : Folds(F, 0, n, f)
  <2>. HIDE DEF F
  <2>. QED BY <1>2, FoldExists
<1>4. ReverseSyms(f, n, code)
  <2>1. \A s \in SUBSET (1 .. n) :
           f[s] = IF s = {} THEN 0 ELSE F[Max(s)][f[s \ {Max(s)}]]
    BY <1>3 DEF Folds
  <2>2. ASSUME NEW s \in SUBSET (1 .. n), s # {}
        PROVE  F[Max(s)][f[s \ {Max(s)}]]
                  = f[s \ {Max(s)}] + code[Places(n)[Max(s)]] * 2 ^ (Places(n)[Max(s)] - 1)
    <3>0. Max(s) \in 1 .. n
      BY <2>2, MaxBelow
    <3>1. Places(n)[Max(s)] = Max(s)
      BY <1>1, <3>0
    <3>2. f[s \ {Max(s)}] \in Nat
      OBVIOUS
    <3>3. F[Max(s)][f[s \ {Max(s)}]] = f[s \ {Max(s)}] + code[Max(s)] * 2 ^ (Max(s) - 1)
      BY <3>0, <3>2
    <3>. QED BY <3>1, <3>3
  <2>. HIDE DEF F
  <2>3. \A s \in SUBSET (1 .. n) :
           f[s] = IF s = {} THEN 0
                  ELSE f[s \ {Max(s)}] + code[Places(n)[Max(s)]] * 2 ^ (Places(n)[Max(s)] - 1)
    BY <2>1, <2>2
  <2>. QED BY <2>3 DEF ReverseSyms
<1>. DEFINE G == CHOOSE g : ReverseSyms(g, n, code)
<1>5. ReverseSyms(G, n, code)
  BY <1>4
<1>6. G[1 .. n] = ReverseDec(code)
  BY ReverseDecIs
<1>. HIDE DEF G
<1>7. \A s \in SUBSET (1 .. n) :
         G[s] = IF s = {} THEN 0
                ELSE G[s \ {Max(s)}] + code[Places(n)[Max(s)]] * 2 ^ (Places(n)[Max(s)] - 1)
  BY <1>5 DEF ReverseSyms
<1>8. ASSUME NEW k \in 1 .. n PROVE G[1 .. k] = G[1 .. k - 1] + code[k] * 2 ^ (k - 1)
  <2>. DEFINE s == 1 .. k
  <2>1. k \in Nat /\ k >= 1 /\ Places(n)[k] = k
    BY <1>1
  <2>2. s \in SUBSET (1 .. n) /\ s # {} /\ Max(s) = k /\ s \ {Max(s)} = 1 .. k - 1
    BY <2>1, PlacesUpTo
  <2>. HIDE DEF s
  <2>3. G[s] = G[s \ {Max(s)}] + code[Places(n)[Max(s)]] * 2 ^ (Places(n)[Max(s)] - 1)
    BY <1>7, <2>2
  <2>. QED BY <2>1, <2>2, <2>3 DEF s
<1>9. G[1 .. 0] = 0
  <2>1. 1 .. 0 = {}
    OBVIOUS
  <2>. QED BY <1>7, <2>1
<1>10. Adds([k \in 0 .. n |-> G[1 .. k]], n, code)
  BY <1>6, <1>8, <1>9 DEF Adds
<1>. QED BY <1>10

LEMMA ReverseOfNone == ASSUME NEW code \in Codes(0) PROVE ReverseDec(code) = 0
<1>1. PICK h : Adds(h, 0, code)
  BY ReverseSteps
<1>. QED BY <1>1 DEF Adds

LEMMA ReverseOfMore ==
    ASSUME NEW n \in 0 .. 31, NEW code \in Codes(n + 1)
    PROVE  ReverseDec(code) = ReverseDec(First(code, n)) + code[n + 1] * 2 ^ n
<1>0. n \in Nat /\ n \in 0 .. 32 /\ n + 1 \in 0 .. 32
  OBVIOUS
<1>. DEFINE p == First(code, n)
<1>1. p \in Codes(n) /\ \A k \in 1 .. n : p[k] = code[k]
  BY <1>0, FirstIs DEF First
<1>. HIDE DEF p
<1>2. PICK h : Adds(h, n + 1, code)
  BY <1>0, ReverseSteps
<1>3. PICK q : Adds(q, n, p)
  BY <1>0, <1>1, ReverseSteps
<1>. USE DEF Adds
<1>. DEFINE S == {k \in 0 .. n : h[k] = q[k]}
<1>4. 0 \in S
  BY <1>0, <1>2, <1>3
<1>5. ASSUME NEW k \in 0 .. n - 1, k \in S PROVE k + 1 \in S
  <2>1. k + 1 \in 1 .. n /\ k + 1 \in 1 .. n + 1 /\ (k + 1) - 1 = k
    BY <1>0
  <2>. QED BY <1>1, <1>2, <1>3, <1>5, <2>1
<1>6. n \in S
  <2>. HIDE DEF S
  <2>. QED BY <1>0, <1>4, <1>5, Upwards
<1>7. n + 1 \in 1 .. n + 1 /\ (n + 1) - 1 = n
  BY <1>0
<1>. QED BY <1>2, <1>3, <1>6, <1>7 DEF p

\* What each code of n bits means, when its lowest bit comes first.
ReverseExact(n) ==
    /\ \A c \in Codes(n) : ReverseDec(c) \in 0 .. 2 ^ n - 1
    /\ \A c, d \in Codes(n) : ReverseDec(c) = ReverseDec(d) => c = d
    /\ \A v \in 0 .. 2 ^ n - 1 : \E c \in Codes(n) : ReverseDec(c) = v

LEMMA ReverseOfLevel == ASSUME NEW n \in 0 .. 32 PROVE ReverseExact(n)
<1>. DEFINE S == {k \in 0 .. 32 : ReverseExact(k)}
<1>1. 0 \in S
  <2>1. 2 ^ 0 - 1 = 0
    OBVIOUS
  <2>2. <<>> \in Codes(0)
    BY DEF Codes
  <2>. QED BY <2>1, <2>2, NoCodes, ReverseOfNone DEF ReverseExact
<1>2. ASSUME NEW k \in 0 .. 31, k \in S PROVE k + 1 \in S
  <2>. DEFINE q == 2 ^ k
              r == 2 ^ (k + 1)
  <2>1. q \in Nat /\ q >= 1 /\ r = 2 * q /\ k \in Nat
    <3>1. k \in 0 .. 32 /\ k \in Nat
      OBVIOUS
    <3>2. q \in Nat /\ q >= 1 /\ r = 2 * q
      BY <3>1, Powers
    <3>. QED BY <3>1, <3>2
  <2>2. /\ \A c \in Codes(k) : ReverseDec(c) \in 0 .. q - 1
        /\ \A c, d \in Codes(k) : ReverseDec(c) = ReverseDec(d) => c = d
        /\ \A v \in 0 .. q - 1 : \E c \in Codes(k) : ReverseDec(c) = v
    BY <1>2 DEF ReverseExact
  <2>3. ASSUME NEW c \in Codes(k + 1)
        PROVE  /\ First(c, k) \in Codes(k) /\ c[k + 1] \in {0, 1}
               /\ ReverseDec(First(c, k)) \in 0 .. q - 1
               /\ ReverseDec(c) = ReverseDec(First(c, k)) + c[k + 1] * q
    BY <2>1, <2>2, FirstIs, ReverseOfMore
  <2>. HIDE DEF q, r
  <2>4. ASSUME NEW c \in Codes(k + 1) PROVE ReverseDec(c) \in 0 .. r - 1
    BY <2>1, <2>3
  <2>5. ASSUME NEW c \in Codes(k + 1), NEW d \in Codes(k + 1), ReverseDec(c) = ReverseDec(d)
        PROVE  c = d
    <3>1. \A a, b \in 0 .. q - 1 : \A x, y \in {0, 1} : a + x * q = b + y * q => a = b /\ x = y
      BY <2>1
    <3>2. ReverseDec(First(c, k)) = ReverseDec(First(d, k)) /\ c[k + 1] = d[k + 1]
      BY <2>3, <2>5, <3>1
    <3>. QED BY <2>1, <2>2, <2>3, <3>2, SameCode
  <2>6. ASSUME NEW v \in 0 .. r - 1 PROVE \E c \in Codes(k + 1) : ReverseDec(c) = v
    <3>1. PICK bit \in {0, 1}, low \in 0 .. q - 1 : v = low + bit * q
      <4>1. CASE v < q
        BY <2>1, <4>1
      <4>2. CASE v >= q
        <5>1. v - q \in 0 .. q - 1 /\ v = (v - q) + 1 * q
          BY <2>1, <4>2
        <5>. QED BY <5>1
      <4>. QED BY <2>1, <4>1, <4>2
    <3>2. PICK p \in Codes(k) : ReverseDec(p) = low
      BY <2>2
    <3>3. /\ Longer(p, k, bit) \in Codes(k + 1)
          /\ First(Longer(p, k, bit), k) = p
          /\ Longer(p, k, bit)[k + 1] = bit
      BY <2>1, LongerIs
    <3>. QED BY <2>3, <3>1, <3>2, <3>3
  <2>. QED BY <2>4, <2>5, <2>6 DEF ReverseExact, r
<1>3. 0 .. 32 \subseteq S
  <2>. HIDE DEF S
  <2>1. \A k \in 0 .. 32 - 1 : k \in S => k + 1 \in S
    BY <1>2
  <2>. QED BY <1>1, <2>1, Upwards
<1>. QED BY <1>3

-----------------------------------------------------------------------------
(* Parts of a code, and codes put together. *)

\* A code, a part of it and two of them in a row, as sequences.
LEMMA CodeIsSeq ==
    ASSUME NEW n \in Nat, NEW c \in Codes(n)
    PROVE  c \in Seq({0, 1}) /\ Len(c) = n
BY DEF Codes

LEMMA PartIs ==
    ASSUME NEW n \in Nat, NEW c \in Codes(n), NEW a \in 1 .. n + 1, NEW m \in Nat,
           a + m - 1 <= n
    PROVE  /\ SubSeq(c, a, a + m - 1) \in Codes(m)
           /\ \A i \in 1 .. m : SubSeq(c, a, a + m - 1)[i] = c[i + a - 1]
<1>1. c \in Seq({0, 1}) /\ Len(c) = n
  BY CodeIsSeq
<1>. DEFINE b == a + m - 1
            s == SubSeq(c, a, b)
<1>2. Len(s) = m
  BY <1>1
<1>3. \A i \in 1 .. m : s[i] = c[i + a - 1]
  BY <1>1
<1>4. s \in Seq({0, 1})
  BY <1>1
<1>. HIDE DEF s
<1>5. s \in [1 .. m -> {0, 1}]
  BY <1>2, <1>4
<1>. QED BY <1>3, <1>5 DEF Codes, s

LEMMA JoinIs ==
    ASSUME NEW m \in Nat, NEW n \in Nat, NEW p \in Codes(m), NEW q \in Codes(n)
    PROVE  /\ p \o q \in Codes(m + n) /\ Len(p \o q) = m + n
           /\ \A i \in 1 .. m : (p \o q)[i] = p[i]
           /\ \A i \in 1 .. n : (p \o q)[m + i] = q[i]
<1>1. p \in Seq({0, 1}) /\ Len(p) = m /\ q \in Seq({0, 1}) /\ Len(q) = n
  BY CodeIsSeq
<1>2. p \o q \in Seq({0, 1}) /\ Len(p \o q) = m + n
  BY <1>1
<1>3. /\ \A i \in 1 .. m : (p \o q)[i] = p[i]
      /\ \A i \in 1 .. n : (p \o q)[m + i] = q[i]
  BY <1>1
<1>4. p \o q \in Codes(m + n)
  <2>. DEFINE c == p \o q
              l == m + n
  <2>1. c \in Seq({0, 1}) /\ Len(c) = l /\ l \in Nat
    BY <1>2
  <2>. HIDE DEF c, l
  <2>2. c \in Codes(l)
    BY <2>1 DEF Codes
  <2>. QED BY <2>2 DEF c, l
<1>. QED BY <1>2, <1>3, <1>4

\* A code is given by its bits.
LEMMA SameBits ==
    ASSUME NEW n \in Nat, NEW c \in Codes(n), NEW d \in Codes(n),
           \A i \in 1 .. n : c[i] = d[i]
    PROVE  c = d
BY DEF Codes

LEMMA JoinParts ==
    ASSUME NEW m \in Nat, NEW n \in Nat, NEW p \in Codes(m), NEW q \in Codes(n)
    PROVE  SubSeq(p \o q, 1, m) = p /\ SubSeq(p \o q, m + 1, m + n) = q
<1>. DEFINE c == p \o q
<1>1. /\ c \in Codes(m + n)
      /\ \A i \in 1 .. m : c[i] = p[i]
      /\ \A i \in 1 .. n : c[m + i] = q[i]
  BY JoinIs
<1>. HIDE DEF c
<1>2. /\ m + n \in Nat /\ 1 \in 1 .. (m + n) + 1 /\ 1 + m - 1 = m
      /\ m + 1 \in 1 .. (m + n) + 1 /\ (m + 1) + n - 1 = m + n
  OBVIOUS
<1>3. /\ SubSeq(c, 1, m) \in Codes(m)
      /\ \A i \in 1 .. m : SubSeq(c, 1, m)[i] = c[i + 1 - 1]
  <2>1. m <= m + n
    OBVIOUS
  <2>. QED BY <1>1, <1>2, <2>1, PartIs
<1>4. /\ SubSeq(c, m + 1, m + n) \in Codes(n)
      /\ \A i \in 1 .. n : SubSeq(c, m + 1, m + n)[i] = c[i + (m + 1) - 1]
  <2>. DEFINE a == m + 1
  <2>1. a + n - 1 = m + n /\ a \in 1 .. (m + n) + 1 /\ m + n <= m + n
    OBVIOUS
  <2>. HIDE DEF a
  <2>2. /\ SubSeq(c, a, a + n - 1) \in Codes(n)
        /\ \A i \in 1 .. n : SubSeq(c, a, a + n - 1)[i] = c[i + a - 1]
    BY <1>1, <1>2, <2>1, PartIs
  <2>. QED BY <2>1, <2>2 DEF a
<1>5. SubSeq(c, 1, m) = p
  <2>1. \A i \in 1 .. m : SubSeq(c, 1, m)[i] = p[i]
    BY <1>1, <1>3
  <2>. QED BY <1>3, <2>1, SameBits
<1>6. SubSeq(c, m + 1, m + n) = q
  <2>1. \A i \in 1 .. n : i + (m + 1) - 1 = m + i
    OBVIOUS
  <2>2. \A i \in 1 .. n : SubSeq(c, m + 1, m + n)[i] = q[i]
    BY <1>1, <1>4, <2>1
  <2>. QED BY <1>4, <2>2, SameBits
<1>. QED BY <1>5, <1>6 DEF c

LEMMA PartsJoin ==
    ASSUME NEW m \in Nat, NEW n \in Nat, NEW c \in Codes(m + n)
    PROVE  \E p \in Codes(m), q \in Codes(n) : c = p \o q
<1>. DEFINE p == [i \in 1 .. m |-> c[i]]
            q == [i \in 1 .. n |-> c[m + i]]
<1>1. p \in Codes(m) /\ q \in Codes(n)
  BY DEF Codes
<1>2. \A i \in 1 .. m + n : i \in 1 .. m \/ (i - m \in 1 .. n /\ i = m + (i - m))
  OBVIOUS
<1>3. (\A i \in 1 .. m : p[i] = c[i]) /\ \A i \in 1 .. n : q[i] = c[m + i]
  OBVIOUS
<1>. HIDE DEF p, q
<1>4. /\ p \o q \in Codes(m + n)
      /\ \A i \in 1 .. m : (p \o q)[i] = p[i]
      /\ \A i \in 1 .. n : (p \o q)[m + i] = q[i]
  BY <1>1, JoinIs
<1>5. ASSUME NEW i \in 1 .. m + n PROVE (p \o q)[i] = c[i]
  <2>. DEFINE j == i - m
  <2>1. CASE i \in 1 .. m
    BY <1>3, <1>4, <2>1
  <2>2. CASE j \in 1 .. n /\ i = m + j
    <3>. HIDE DEF j
    <3>. QED BY <1>3, <1>4, <2>2
  <2>. QED BY <1>2, <2>1, <2>2
<1>6. m + n \in Nat
  OBVIOUS
<1>7. c = p \o q
  BY <1>4, <1>5, <1>6, SameBits
<1>. QED BY <1>1, <1>7

\* dec(bit_tree_dec_t) of n bits gives each number below 2^n once.
DecExact(n) ==
    /\ \A c \in Codes(n) : Dec(c) \in 0 .. 2 ^ n - 1
    /\ \A c, d \in Codes(n) : Dec(c) = Dec(d) => c = d
    /\ \A v \in 0 .. 2 ^ n - 1 : \E c \in Codes(n) : Dec(c) = v

LEMMA DecOfLevel == ASSUME NEW n \in 0 .. 32 PROVE DecExact(n)
<1>. DEFINE q == 2 ^ n
            r == 2 ^ (n + 1)
<1>1. q \in Nat /\ r = 2 * q
  BY Powers
<1>2. /\ \A c \in Codes(n) : Node(c) \in q .. r - 1
      /\ \A c, d \in Codes(n) : Node(c) = Node(d) => c = d
      /\ \A v \in q .. r - 1 : \E c \in Codes(n) : Node(c) = v
  BY NodesOfLevel DEF NodesExact
<1>3. \A c \in Codes(n) : Dec(c) = Node(c) - q
  <2>1. n \in Nat
    OBVIOUS
  <2>. QED BY <2>1, CodeIsSeq DEF Dec
<1>. HIDE DEF q, r
<1>4. \A c \in Codes(n) : Dec(c) \in 0 .. q - 1
  BY <1>1, <1>2, <1>3
<1>5. \A c, d \in Codes(n) : Dec(c) = Dec(d) => c = d
  BY <1>1, <1>2, <1>3
<1>6. ASSUME NEW v \in 0 .. q - 1 PROVE \E c \in Codes(n) : Dec(c) = v
  <2>1. q + v \in q .. r - 1
    BY <1>1
  <2>2. PICK c \in Codes(n) : Node(c) = q + v
    BY <1>2, <2>1
  <2>3. Dec(c) = v
    BY <1>1, <1>3, <2>2
  <2>. QED BY <2>3
<1>. QED BY <1>4, <1>5, <1>6 DEF DecExact, q

\* Both ways to read a tree are one-to-one (lzma.cpp:169-211).
LEMMA TreesExact ==
    ASSUME NEW n \in 1 .. 8,
           NEW decode \in {[c \in Codes(n) |-> Dec(c)], [c \in Codes(n) |-> ReverseDec(c)]}
    PROVE  {decode[c] : c \in Codes(n)} = 0 .. 2 ^ n - 1
<1>1. n \in 0 .. 32
  OBVIOUS
<1>2. DecExact(n) /\ ReverseExact(n)
  BY <1>1, DecOfLevel, ReverseOfLevel
<1>3. /\ \A c \in Codes(n) : decode[c] \in 0 .. 2 ^ n - 1
      /\ \A v \in 0 .. 2 ^ n - 1 : \E c \in Codes(n) : decode[c] = v
  <2>1. CASE decode = [c \in Codes(n) |-> Dec(c)]
    BY <1>2, <2>1 DEF DecExact
  <2>2. CASE decode = [c \in Codes(n) |-> ReverseDec(c)]
    BY <1>2, <2>2 DEF ReverseExact
  <2>. QED BY <2>1, <2>2
<1>. QED BY <1>3

-----------------------------------------------------------------------------
(* Every length has one code. *)

\* A set that is numbered 0 .. N - 1 has N members.
LEMMA CountOfValues ==
    ASSUME NEW S, NEW N \in Nat, NEW f, f \in [S -> 0 .. N - 1],
           \A a, b \in S : f[a] = f[b] => a = b,
           \A v \in 0 .. N - 1 : \E a \in S : f[a] = v
    PROVE  Cardinality(S) = N
<1>1. f \in Bijection(S, 0 .. N - 1)
  BY Fun_IsBij
<1>2. ExistsBijection(0 .. N - 1, S)
  <2>1. ExistsBijection(S, 0 .. N - 1)
    BY <1>1 DEF ExistsBijection
  <2>. QED BY <2>1, Fun_ExistsBijSymmetric
<1>3. IsFiniteSet(0 .. N - 1) /\ Cardinality(0 .. N - 1) = N
  <2>1. 0 \in Int /\ N - 1 \in Int
    OBVIOUS
  <2>2. /\ IsFiniteSet(0 .. N - 1)
        /\ Cardinality(0 .. N - 1) = IF 0 > N - 1 THEN 0 ELSE (N - 1) - 0 + 1
    BY <2>1, FS_Interval
  <2>. QED BY <2>2
<1>. QED BY <1>2, <1>3, FS_Bijection

\* The three ways to read a length.
ShortCode(low) == <<0>> \o low
MiddleCode(mid) == <<1, 0>> \o mid
LongCode(high) == <<1, 1>> \o high

LEMMA ShortLength ==
    ASSUME NEW low \in Codes(3) PROVE LenOf(ShortCode(low)) = Dec(low)
<1>. DEFINE p == <<0>>
            c == ShortCode(low)
            m == 1
            n == 3
            a == 2
            l == 4
<1>1. p \in Codes(m) /\ p[1] = 0
  BY DEF Codes
<1>2. c = p \o low
  BY DEF ShortCode
<1>3. m \in Nat /\ n \in Nat /\ low \in Codes(n) /\ a = m + 1 /\ l = m + n
  OBVIOUS
<1>4. 1 \in 1 .. m
  OBVIOUS
<1>. HIDE DEF p, c, m, n, a, l
<1>5. SubSeq(c, a, l) = low /\ \A i \in 1 .. m : c[i] = p[i]
  <2>1. \A i \in 1 .. m : (p \o low)[i] = p[i]
    BY <1>1, <1>3, JoinIs
  <2>2. SubSeq(p \o low, m + 1, m + n) = low
    BY <1>1, <1>3, JoinParts
  <2>. QED BY <1>2, <1>3, <2>1, <2>2, Zenon
<1>6. c[1] = 0
  BY <1>1, <1>4, <1>5
<1>7. SubSeq(c, 2, 4) = low
  BY <1>5 DEF a, l
<1>8. LenOf(c) = Dec(low)
  BY <1>6, <1>7, Zenon DEF LenOf
<1>. QED BY <1>8 DEF c

LEMMA MiddleLength ==
    ASSUME NEW mid \in Codes(3) PROVE LenOf(MiddleCode(mid)) = 8 + Dec(mid)
<1>. DEFINE p == <<1, 0>>
            c == MiddleCode(mid)
            m == 2
            n == 3
            a == 3
            l == 5
<1>1. p \in Codes(m) /\ p[1] = 1 /\ p[2] = 0
  BY DEF Codes
<1>2. c = p \o mid
  BY DEF MiddleCode
<1>3. m \in Nat /\ n \in Nat /\ mid \in Codes(n) /\ a = m + 1 /\ l = m + n
  OBVIOUS
<1>4. 1 \in 1 .. m /\ 2 \in 1 .. m
  OBVIOUS
<1>. HIDE DEF p, c, m, n, a, l
<1>5. SubSeq(c, a, l) = mid /\ \A i \in 1 .. m : c[i] = p[i]
  <2>1. \A i \in 1 .. m : (p \o mid)[i] = p[i]
    BY <1>1, <1>3, JoinIs
  <2>2. SubSeq(p \o mid, m + 1, m + n) = mid
    BY <1>1, <1>3, JoinParts
  <2>. QED BY <1>2, <1>3, <2>1, <2>2, Zenon
<1>6. c[1] # 0 /\ c[2] = 0
  BY <1>1, <1>4, <1>5
<1>7. SubSeq(c, 3, 5) = mid
  BY <1>5 DEF a, l
<1>8. LenOf(c) = 8 + Dec(mid)
  BY <1>6, <1>7, Zenon DEF LenOf
<1>. QED BY <1>8 DEF c

LEMMA LongLength ==
    ASSUME NEW high \in Codes(8) PROVE LenOf(LongCode(high)) = 16 + Dec(high)
<1>. DEFINE p == <<1, 1>>
            c == LongCode(high)
            m == 2
            n == 8
            a == 3
            l == 10
<1>1. p \in Codes(m) /\ p[1] = 1 /\ p[2] = 1
  BY DEF Codes
<1>2. c = p \o high
  BY DEF LongCode
<1>3. m \in Nat /\ n \in Nat /\ high \in Codes(n) /\ a = m + 1 /\ l = m + n
  OBVIOUS
<1>4. 1 \in 1 .. m /\ 2 \in 1 .. m
  OBVIOUS
<1>. HIDE DEF p, c, m, n, a, l
<1>5. SubSeq(c, a, l) = high /\ \A i \in 1 .. m : c[i] = p[i]
  <2>1. \A i \in 1 .. m : (p \o high)[i] = p[i]
    BY <1>1, <1>3, JoinIs
  <2>2. SubSeq(p \o high, m + 1, m + n) = high
    BY <1>1, <1>3, JoinParts
  <2>. QED BY <1>2, <1>3, <2>1, <2>2, Zenon
<1>6. c[1] # 0 /\ c[2] # 0
  BY <1>1, <1>4, <1>5
<1>7. SubSeq(c, 3, 10) = high
  BY <1>5 DEF a, l
<1>8. LenOf(c) = 16 + Dec(high)
  BY <1>6, <1>7, Zenon DEF LenOf
<1>. QED BY <1>8 DEF c

LEMMA TreesOfLengths ==
    /\ \A c \in Codes(3) : Dec(c) \in 0 .. 7
    /\ \A c, d \in Codes(3) : Dec(c) = Dec(d) => c = d
    /\ \A v \in 0 .. 7 : \E c \in Codes(3) : Dec(c) = v
    /\ \A c \in Codes(8) : Dec(c) \in 0 .. 255
    /\ \A c, d \in Codes(8) : Dec(c) = Dec(d) => c = d
    /\ \A v \in 0 .. 255 : \E c \in Codes(8) : Dec(c) = v
<1>1. 2 ^ 3 - 1 = 7 /\ 2 ^ 8 - 1 = 255
  OBVIOUS
<1>2. DecExact(3) /\ DecExact(8)
  BY DecOfLevel
<1>. QED BY <1>1, <1>2 DEF DecExact

IsShort(c) == \E low \in Codes(3) : c = ShortCode(low)
IsMiddle(c) == \E mid \in Codes(3) : c = MiddleCode(mid)
IsLong(c) == \E high \in Codes(8) : c = LongCode(high)

LEMMA LenKinds == \A c : c \in LenCodes <=> IsShort(c) \/ IsMiddle(c) \/ IsLong(c)
BY DEF LenCodes, IsShort, IsMiddle, IsLong, ShortCode, MiddleCode, LongCode

LEMMA ShortIsExact ==
    /\ \A c : IsShort(c) => LenOf(c) \in 0 .. 7
    /\ \A c, d : IsShort(c) /\ IsShort(d) /\ LenOf(c) = LenOf(d) => c = d
    /\ \A v \in 0 .. 7 : \E c : IsShort(c) /\ LenOf(c) = v
BY ShortLength, TreesOfLengths DEF IsShort

LEMMA MiddleIsExact ==
    /\ \A c : IsMiddle(c) => LenOf(c) \in 8 .. 15
    /\ \A c, d : IsMiddle(c) /\ IsMiddle(d) /\ LenOf(c) = LenOf(d) => c = d
    /\ \A v \in 8 .. 15 : \E c : IsMiddle(c) /\ LenOf(c) = v
<1>1. \A c : IsMiddle(c) => \E mid \in Codes(3) : /\ c = MiddleCode(mid)
                                                   /\ LenOf(c) = 8 + Dec(mid)
                                                   /\ Dec(mid) \in 0 .. 7
  BY MiddleLength, TreesOfLengths DEF IsMiddle
<1>2. ASSUME NEW v \in 8 .. 15 PROVE \E c : IsMiddle(c) /\ LenOf(c) = v
  <2>1. v - 8 \in 0 .. 7 /\ 8 + (v - 8) = v
    OBVIOUS
  <2>2. PICK mid \in Codes(3) : Dec(mid) = v - 8
    BY <2>1, TreesOfLengths
  <2>. QED BY <2>1, <2>2, MiddleLength DEF IsMiddle
<1>3. \A c : IsMiddle(c) => LenOf(c) \in 8 .. 15
  BY <1>1
<1>4. ASSUME NEW c, NEW d, IsMiddle(c), IsMiddle(d), LenOf(c) = LenOf(d) PROVE c = d
  <2>1. PICK x \in Codes(3) : c = MiddleCode(x) /\ LenOf(c) = 8 + Dec(x) /\ Dec(x) \in 0 .. 7
    BY <1>1, <1>4
  <2>2. PICK y \in Codes(3) : d = MiddleCode(y) /\ LenOf(d) = 8 + Dec(y) /\ Dec(y) \in 0 .. 7
    BY <1>1, <1>4
  <2>3. Dec(x) = Dec(y)
    <3>1. \A a, b \in 0 .. 7 : 8 + a = 8 + b => a = b
      OBVIOUS
    <3>2. 8 + Dec(x) = 8 + Dec(y)
      BY <1>4, <2>1, <2>2
    <3>. QED BY <2>1, <2>2, <3>1, <3>2
  <2>. QED BY <2>1, <2>2, <2>3, TreesOfLengths
<1>. QED BY <1>2, <1>3, <1>4

LEMMA LongIsExact ==
    /\ \A c : IsLong(c) => LenOf(c) \in 16 .. 271
    /\ \A c, d : IsLong(c) /\ IsLong(d) /\ LenOf(c) = LenOf(d) => c = d
    /\ \A v \in 16 .. 271 : \E c : IsLong(c) /\ LenOf(c) = v
<1>1. \A c : IsLong(c) => \E high \in Codes(8) : /\ c = LongCode(high)
                                                  /\ LenOf(c) = 16 + Dec(high)
                                                  /\ Dec(high) \in 0 .. 255
  BY LongLength, TreesOfLengths DEF IsLong
<1>2. ASSUME NEW v \in 16 .. 271 PROVE \E c : IsLong(c) /\ LenOf(c) = v
  <2>1. v - 16 \in 0 .. 255 /\ 16 + (v - 16) = v
    OBVIOUS
  <2>2. PICK high \in Codes(8) : Dec(high) = v - 16
    BY <2>1, TreesOfLengths
  <2>. QED BY <2>1, <2>2, LongLength DEF IsLong
<1>3. \A c : IsLong(c) => LenOf(c) \in 16 .. 271
  BY <1>1
<1>4. ASSUME NEW c, NEW d, IsLong(c), IsLong(d), LenOf(c) = LenOf(d) PROVE c = d
  <2>1. PICK x \in Codes(8) : c = LongCode(x) /\ LenOf(c) = 16 + Dec(x) /\ Dec(x) \in 0 .. 255
    BY <1>1, <1>4
  <2>2. PICK y \in Codes(8) : d = LongCode(y) /\ LenOf(d) = 16 + Dec(y) /\ Dec(y) \in 0 .. 255
    BY <1>1, <1>4
  <2>3. Dec(x) = Dec(y)
    <3>1. \A a, b \in 0 .. 255 : 16 + a = 16 + b => a = b
      OBVIOUS
    <3>2. 16 + Dec(x) = 16 + Dec(y)
      BY <1>4, <2>1, <2>2
    <3>. QED BY <2>1, <2>2, <3>1, <3>2
  <2>. QED BY <2>1, <2>2, <2>3, TreesOfLengths
<1>. QED BY <1>2, <1>3, <1>4

\* The 272 lengths of len_dec_t have one code each (lzma.cpp:213-244).
LEMMA LengthsExact ==
    /\ {LenOf(c) : c \in LenCodes} = 0 .. Cardinality(LenCodes) - 1
    /\ Cardinality(LenCodes) = 272
<1>1. ASSUME NEW c \in LenCodes PROVE LenOf(c) \in 0 .. 271
  BY LenKinds, ShortIsExact, MiddleIsExact, LongIsExact
<1>4. ASSUME NEW c \in LenCodes
      PROVE  /\ LenOf(c) \in 0 .. 7 => IsShort(c)
             /\ LenOf(c) \in 8 .. 15 => IsMiddle(c)
             /\ LenOf(c) \in 16 .. 271 => IsLong(c)
  <2>1. \/ IsShort(c) /\ LenOf(c) \in 0 .. 7
        \/ IsMiddle(c) /\ LenOf(c) \in 8 .. 15
        \/ IsLong(c) /\ LenOf(c) \in 16 .. 271
    BY LenKinds, ShortIsExact, MiddleIsExact, LongIsExact
  <2>. QED BY <2>1
<1>2. ASSUME NEW c \in LenCodes, NEW d \in LenCodes, LenOf(c) = LenOf(d) PROVE c = d
  <2>1. CASE IsShort(c)
    <3>1. IsShort(d)
      BY <1>2, <1>4, <2>1, ShortIsExact
    <3>. QED BY <1>2, <2>1, <3>1, ShortIsExact
  <2>2. CASE IsMiddle(c)
    <3>1. IsMiddle(d)
      BY <1>2, <1>4, <2>2, MiddleIsExact
    <3>. QED BY <1>2, <2>2, <3>1, MiddleIsExact
  <2>3. CASE IsLong(c)
    <3>1. IsLong(d)
      BY <1>2, <1>4, <2>3, LongIsExact
    <3>. QED BY <1>2, <2>3, <3>1, LongIsExact
  <2>. QED BY <2>1, <2>2, <2>3, LenKinds
<1>3. ASSUME NEW v \in 0 .. 271 PROVE \E c \in LenCodes : LenOf(c) = v
  <2>1. v \in 0 .. 7 \/ v \in 8 .. 15 \/ v \in 16 .. 271
    OBVIOUS
  <2>. QED BY <2>1, LenKinds, ShortIsExact, MiddleIsExact, LongIsExact
<1>5. Cardinality(LenCodes) = 272
  <2>. DEFINE f == [c \in LenCodes |-> LenOf(c)]
              N == 272
  <2>1. N \in Nat /\ 0 .. N - 1 = 0 .. 271
    OBVIOUS
  <2>. HIDE DEF N
  <2>2. f \in [LenCodes -> 0 .. N - 1]
    BY <1>1, <2>1
  <2>3. \A a \in LenCodes : f[a] = LenOf(a)
    OBVIOUS
  <2>. HIDE DEF f
  <2>4. \A a, b \in LenCodes : f[a] = f[b] => a = b
    BY <1>2, <2>3
  <2>5. \A v \in 0 .. N - 1 : \E a \in LenCodes : f[a] = v
    BY <1>3, <2>1, <2>3
  <2>6. Cardinality(LenCodes) = N
    BY <2>1, <2>2, <2>4, <2>5, CountOfValues
  <2>. QED BY <2>6 DEF N
<1>. QED BY <1>1, <1>3, <1>5

-----------------------------------------------------------------------------
(* Where the distances of a slot begin. *)

\* The numbers of distances that the slots begin follow on from one another.
LEMMA BaseSteps ==
    ASSUME NEW slot \in 0 .. 63
    PROVE  /\ NumDirectBits(slot) \in 0 .. 30
           /\ Base(slot) \in Nat /\ 2 ^ NumDirectBits(slot) \in Nat
           /\ 2 ^ NumDirectBits(slot) >= 1
           /\ Base(slot + 1) = Base(slot) + 2 ^ NumDirectBits(slot)
<1>1. NumDirectBits(slot) \in 0 .. 30
  BY DEF NumDirectBits
<1>2. 2 ^ NumDirectBits(slot) \in Nat /\ 2 ^ NumDirectBits(slot) >= 1
  <2>1. NumDirectBits(slot) \in 0 .. 32
    BY <1>1
  <2>. QED BY <2>1, Powers
<1>3. Base(slot) \in Nat /\ Base(slot + 1) = Base(slot) + 2 ^ NumDirectBits(slot)
  <2>1. CASE slot < 3
    <3>1. /\ NumDirectBits(slot) = 0 /\ Base(slot) = slot /\ slot + 1 < 4
          /\ Base(slot + 1) = slot + 1
      BY <2>1 DEF NumDirectBits, Base
    <3>2. 2 ^ 0 = 1
      OBVIOUS
    <3>. QED BY <3>1, <3>2
  <2>2. CASE slot = 3
    <3>. DEFINE t == slot + 1
    <3>1. NumDirectBits(slot) = 0 /\ Base(slot) = 3
      BY <2>2 DEF NumDirectBits, Base
    <3>2. t = 4
      BY <2>2
    <3>. HIDE DEF t
    <3>3. NumDirectBits(t) = 1 /\ t % 2 = 0 /\ ~(t < 4)
      BY <3>2 DEF NumDirectBits
    <3>4. Base(t) = (2 + 0) * 2 ^ 1
      BY <3>3, Zenon DEF Base
    <3>5. 2 ^ 0 = 1 /\ (2 + 0) * 2 ^ 1 = 4
      OBVIOUS
    <3>6. Base(t) = Base(slot) + 2 ^ NumDirectBits(slot)
      BY <3>1, <3>4, <3>5
    <3>. QED BY <3>1, <3>6 DEF t
  <2>3. CASE slot >= 4 /\ slot % 2 = 0
    <3>1. /\ NumDirectBits(slot + 1) = NumDirectBits(slot)
          /\ (slot + 1) % 2 = 1 /\ slot + 1 >= 4
      BY <2>3 DEF NumDirectBits
    <3>. DEFINE q == 2 ^ NumDirectBits(slot)
    <3>2. Base(slot) = (2 + 0) * q /\ Base(slot + 1) = (2 + 1) * q
      BY <2>3, <3>1 DEF Base
    <3>3. q \in Nat
      BY <1>2
    <3>. HIDE DEF q
    <3>4. Base(slot) \in Nat /\ Base(slot + 1) = Base(slot) + q
      BY <3>2, <3>3
    <3>. QED BY <3>4 DEF q
  <2>4. CASE slot >= 4 /\ slot % 2 = 1
    <3>1. /\ NumDirectBits(slot + 1) = NumDirectBits(slot) + 1
          /\ (slot + 1) % 2 = 0 /\ slot + 1 >= 4
      BY <2>4 DEF NumDirectBits
    <3>. DEFINE n == NumDirectBits(slot)
                q == 2 ^ n
                r == 2 ^ (n + 1)
    <3>2. Base(slot) = (2 + 1) * q /\ Base(slot + 1) = (2 + 0) * r
      BY <2>4, <3>1 DEF Base
    <3>3. q \in Nat /\ r = 2 * q
      <4>1. n \in 0 .. 32
        BY <1>1
      <4>. QED BY <4>1, Powers
    <3>. HIDE DEF q, r
    <3>4. Base(slot) \in Nat /\ Base(slot + 1) = Base(slot) + q
      BY <3>2, <3>3
    <3>. QED BY <3>4 DEF q
  <2>. QED BY <2>1, <2>2, <2>3, <2>4
<1>. QED BY <1>1, <1>2, <1>3

\* The distances of a slot end where, or before, those of a later one begin.
LEMMA SlotsApart ==
    ASSUME NEW n \in 0 .. 64
    PROVE  \A i \in 0 .. n - 1 : Base(i) + 2 ^ NumDirectBits(i) <= Base(n)
<1>. DEFINE S == {k \in 0 .. 64 : /\ Base(k) \in Nat
                                   /\ \A i \in 0 .. k - 1 : Base(i) + 2 ^ NumDirectBits(i) <= Base(k)}
<1>1. 0 \in S
  BY BaseSteps
<1>2. ASSUME NEW k \in 0 .. 63, k \in S PROVE k + 1 \in S
  <2>1. /\ Base(k) \in Nat /\ 2 ^ NumDirectBits(k) \in Nat
        /\ Base(k + 1) = Base(k) + 2 ^ NumDirectBits(k)
    BY BaseSteps
  <2>2. ASSUME NEW i \in 0 .. (k + 1) - 1
        PROVE  Base(i) + 2 ^ NumDirectBits(i) <= Base(k + 1)
    <3>0. i \in 0 .. 63
      OBVIOUS
    <3>1. Base(i) \in Nat /\ 2 ^ NumDirectBits(i) \in Nat
      BY <3>0, BaseSteps
    <3>2. CASE i = k
      BY <2>1, <3>2
    <3>3. CASE i \in 0 .. k - 1
      <4>1. Base(i) + 2 ^ NumDirectBits(i) <= Base(k)
        BY <1>2, <3>3
      <4>. QED BY <2>1, <3>1, <4>1
    <3>. QED BY <3>2, <3>3
  <2>. QED BY <2>1, <2>2
<1>3. 0 .. 64 \subseteq S
  <2>. HIDE DEF S
  <2>1. \A k \in 0 .. 64 - 1 : k \in S => k + 1 \in S
    BY <1>2
  <2>. QED BY <1>1, <2>1, Upwards
<1>. QED BY <1>3

\* Every distance below the slots' end belongs to one of them.
LEMMA SlotOfValue ==
    ASSUME NEW n \in 0 .. 64
    PROVE  \A v \in 0 .. Base(n) - 1 :
              \E i \in 0 .. n - 1 : v \in Base(i) .. Base(i) + 2 ^ NumDirectBits(i) - 1
<1>. DEFINE Found(k) == \A v \in 0 .. Base(k) - 1 :
              \E i \in 0 .. k - 1 : v \in Base(i) .. Base(i) + 2 ^ NumDirectBits(i) - 1
            S == {k \in 0 .. 64 : Found(k)}
<1>1. 0 \in S
  BY DEF Base
<1>2. ASSUME NEW k \in 0 .. 63, k \in S PROVE k + 1 \in S
  <2>1. /\ Base(k) \in Nat /\ 2 ^ NumDirectBits(k) \in Nat
        /\ Base(k + 1) = Base(k) + 2 ^ NumDirectBits(k)
    BY BaseSteps
  <2>2. ASSUME NEW v \in 0 .. Base(k + 1) - 1
        PROVE  \E i \in 0 .. (k + 1) - 1 :
                  v \in Base(i) .. Base(i) + 2 ^ NumDirectBits(i) - 1
    <3>1. CASE v < Base(k)
      <4>1. v \in 0 .. Base(k) - 1
        BY <2>1, <3>1
      <4>2. PICK i \in 0 .. k - 1 : v \in Base(i) .. Base(i) + 2 ^ NumDirectBits(i) - 1
        BY <1>2, <4>1
      <4>3. i \in 0 .. (k + 1) - 1
        OBVIOUS
      <4>. QED BY <4>2, <4>3
    <3>2. CASE v >= Base(k)
      <4>1. v \in Base(k) .. Base(k) + 2 ^ NumDirectBits(k) - 1
        BY <2>1, <3>2
      <4>2. k \in 0 .. (k + 1) - 1
        OBVIOUS
      <4>. QED BY <4>1, <4>2
    <3>. QED BY <2>1, <3>1, <3>2
  <2>3. Found(k + 1)
    BY <2>2
  <2>. QED BY <2>3
<1>3. 0 .. 64 \subseteq S
  <2>. HIDE DEF S
  <2>1. \A k \in 0 .. 64 - 1 : k \in S => k + 1 \in S
    BY <1>2
  <2>. QED BY <1>1, <2>1, Upwards
<1>. QED BY <1>3

\* The last slot ends at the end marker.
LEMMA DistValsIs ==
    /\ 2 ^ SlotBits \in 0 .. 64
    /\ DistVals = Base(2 ^ SlotBits) /\ DistVals \in Nat
    /\ SlotBits \in 0 .. 32
<1>. DEFINE N == 2 ^ SlotBits
<1>1. CASE SlotBits = 4
  <2>1. SlotBits - 1 = 3 /\ 2 ^ 3 = 8 /\ 2 ^ 4 = 16
    BY <1>1
  <2>2. DistVals = 2 ^ 8 /\ N = 16
    BY <1>1, <2>1, Zenon DEF DistVals
  <2>. HIDE DEF N
  <2>3. NumDirectBits(N) = 7 /\ N % 2 = 0 /\ ~(N < 4)
    BY <2>2 DEF NumDirectBits
  <2>4. Base(N) = (2 + 0) * 2 ^ 7
    BY <2>3, Zenon DEF Base
  <2>5. Power(7) \in Nat /\ Power(8) = 2 * Power(7)
    BY SMT DEF Power
  <2>6. DistVals = Power(8) /\ Base(N) = (2 + 0) * Power(7)
    BY <2>2, <2>4, Zenon DEF Power
  <2>7. N \in 0 .. 64 /\ DistVals = Base(N) /\ DistVals \in Nat
    BY <2>2, <2>5, <2>6, SMT
  <2>8. SlotBits \in 0 .. 32
    BY <1>1
  <2>. QED BY <2>7, <2>8 DEF N
<1>2. CASE SlotBits = 5
  <2>1. SlotBits - 1 = 4 /\ 2 ^ 4 = 16 /\ 2 ^ 5 = 32
    BY <1>2
  <2>2. DistVals = 2 ^ 16 /\ N = 32
    BY <1>2, <2>1, Zenon DEF DistVals
  <2>. HIDE DEF N
  <2>3. NumDirectBits(N) = 15 /\ N % 2 = 0 /\ ~(N < 4)
    BY <2>2 DEF NumDirectBits
  <2>4. Base(N) = (2 + 0) * 2 ^ 15
    BY <2>3, Zenon DEF Base
  <2>5. Power(15) \in Nat /\ Power(16) = 2 * Power(15)
    BY SMT DEF Power
  <2>6. DistVals = Power(16) /\ Base(N) = (2 + 0) * Power(15)
    BY <2>2, <2>4, Zenon DEF Power
  <2>7. N \in 0 .. 64 /\ DistVals = Base(N) /\ DistVals \in Nat
    BY <2>2, <2>5, <2>6, SMT
  <2>8. SlotBits \in 0 .. 32
    BY <1>2
  <2>. QED BY <2>7, <2>8 DEF N
<1>3. CASE SlotBits = 6
  <2>1. SlotBits - 1 = 5 /\ 2 ^ 5 = 32 /\ 2 ^ 6 = 64
    BY <1>3
  <2>2. DistVals = 2 ^ 32 /\ N = 64
    BY <1>3, <2>1, Zenon DEF DistVals
  <2>. HIDE DEF N
  <2>3. NumDirectBits(N) = 31 /\ N % 2 = 0 /\ ~(N < 4)
    BY <2>2 DEF NumDirectBits
  <2>4. Base(N) = (2 + 0) * 2 ^ 31
    BY <2>3, Zenon DEF Base
  <2>5. Power(31) \in Nat /\ Power(32) = 2 * Power(31)
    BY SMT DEF Power
  <2>6. DistVals = Power(32) /\ Base(N) = (2 + 0) * Power(31)
    BY <2>2, <2>4, Zenon DEF Power
  <2>7. N \in 0 .. 64 /\ DistVals = Base(N) /\ DistVals \in Nat
    BY <2>2, <2>5, <2>6, SMT
  <2>8. SlotBits \in 0 .. 32
    BY <1>3
  <2>. QED BY <2>7, <2>8 DEF N
<1>. QED BY <1>1, <1>2, <1>3, LzmaCodesAssumption

-----------------------------------------------------------------------------
(* Every distance has one code. *)

\* The bits after a slot name each distance of the slot once.
LowExact(slot) ==
    /\ \A c \in Codes(NumDirectBits(slot)) :
          LowBits(slot, c) \in 0 .. 2 ^ NumDirectBits(slot) - 1
    /\ \A c, d \in Codes(NumDirectBits(slot)) :
          LowBits(slot, c) = LowBits(slot, d) => c = d
    /\ \A v \in 0 .. 2 ^ NumDirectBits(slot) - 1 :
          \E c \in Codes(NumDirectBits(slot)) : LowBits(slot, c) = v

\* The direct bits and the four aligned ones of a large distance.
LEMMA HighAndAlign ==
    ASSUME NEW slot \in 14 .. 63, NEW d \in Nat, NumDirectBits(slot) = d + 4,
           NEW p \in Codes(d), NEW q \in Codes(4)
    PROVE  p \o q \in Codes(d + 4) /\ LowBits(slot, p \o q) = Dec(p) * 16 + ReverseDec(q)
<1>. DEFINE c == p \o q
            w == 4
            l == d + w
<1>1. w \in Nat /\ l \in Nat /\ q \in Codes(w) /\ l - w = d
  OBVIOUS
<1>2. w = 4 /\ l = d + w
  OBVIOUS
<1>. HIDE DEF w, l
<1>3. c \in Codes(l) /\ Len(c) = l
  BY <1>1, <1>2, JoinIs
<1>4. SubSeq(c, 1, d) = p /\ SubSeq(c, d + 1, l) = q
  <2>1. SubSeq(c, 1, d) = p /\ SubSeq(c, d + 1, d + w) = q
    BY <1>1, JoinParts
  <2>. QED BY <1>2, <2>1, Zenon
<1>. HIDE DEF c
<1>5. ~(slot < end_pos_model_ix) /\ n_align_bits = w /\ 2 ^ n_align_bits = 16
  BY <1>2 DEF end_pos_model_ix, n_align_bits
<1>6. Len(c) - n_align_bits = d
  BY <1>1, <1>3, <1>5
<1>7. LowBits(slot, c) = Dec(SubSeq(c, 1, d)) * 2 ^ n_align_bits
                            + ReverseDec(SubSeq(c, d + 1, Len(c)))
  BY <1>5, <1>6, Zenon DEF LowBits
<1>8. LowBits(slot, c) = Dec(p) * 16 + ReverseDec(q)
  BY <1>3, <1>4, <1>5, <1>7, Zenon
<1>9. c \in Codes(d + 4)
  BY <1>2, <1>3
<1>. QED BY <1>8, <1>9 DEF c

\* In each of the three ways to read the lower bits (lzma.cpp:378-386).
LEMMA LowOfSlot == ASSUME NEW slot \in 0 .. 63 PROVE LowExact(slot)
<1>. DEFINE n == NumDirectBits(slot)
            N == 2 ^ n
<1>1. n \in 0 .. 32
  <2>1. n \in 0 .. 30
    BY BaseSteps
  <2>. QED BY <2>1
<1>2. CASE slot < end_pos_model_ix
  <2>1. \A c : LowBits(slot, c) = ReverseDec(c)
    BY <1>2 DEF LowBits
  <2>2. ReverseExact(n)
    BY <1>1, ReverseOfLevel
  <2>. QED BY <2>1, <2>2 DEF ReverseExact, LowExact
<1>3. CASE ~(slot < end_pos_model_ix)
  <2>1. slot \in 14 .. 63
    BY <1>3 DEF end_pos_model_ix
  <2>2. PICK d \in 0 .. 32 : n = d + 4
    <3>1. n \in 6 .. 30
      BY <2>1 DEF NumDirectBits
    <3>2. n - 4 \in 0 .. 32 /\ n = (n - 4) + 4
      BY <3>1
    <3>. QED BY <3>2
  <2>. DEFINE D == 2 ^ d
  <2>3. D \in Nat /\ N = D * 16
    <3>1. d \in 0 .. 32 /\ d + 1 \in 0 .. 32 /\ d + 2 \in 0 .. 32 /\ d + 3 \in 0 .. 32
      BY <1>1, <2>2
    <3>2. 2 ^ d \in Nat /\ 2 ^ (d + 1) = 2 * 2 ^ d
      BY <3>1, Powers
    <3>3. 2 ^ (d + 2) = 2 * 2 ^ (d + 1)
      <4>1. d + 2 = (d + 1) + 1
        OBVIOUS
      <4>. QED BY <3>1, <4>1, Powers
    <3>4. 2 ^ (d + 3) = 2 * 2 ^ (d + 2)
      <4>1. d + 3 = (d + 2) + 1
        OBVIOUS
      <4>. QED BY <3>1, <4>1, Powers
    <3>5. 2 ^ (d + 4) = 2 * 2 ^ (d + 3)
      <4>1. d + 4 = (d + 3) + 1
        OBVIOUS
      <4>. QED BY <3>1, <4>1, Powers
    <3>. QED BY <2>2, <3>2, <3>3, <3>4, <3>5
  <2>4. /\ \A c \in Codes(d) : Dec(c) \in 0 .. D - 1
        /\ \A c, e \in Codes(d) : Dec(c) = Dec(e) => c = e
        /\ \A v \in 0 .. D - 1 : \E c \in Codes(d) : Dec(c) = v
    BY DecOfLevel DEF DecExact
  <2>5. /\ \A c \in Codes(4) : ReverseDec(c) \in 0 .. 15
        /\ \A c, e \in Codes(4) : ReverseDec(c) = ReverseDec(e) => c = e
        /\ \A v \in 0 .. 15 : \E c \in Codes(4) : ReverseDec(c) = v
    <3>1. ReverseExact(4) /\ 2 ^ 4 - 1 = 15
      BY ReverseOfLevel
    <3>. QED BY <3>1 DEF ReverseExact
  <2>. HIDE DEF D, N, n
  <2>6. \A p \in Codes(d), q \in Codes(4) :
           p \o q \in Codes(n) /\ LowBits(slot, p \o q) = Dec(p) * 16 + ReverseDec(q)
    <3>1. slot \in 14 .. 63 /\ d \in Nat /\ NumDirectBits(slot) = d + 4 /\ n = d + 4
      BY <2>1, <2>2 DEF n
    <3>2. ASSUME NEW p \in Codes(d), NEW q \in Codes(4)
          PROVE  /\ p \o q \in Codes(d + 4)
                 /\ LowBits(slot, p \o q) = Dec(p) * 16 + ReverseDec(q)
      BY <3>1, HighAndAlign, Zenon
    <3>3. Codes(n) = Codes(d + 4)
      BY <3>1, Zenon
    <3>. QED BY <3>2, <3>3, Zenon
  <2>7. \A c \in Codes(n) : \E p \in Codes(d), q \in Codes(4) : c = p \o q
    <3>. DEFINE w == 4
    <3>1. d \in Nat /\ w \in Nat /\ n = d + w
      BY <2>2
    <3>. HIDE DEF w
    <3>2. \A c \in Codes(n) : \E p \in Codes(d), q \in Codes(w) : c = p \o q
      BY <3>1, PartsJoin
    <3>. QED BY <3>2 DEF w
  <2>8. ASSUME NEW c \in Codes(n) PROVE LowBits(slot, c) \in 0 .. N - 1
    <3>1. PICK p \in Codes(d), q \in Codes(4) : c = p \o q
      BY <2>7
    <3>2. LowBits(slot, c) = Dec(p) * 16 + ReverseDec(q)
      BY <2>6, <3>1, Zenon
    <3>3. Dec(p) \in 0 .. D - 1 /\ ReverseDec(q) \in 0 .. 15
      BY <2>4, <2>5
    <3>. QED BY <2>3, <3>2, <3>3
  <2>9. ASSUME NEW c \in Codes(n), NEW e \in Codes(n), LowBits(slot, c) = LowBits(slot, e)
        PROVE  c = e
    <3>1. PICK p \in Codes(d), q \in Codes(4) : c = p \o q
      BY <2>7
    <3>2. PICK r \in Codes(d), s \in Codes(4) : e = r \o s
      BY <2>7
    <3>3. /\ LowBits(slot, c) = Dec(p) * 16 + ReverseDec(q)
          /\ LowBits(slot, e) = Dec(r) * 16 + ReverseDec(s)
      BY <2>6, <3>1, <3>2, Zenon
    <3>4. /\ Dec(p) \in 0 .. D - 1 /\ ReverseDec(q) \in 0 .. 15
          /\ Dec(r) \in 0 .. D - 1 /\ ReverseDec(s) \in 0 .. 15
      BY <2>4, <2>5
    <3>5. Dec(p) = Dec(r) /\ ReverseDec(q) = ReverseDec(s)
      <4>. DEFINE x == Dec(p)
                  y == Dec(r)
                  z == ReverseDec(q)
                  w == ReverseDec(s)
      <4>1. x * 16 + z = y * 16 + w
        BY <2>9, <3>3, Zenon
      <4>2. x \in Nat /\ y \in Nat /\ z \in 0 .. 15 /\ w \in 0 .. 15
        BY <2>3, <3>4
      <4>. HIDE DEF x, y, z, w
      <4>3. x = y /\ z = w
        BY <4>1, <4>2
      <4>. QED BY <4>3 DEF x, y, z, w
    <3>6. p = r /\ q = s
      BY <2>4, <2>5, <3>5
    <3>. QED BY <3>1, <3>2, <3>6, Zenon
  <2>10. ASSUME NEW v \in 0 .. N - 1 PROVE \E c \in Codes(n) : LowBits(slot, c) = v
    <3>1. v \div 16 \in 0 .. D - 1 /\ v % 16 \in 0 .. 15 /\ v = (v \div 16) * 16 + (v % 16)
      BY <2>3
    <3>2. PICK p \in Codes(d) : Dec(p) = v \div 16
      BY <2>4, <3>1
    <3>3. PICK q \in Codes(4) : ReverseDec(q) = v % 16
      BY <2>5, <3>1
    <3>4. p \o q \in Codes(n) /\ LowBits(slot, p \o q) = v
      BY <2>6, <3>1, <3>2, <3>3, Zenon
    <3>. QED BY <3>4, Zenon
  <2>. QED BY <2>8, <2>9, <2>10 DEF LowExact, n, N
<1>. QED BY <1>2, <1>3

\* A code of a distance: the one of its slot, and the lower bits.
DistCode(s, tail) == s \o tail

\* dec_dist reads the slot and the lower bits that were put there.
LEMMA DistRead ==
    ASSUME NEW s \in Codes(SlotBits), NEW tail \in Codes(NumDirectBits(Dec(s))),
           Dec(s) \in 0 .. 63
    PROVE  DistOf(DistCode(s, tail)) = Base(Dec(s)) + LowBits(Dec(s), tail)
<1>. DEFINE c == DistCode(s, tail)
            n == NumDirectBits(Dec(s))
<1>1. n \in Nat /\ SlotBits \in Nat /\ tail \in Codes(n)
  <2>1. \A i \in 0 .. 63 : NumDirectBits(i) \in 0 .. 30
    BY BaseSteps
  <2>2. n \in 0 .. 30 /\ SlotBits \in 0 .. 32
    BY <2>1, DistValsIs
  <2>. HIDE DEF n
  <2>3. n \in Nat /\ SlotBits \in Nat
    BY <2>2
  <2>. QED BY <2>3 DEF n
<1>. HIDE DEF n
<1>2. SubSeq(s \o tail, 1, SlotBits) = s /\ SubSeq(s \o tail, SlotBits + 1, SlotBits + n) = tail
  BY <1>1, JoinParts
<1>3. Len(s \o tail) = SlotBits + n
  BY <1>1, JoinIs
<1>4. c = s \o tail
  BY DEF DistCode
<1>. HIDE DEF c
<1>5. SubSeq(c, 1, SlotBits) = s /\ SubSeq(c, SlotBits + 1, Len(c)) = tail
  BY <1>2, <1>3, <1>4, Zenon
<1>6. DistOf(c) = Base(Dec(s)) + LowBits(Dec(s), tail)
  BY <1>5, Zenon DEF DistOf
<1>. QED BY <1>6 DEF c

LEMMA DistCodesAre ==
    \A c : c \in DistCodes <=> \E s \in Codes(SlotBits) :
              \E tail \in Codes(NumDirectBits(Dec(s))) : c = DistCode(s, tail)
BY DEF DistCodes, DistCode

LEMMA SlotsExact ==
    /\ \A s \in Codes(SlotBits) : Dec(s) \in 0 .. 2 ^ SlotBits - 1 /\ Dec(s) \in 0 .. 63
    /\ \A s, t \in Codes(SlotBits) : Dec(s) = Dec(t) => s = t
    /\ \A v \in 0 .. 2 ^ SlotBits - 1 : \E s \in Codes(SlotBits) : Dec(s) = v
<1>1. DecExact(SlotBits)
  BY DistValsIs, DecOfLevel
<1>2. 0 .. 2 ^ SlotBits - 1 \subseteq 0 .. 63
  BY DistValsIs
<1>. QED BY <1>1, <1>2 DEF DecExact

\* A distance lies in the part that its slot begins.
InSlot(v, slot) == v \in Base(slot) .. Base(slot) + 2 ^ NumDirectBits(slot) - 1

LEMMA OneSlot ==
    ASSUME NEW i \in 0 .. 63, NEW j \in 0 .. 63, NEW v, InSlot(v, i), InSlot(v, j)
    PROVE  i = j
<1>1. ASSUME NEW k \in 0 .. 63, NEW l \in 0 .. 63, k < l, InSlot(v, k), InSlot(v, l)
      PROVE  FALSE
  <2>1. l \in 0 .. 64 /\ k \in 0 .. l - 1
    BY <1>1
  <2>2. Base(k) + 2 ^ NumDirectBits(k) <= Base(l)
    BY <2>1, SlotsApart
  <2>3. Base(k) \in Nat /\ 2 ^ NumDirectBits(k) \in Nat
    BY BaseSteps
  <2>4. Base(l) \in Nat /\ 2 ^ NumDirectBits(l) \in Nat
    BY BaseSteps
  <2>. QED BY <1>1, <2>2, <2>3, <2>4 DEF InSlot
<1>2. i < j \/ i = j \/ j < i
  OBVIOUS
<1>. QED BY <1>1, <1>2

\* The distances, up to the end marker, have one code each (lzma.cpp:368-389).
LEMMA DistancesExact ==
    Cardinality(DistCodes) = DistVals /\ {DistOf(c) : c \in DistCodes} = 0 .. EndMarker
<1>. DEFINE N == 2 ^ SlotBits
<1>1. N \in 0 .. 64 /\ DistVals = Base(N) /\ DistVals \in Nat
  BY DistValsIs
<1>2. /\ \A s \in Codes(SlotBits) : Dec(s) \in 0 .. N - 1 /\ Dec(s) \in 0 .. 63
      /\ \A s, t \in Codes(SlotBits) : Dec(s) = Dec(t) => s = t
      /\ \A v \in 0 .. N - 1 : \E s \in Codes(SlotBits) : Dec(s) = v
  BY SlotsExact
<1>. HIDE DEF N
<1>3. ASSUME NEW s \in Codes(SlotBits), NEW tail \in Codes(NumDirectBits(Dec(s)))
      PROVE  /\ DistOf(DistCode(s, tail)) = Base(Dec(s)) + LowBits(Dec(s), tail)
             /\ InSlot(DistOf(DistCode(s, tail)), Dec(s))
             /\ DistOf(DistCode(s, tail)) \in 0 .. DistVals - 1
  <2>1. Dec(s) \in 0 .. N - 1 /\ Dec(s) \in 0 .. 63
    BY <1>2
  <2>. DEFINE slot == Dec(s)
  <2>2. DistOf(DistCode(s, tail)) = Base(slot) + LowBits(slot, tail)
    BY <2>1, DistRead
  <2>3. LowBits(slot, tail) \in 0 .. 2 ^ NumDirectBits(slot) - 1
    BY <2>1, LowOfSlot DEF LowExact
  <2>4. Base(slot) \in Nat /\ 2 ^ NumDirectBits(slot) \in Nat
    BY <2>1, BaseSteps
  <2>5. Base(slot) + 2 ^ NumDirectBits(slot) <= Base(N)
    BY <1>1, <2>1, SlotsApart
  <2>. HIDE DEF slot
  <2>6. InSlot(DistOf(DistCode(s, tail)), slot)
    BY <2>2, <2>3, <2>4 DEF InSlot
  <2>7. DistOf(DistCode(s, tail)) \in 0 .. DistVals - 1
    BY <1>1, <2>2, <2>3, <2>4, <2>5
  <2>. QED BY <2>2, <2>6, <2>7 DEF slot
<1>4. ASSUME NEW c \in DistCodes PROVE DistOf(c) \in 0 .. DistVals - 1
  BY <1>3, DistCodesAre
<1>5. ASSUME NEW c \in DistCodes, NEW d \in DistCodes, DistOf(c) = DistOf(d) PROVE c = d
  <2>1. PICK s \in Codes(SlotBits) :
           \E tail \in Codes(NumDirectBits(Dec(s))) : c = DistCode(s, tail)
    BY DistCodesAre
  <2>2. PICK p \in Codes(NumDirectBits(Dec(s))) : c = DistCode(s, p)
    BY <2>1
  <2>3. PICK t \in Codes(SlotBits) :
           \E tail \in Codes(NumDirectBits(Dec(t))) : d = DistCode(t, tail)
    BY DistCodesAre
  <2>4. PICK q \in Codes(NumDirectBits(Dec(t))) : d = DistCode(t, q)
    BY <2>3
  <2>5. Dec(s) = Dec(t)
    <3>1. InSlot(DistOf(c), Dec(s)) /\ InSlot(DistOf(d), Dec(t))
      BY <1>3, <2>2, <2>4
    <3>2. Dec(s) \in 0 .. 63 /\ Dec(t) \in 0 .. 63
      BY <1>2
    <3>. QED BY <1>5, <3>1, <3>2, OneSlot
  <2>6. s = t
    BY <1>2, <2>5
  <2>. DEFINE slot == Dec(s)
  <2>7. slot \in 0 .. 63
    BY <1>2
  <2>8. q \in Codes(NumDirectBits(slot))
    BY <2>6
  <2>9. LowBits(slot, p) \in 0 .. 2 ^ NumDirectBits(slot) - 1
    BY <2>7, LowOfSlot DEF LowExact
  <2>10. LowBits(slot, q) \in 0 .. 2 ^ NumDirectBits(slot) - 1
    BY <2>7, <2>8, LowOfSlot DEF LowExact
  <2>11. Base(slot) \in Nat
    BY <2>7, BaseSteps
  <2>12. Base(slot) + LowBits(slot, p) = Base(slot) + LowBits(slot, q)
    BY <1>3, <1>5, <2>2, <2>4, <2>6, Zenon
  <2>. HIDE DEF slot
  <2>13. LowBits(slot, p) = LowBits(slot, q)
    BY <2>9, <2>10, <2>11, <2>12
  <2>14. p = q
    BY <2>7, <2>8, <2>13, LowOfSlot DEF LowExact, slot
  <2>. QED BY <2>2, <2>4, <2>6, <2>14
<1>6. ASSUME NEW v \in 0 .. DistVals - 1 PROVE \E c \in DistCodes : DistOf(c) = v
  <2>1. PICK slot \in 0 .. N - 1 : v \in Base(slot) .. Base(slot) + 2 ^ NumDirectBits(slot) - 1
    BY <1>1, SlotOfValue
  <2>2. slot \in 0 .. 63
    BY <1>1
  <2>3. Base(slot) \in Nat /\ 2 ^ NumDirectBits(slot) \in Nat
    BY <2>2, BaseSteps
  <2>4. v - Base(slot) \in 0 .. 2 ^ NumDirectBits(slot) - 1 /\ Base(slot) + (v - Base(slot)) = v
    BY <2>1, <2>3
  <2>5. PICK s \in Codes(SlotBits) : Dec(s) = slot
    BY <1>2
  <2>6. PICK tail \in Codes(NumDirectBits(slot)) : LowBits(slot, tail) = v - Base(slot)
    BY <2>2, <2>4, LowOfSlot DEF LowExact
  <2>7. DistOf(DistCode(s, tail)) = v
    BY <1>3, <2>4, <2>5, <2>6, Zenon
  <2>8. DistCode(s, tail) \in DistCodes
    BY <2>5, <2>6, DistCodesAre, Zenon
  <2>. QED BY <2>7, <2>8
<1>7. Cardinality(DistCodes) = DistVals
  <2>. DEFINE f == [c \in DistCodes |-> DistOf(c)]
  <2>1. /\ f \in [DistCodes -> 0 .. DistVals - 1]
        /\ \A a, b \in DistCodes : f[a] = f[b] => a = b
        /\ \A v \in 0 .. DistVals - 1 : \E a \in DistCodes : f[a] = v
    BY <1>4, <1>5, <1>6
  <2>. HIDE DEF f
  <2>. QED BY <1>1, <2>1, CountOfValues
<1>. QED BY <1>4, <1>6, <1>7 DEF EndMarker

LEMMA OneCodeEachHolds == OneCodeEach
BY TreesExact, LengthsExact, DistancesExact DEF OneCodeEach

-----------------------------------------------------------------------------
(* Every cell lies in its array and belongs to one context. *)

\* The nodes of a tree of n bits are numbered from 1 and lie below 2^n.
LEMMA NodesBelow ==
    ASSUME NEW n \in 1 .. 8, NEW c \in Codes(n), NEW k \in 0 .. n - 1
    PROVE  Node(SubSeq(c, 1, k)) \in 1 .. 2 ^ n - 1
<1>1. SubSeq(c, 1, k) \in Codes(k)
  <2>. DEFINE a == 1
  <2>1. n \in Nat /\ k \in Nat /\ a \in 1 .. n + 1 /\ a + k - 1 <= n /\ a + k - 1 = k
    OBVIOUS
  <2>. HIDE DEF a
  <2>2. SubSeq(c, a, a + k - 1) \in Codes(k)
    BY <2>1, PartIs
  <2>. QED BY <2>1, <2>2 DEF a
<1>. DEFINE m == Node(SubSeq(c, 1, k))
<1>2. m \in 2 ^ k .. 2 ^ (k + 1) - 1
  <2>1. k \in 0 .. 32
    OBVIOUS
  <2>. QED BY <1>1, <2>1, NodesOfLevel DEF NodesExact
<1>. HIDE DEF m
<1>3. /\ Power(0) = 1 /\ Power(1) = 2 /\ Power(2) = 4 /\ Power(3) = 8 /\ Power(4) = 16
      /\ Power(5) = 32 /\ Power(6) = 64 /\ Power(7) = 128 /\ Power(8) = 256
  BY DEF Power
<1>4. /\ Power(k) \in Nat /\ Power(k) >= 1 /\ Power(k + 1) \in Nat /\ Power(n) \in Nat
      /\ Power(k + 1) <= Power(n)
  BY <1>3
<1>5. m \in 1 .. 2 ^ n - 1
  BY <1>2, <1>4 DEF Power
<1>. QED BY <1>5 DEF m

\* Each slot has at least one distance, so that a slot's trees leave no gap.
LEMMA CellsApart ==
    ASSUME NEW n \in 0 .. 64
    PROVE  /\ Base(n) - n \in Nat
           /\ \A i \in 0 .. n - 1 : Base(i) - i + 2 ^ NumDirectBits(i) - 1 <= Base(n) - n
<1>. DEFINE S == {k \in 0 .. 64 : /\ Base(k) \in Nat /\ Base(k) - k \in Nat
                                   /\ \A i \in 0 .. k - 1 :
                                         (Base(i) - i) + (2 ^ NumDirectBits(i) - 1) <= Base(k) - k}
<1>1. 0 \in S
  BY DEF Base
<1>2. ASSUME NEW k \in 0 .. 63, k \in S PROVE k + 1 \in S
  <2>1. /\ Base(k) \in Nat /\ 2 ^ NumDirectBits(k) \in Nat /\ 2 ^ NumDirectBits(k) >= 1
        /\ Base(k + 1) = Base(k) + 2 ^ NumDirectBits(k)
    BY BaseSteps
  <2>2. Base(k + 1) \in Nat /\ Base(k + 1) - (k + 1) \in Nat
    BY <1>2, <2>1
  <2>3. ASSUME NEW i \in 0 .. (k + 1) - 1
        PROVE  (Base(i) - i) + (2 ^ NumDirectBits(i) - 1) <= Base(k + 1) - (k + 1)
    <3>0. i \in 0 .. 63
      OBVIOUS
    <3>1. Base(i) \in Nat /\ 2 ^ NumDirectBits(i) \in Nat
      BY <3>0, BaseSteps
    <3>2. CASE i = k
      BY <2>1, <3>2
    <3>3. CASE i \in 0 .. k - 1
      <4>1. (Base(i) - i) + (2 ^ NumDirectBits(i) - 1) <= Base(k) - k
        BY <1>2, <3>3
      <4>. QED BY <2>1, <3>1, <4>1
    <3>. QED BY <3>2, <3>3
  <2>. QED BY <2>2, <2>3
<1>3. 0 .. 64 \subseteq S
  <2>. HIDE DEF S
  <2>1. \A k \in 0 .. 64 - 1 : k \in S => k + 1 \in S
    BY <1>2
  <2>. QED BY <1>1, <2>1, Upwards
<1>4. /\ Base(n) \in Nat /\ Base(n) - n \in Nat
      /\ \A i \in 0 .. n - 1 : (Base(i) - i) + (2 ^ NumDirectBits(i) - 1) <= Base(n) - n
  BY <1>3
<1>5. ASSUME NEW i \in 0 .. n - 1
      PROVE  Base(i) - i + 2 ^ NumDirectBits(i) - 1 <= Base(n) - n
  <2>1. i \in 0 .. 63
    OBVIOUS
  <2>2. Base(i) \in Nat /\ 2 ^ NumDirectBits(i) \in Nat
    BY <2>1, BaseSteps
  <2>3. (Base(i) - i) + (2 ^ NumDirectBits(i) - 1) <= Base(n) - n
    BY <1>4
  <2>. QED BY <1>4, <2>2, <2>3
<1>. QED BY <1>4, <1>5

LEMMA CellsOfSlot ==
    ASSUME NEW slot \in PosDecSlots, NEW x \in PosDecCells(slot)
    PROVE  x \in Base(slot) - slot + 1 .. Base(slot) - slot + 2 ^ NumDirectBits(slot) - 1
<1>. DEFINE n == NumDirectBits(slot)
<1>1. slot \in 4 .. 13 /\ slot \in 0 .. 63
  BY DEF PosDecSlots, end_pos_model_ix
<1>2. n \in 1 .. 8
  BY <1>1 DEF NumDirectBits
<1>. HIDE DEF n
<1>3. PICK c \in Codes(n) : \E m \in Nodes(c) : x = PosDecCell(slot, m)
  BY DEF PosDecCells, n
<1>4. PICK k \in 0 .. n - 1 : x = PosDecCell(slot, Node(SubSeq(c, 1, k)))
  <2>1. Len(c) = n
    BY <1>2, CodeIsSeq
  <2>. QED BY <1>3, <2>1 DEF Nodes
<1>5. Node(SubSeq(c, 1, k)) \in 1 .. 2 ^ n - 1
  BY <1>2, NodesBelow
<1>6. Base(slot) \in Nat /\ 2 ^ n \in Nat
  BY <1>1, BaseSteps DEF n
<1>7. x = Base(slot) - slot + Node(SubSeq(c, 1, k))
  BY <1>4 DEF PosDecCell
<1>8. x \in Base(slot) - slot + 1 .. Base(slot) - slot + 2 ^ n - 1
  BY <1>1, <1>5, <1>6, <1>7
<1>. QED BY <1>8 DEF n

LEMMA LastTree == Base(14) = 128 /\ n_full_dists - end_pos_model_ix = 114
<1>. DEFINE N == 14
<1>1. N = 14
  OBVIOUS
<1>2. n_full_dists - end_pos_model_ix = 114
  <2>1. end_pos_model_ix \div 2 = 7 /\ 2 ^ 7 = 128
    BY DEF end_pos_model_ix
  <2>2. n_full_dists = 128
    BY <2>1, Zenon DEF n_full_dists
  <2>. QED BY <2>2 DEF end_pos_model_ix
<1>. HIDE DEF N
<1>3. NumDirectBits(N) = 6 /\ N % 2 = 0 /\ ~(N < 4)
  BY <1>1 DEF NumDirectBits
<1>4. Base(N) = (2 + 0) * 2 ^ 6
  BY <1>3, Zenon DEF Base
<1>5. (2 + 0) * 2 ^ 6 = 128
  OBVIOUS
<1>. QED BY <1>2, <1>4, <1>5 DEF N

\* The trees of pos_decs do not overlap and fill no more than the array.
LEMMA TreesFit ==
    \A s, t \in PosDecSlots :
       /\ PosDecCells(s) \subseteq 1 .. n_full_dists - end_pos_model_ix
       /\ s # t => PosDecCells(s) \intersect PosDecCells(t) = {}
<1>1. PosDecSlots = 4 .. 13
  BY DEF PosDecSlots, end_pos_model_ix
<1>2. ASSUME NEW s \in PosDecSlots, NEW x \in PosDecCells(s)
      PROVE  x \in 1 .. n_full_dists - end_pos_model_ix
  <2>1. x \in Base(s) - s + 1 .. Base(s) - s + 2 ^ NumDirectBits(s) - 1
    BY CellsOfSlot
  <2>2. s \in 0 .. 64 /\ s \in 0 .. 63
    BY <1>1
  <2>3. Base(s) \in Nat /\ 2 ^ NumDirectBits(s) \in Nat
    BY <2>2, BaseSteps
  <2>4. Base(s) - s \in Nat
    BY <2>2, CellsApart
  <2>. DEFINE N == 14
  <2>5. N \in 0 .. 64 /\ s \in 0 .. N - 1 /\ N = 14
    BY <1>1
  <2>6. Base(N) = 128 /\ n_full_dists - end_pos_model_ix = 114
    BY LastTree
  <2>. HIDE DEF N
  <2>7. Base(s) - s + 2 ^ NumDirectBits(s) - 1 <= Base(N) - N
    BY <2>5, CellsApart
  <2>. QED BY <2>1, <2>2, <2>3, <2>4, <2>5, <2>6, <2>7
<1>3. ASSUME NEW s \in PosDecSlots, NEW t \in PosDecSlots, s < t,
             NEW x \in PosDecCells(s), x \in PosDecCells(t)
      PROVE  FALSE
  <2>1. x \in Base(s) - s + 1 .. Base(s) - s + 2 ^ NumDirectBits(s) - 1
    BY CellsOfSlot
  <2>2. x \in Base(t) - t + 1 .. Base(t) - t + 2 ^ NumDirectBits(t) - 1
    BY <1>3, CellsOfSlot
  <2>3. /\ s \in 0 .. 63 /\ t \in 0 .. 63 /\ t \in 0 .. 64 /\ s \in 0 .. t - 1
    BY <1>1, <1>3
  <2>4. Base(s) - s + 2 ^ NumDirectBits(s) - 1 <= Base(t) - t
    BY <2>3, CellsApart
  <2>5. Base(s) \in Nat /\ 2 ^ NumDirectBits(s) \in Nat
    BY <2>3, BaseSteps
  <2>6. Base(t) \in Nat /\ 2 ^ NumDirectBits(t) \in Nat
    BY <2>3, BaseSteps
  <2>. QED BY <2>1, <2>2, <2>3, <2>4, <2>5, <2>6
<1>4. ASSUME NEW s \in PosDecSlots, NEW t \in PosDecSlots, s # t
      PROVE  PosDecCells(s) \intersect PosDecCells(t) = {}
  <2>1. s < t \/ t < s
    BY <1>1, <1>4
  <2>. QED BY <1>3, <2>1
<1>. QED BY <1>2, <1>4

\* Powers of two that the literals' states need.
LEMMA PowersMultiply ==
    ASSUME NEW a \in 0 .. 8, NEW b \in 0 .. 8 PROVE Power(a + b) = Power(a) * Power(b)
<1>. DEFINE S == {k \in 0 .. 8 : Power(a + k) = Power(a) * Power(k)}
<1>0. Power(a) \in Nat
  <2>1. a \in 0 .. 32
    OBVIOUS
  <2>. QED BY <2>1, Powers DEF Power
<1>1. 0 \in S
  <2>1. Power(0) = 1
    BY DEF Power
  <2>. QED BY <1>0, <2>1
<1>2. ASSUME NEW k \in 0 .. 7, k \in S PROVE k + 1 \in S
  <2>1. k \in 0 .. 32 /\ a + k \in 0 .. 32 /\ (a + k) + 1 = a + (k + 1)
    OBVIOUS
  <2>2. Power(k) \in Nat /\ Power(k + 1) = 2 * Power(k)
    BY <2>1, Powers DEF Power
  <2>3. Power(a + (k + 1)) = 2 * Power(a + k)
    BY <2>1, Powers DEF Power
  <2>4. \A x, y \in Nat : 2 * (x * y) = x * (2 * y)
    OBVIOUS
  <2>. QED BY <1>0, <1>2, <2>2, <2>3, <2>4
<1>3. 0 .. 8 \subseteq S
  <2>. HIDE DEF S
  <2>1. \A k \in 0 .. 8 - 1 : k \in S => k + 1 \in S
    BY <1>2
  <2>. QED BY <1>1, <2>1, Upwards
<1>. QED BY <1>3

\* The first bytes of a header that dec_lzma_props accepts.
PropsBytes == 0 .. 9 * 5 * 5 - 1

\* A number made of high and low bits tells both.
LEMMA TellsBoth ==
    ASSUME NEW k \in 0 .. 8, NEW x \in Nat, NEW y \in 0 .. 2 ^ k - 1
    PROVE  (x * 2 ^ k + y) \div 2 ^ k = x /\ (x * 2 ^ k + y) % 2 ^ k = y
<1>1. CASE k = 0
  BY <1>1
<1>2. CASE k = 1
  BY <1>2
<1>3. CASE k = 2
  BY <1>3
<1>4. CASE k = 3
  BY <1>4
<1>5. CASE k = 4
  BY <1>5
<1>6. CASE k = 5
  BY <1>6
<1>7. CASE k = 6
  BY <1>7
<1>8. CASE k = 7
  BY <1>8
<1>9. CASE k = 8
  BY <1>9
<1>. QED BY <1>1, <1>2, <1>3, <1>4, <1>5, <1>6, <1>7, <1>8, <1>9

AnyByte == 0 .. 255

\* What CellsFit says of one literal's state.
LitStateFits(d, total, prev) ==
    /\ LitState(d, total, prev) \div 2 ^ Lc(d) = total % 2 ^ Lp(d)
    /\ LitState(d, total, prev) % 2 ^ Lc(d) = prev \div 2 ^ (8 - Lc(d))
    /\ 768 * (LitState(d, total, prev) + 1) <= NumLitProbs(d)

\* A literal's state tells the bits that it is made of, and is below the number
\* of states that dec_lzma_props made room for.
LEMMA LiteralsFit ==
    ASSUME NEW d \in PropsBytes, NEW prev \in AnyByte, NEW total \in Nat
    PROVE  LitStateFits(d, total, prev)
<1>. DEFINE lc == Lc(d)
            lp == Lp(d)
            A == Power(lp)
            B == Power(lc)
            C == Power(8 - lc)
<1>1. lc \in 0 .. 8 /\ lp \in 0 .. 4 /\ 8 - lc \in 0 .. 8
  BY DEF Lc, Lp, PropsBytes
<1>. HIDE DEF lc, lp
<1>2. A \in Nat /\ A >= 1
  <2>1. lp \in 0 .. 32
    BY <1>1
  <2>. QED BY <2>1, Powers DEF Power
<1>3. B \in Nat /\ B >= 1
  <2>1. lc \in 0 .. 32
    BY <1>1
  <2>. QED BY <2>1, Powers DEF Power
<1>4. C \in Nat /\ C >= 1
  <2>1. 8 - lc \in 0 .. 32
    BY <1>1
  <2>. QED BY <2>1, Powers DEF Power
<1>5. Power(lc + lp) = B * A
  <2>1. lp \in 0 .. 8
    BY <1>1
  <2>. QED BY <1>1, <2>1, PowersMultiply
<1>6. B * C = 256
  <2>1. Power(lc + (8 - lc)) = B * C
    BY <1>1, PowersMultiply
  <2>2. lc + (8 - lc) = 8 /\ Power(8) = 256
    BY <1>1 DEF Power
  <2>. QED BY <2>1, <2>2
<1>7. /\ LitState(d, total, prev) = (total % A) * B + prev \div C
      /\ NumLitProbs(d) = 768 * Power(lc + lp)
  BY DEF LitState, NumLitProbs, Power, lc, lp
<1>. HIDE DEF A, B, C
<1>8. total % A \in 0 .. A - 1
  BY <1>2
<1>9. prev \div C \in 0 .. B - 1
  <2>0. prev \in Nat /\ prev < 256
    BY DEF AnyByte
  <2>1. prev < B * C
    BY <1>6, <2>0
  <2>2. PICK q \in Nat : q = prev \div C /\ q * C <= prev
    BY <1>4, <2>0
  <2>3. ASSUME q >= B PROVE FALSE
    <3>1. B * C <= q * C
      BY <1>3, <1>4, <2>3
    <3>. QED BY <1>3, <1>4, <2>0, <2>1, <2>2, <3>1
  <2>. QED BY <1>3, <2>2, <2>3
<1>10. (total % A) * B + B <= B * A
  <2>. DEFINE x == total % A
  <2>1. x \in Nat /\ x + 1 <= A
    BY <1>2, <1>8
  <2>. HIDE DEF x
  <2>2. (x + 1) * B <= A * B
    BY <1>2, <1>3, <2>1
  <2>3. (x + 1) * B = x * B + B /\ A * B = B * A
    BY <1>2, <1>3, <2>1
  <2>. QED BY <2>2, <2>3 DEF x
<1>11. (total % A) * B + prev \div C + 1 <= B * A
  <2>. DEFINE x == (total % A) * B
              y == prev \div C
              z == B * A
  <2>1. x \in Nat /\ y \in Nat /\ z \in Nat /\ x + B <= z /\ y + 1 <= B
    BY <1>2, <1>3, <1>8, <1>9, <1>10
  <2>. HIDE DEF x, y, z
  <2>2. x + y + 1 <= z
    BY <1>3, <2>1
  <2>. QED BY <2>2 DEF x, y, z
<1>12. LitState(d, total, prev) \in Nat /\ B * A \in Nat
  BY <1>2, <1>3, <1>7, <1>8, <1>9
<1>13. LitState(d, total, prev) + 1 <= B * A
  BY <1>7, <1>11
<1>0. /\ LitState(d, total, prev) \div B = total % A
      /\ LitState(d, total, prev) % B = prev \div C
  <2>. DEFINE x == total % A
              y == prev \div C
  <2>1. x \in Nat /\ y \in 0 .. B - 1 /\ lc \in 0 .. 8 /\ B = 2 ^ lc
    BY <1>1, <1>2, <1>8, <1>9 DEF B, Power
  <2>2. LitState(d, total, prev) = x * B + y
    BY <1>7
  <2>. HIDE DEF x, y
  <2>3. y \in 0 .. 2 ^ lc - 1
    BY <2>1
  <2>4. (x * 2 ^ lc + y) \div 2 ^ lc = x /\ (x * 2 ^ lc + y) % 2 ^ lc = y
    BY <2>1, <2>3, TellsBoth
  <2>. QED BY <2>1, <2>2, <2>4 DEF x, y
<1>. DEFINE s == LitState(d, total, prev)
            z == B * A
<1>14. NumLitProbs(d) = 768 * z
  BY <1>5, <1>7
<1>. HIDE DEF s, z
<1>15. 768 * (s + 1) <= 768 * z
  BY <1>12, <1>13 DEF s, z
<1>16. 768 * (LitState(d, total, prev) + 1) <= NumLitProbs(d)
  BY <1>14, <1>15 DEF s
<1>17. /\ LitState(d, total, prev) \div 2 ^ Lc(d) = total % 2 ^ Lp(d)
       /\ LitState(d, total, prev) % 2 ^ Lc(d) = prev \div 2 ^ (8 - Lc(d))
  BY <1>0, Zenon DEF A, B, C, lc, lp, Power
<1>. QED BY <1>16, <1>17, Zenon DEF LitStateFits

\* The cell of each bit of a literal after a match lies in its state's 768.
MatchedCells == 1 .. 767

LEMMA MatchedFits ==
    ASSUME NEW code \in Codes(8), NEW match \in AnyByte, NEW k \in 1 .. 8
    PROVE  MatchedCell(code, match, k) \in MatchedCells
<1>. USE DEF AnyByte, MatchedCells
<1>. DEFINE sym == Node(SubSeq(code, 1, k - 1))
            bit == BitOf(match, k)
<1>1. sym \in 1 .. 255
  <2>. DEFINE n == 8
  <2>1. n \in 1 .. 8 /\ code \in Codes(n) /\ k - 1 \in 0 .. n - 1 /\ 2 ^ n - 1 = 255
    OBVIOUS
  <2>. HIDE DEF n
  <2>. QED BY <2>1, NodesBelow
<1>2. bit \in {0, 1}
  <2>1. 8 - k \in 0 .. 32
    OBVIOUS
  <2>2. 2 ^ (8 - k) \in Nat /\ 2 ^ (8 - k) >= 1
    BY <2>1, Powers
  <2>. DEFINE q == 2 ^ (8 - k)
  <2>. HIDE DEF q
  <2>3. \A x \in Nat : x % 2 \in {0, 1}
    OBVIOUS
  <2>4. match \div q \in Nat
    BY <2>2 DEF q
  <2>5. (match \div q) % 2 \in {0, 1}
    BY <2>3, <2>4
  <2>. QED BY <2>5 DEF BitOf, q
<1>3. MatchedCell(code, match, k) = (1 + bit) * 256 + sym \/ MatchedCell(code, match, k) = sym
  BY DEF MatchedCell
<1>. DEFINE cell == MatchedCell(code, match, k)
<1>. HIDE DEF sym, bit, cell
<1>4. CASE cell = (1 + bit) * 256 + sym
  <2>1. (1 + bit) * 256 = 256 \/ (1 + bit) * 256 = 512
    BY <1>2
  <2>. QED BY <2>1, <1>1, <1>4 DEF cell
<1>5. CASE cell = sym
  BY <1>1, <1>5 DEF cell
<1>. QED BY <1>3, <1>4, <1>5 DEF cell

LEMMA CellsFitHolds == CellsFit
<1>1. ASSUME NEW d \in PropsBytes, NEW prev \in 0 .. 255, NEW total \in {0, 6, 15}
      PROVE  LitStateFits(d, total, prev)
  <2>1. total \in Nat
    OBVIOUS
  <2>2. prev \in AnyByte
    BY DEF AnyByte
  <2>. QED BY <2>1, <2>2, LiteralsFit, Zenon
<1>2. ASSUME NEW code \in Codes(8), NEW match \in {0, 85, 255}, NEW k \in 1 .. 8
      PROVE  MatchedCell(code, match, k) \in MatchedCells
  <2>1. match \in AnyByte
    BY DEF AnyByte
  <2>. QED BY <2>1, MatchedFits, Zenon
<1>3. \A d \in PropsBytes : \A prev \in 0 .. 255 : \A total \in {0, 6, 15} :
         LitStateFits(d, total, prev)
  BY <1>1, Zenon
<1>4. \A code \in Codes(8), match \in {0, 85, 255} : \A k \in 1 .. 8 :
         MatchedCell(code, match, k) \in MatchedCells
  BY <1>2, Zenon
<1>. QED BY <1>3, <1>4, TreesFit, Zenon DEF CellsFit, PropsBytes, MatchedCells, LitStateFits

-----------------------------------------------------------------------------
\* StreamIsClear: whatever the width of a slot, every length and every distance
\* has one code, the trees of low bits do not meet, no two contexts of literals
\* share a state and every cell lies in its array (lzma.cpp:169-280, 338-389).
THEOREM StreamCorrect == Spec => []StreamIsClear
<1>1. StreamIsClear
  BY OneCodeEachHolds, CellsFitHolds DEF StreamIsClear
<1>2. Spec => []StreamIsClear
  BY <1>1, PTL
<1>. QED BY <1>2

=============================================================================
