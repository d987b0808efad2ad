----------------------------- MODULE TimeProofs -----------------------------
(***************************************************************************)
(* Proofs about Time for any word and any lengths of the units that fit    *)
(* it.  Everything is reduced to Length, the number of picoseconds of an   *)
(* interval: an interval is determined by it, sums and differences are     *)
(* those of the lengths, and a number of units is a rounded quotient.      *)
(***************************************************************************)
EXTENDS Time, TLAPS

-----------------------------------------------------------------------------
(* Numbers. *)

LEMMA MulMono == \A a, b, c \in Nat : a <= b => a * c <= b * c
OBVIOUS

LEMMA MulMonoLess == \A a, b, c \in Nat : a < b /\ c > 0 => a * c < b * c
OBVIOUS

LEMMA DivFacts ==
    ASSUME NEW x \in Nat, NEW n \in Nat, n > 0
    PROVE  /\ x \div n \in Nat /\ x % n \in Nat /\ x % n < n
           /\ x = (x \div n) * n + (x % n)
           /\ (x \div n) * n <= x
           /\ x < (x \div n) * n + n
OBVIOUS

LEMMA DivUnique ==
    ASSUME NEW x \in Nat, NEW n \in Nat, n > 0, NEW q \in Nat,
           q * n <= x, x < q * n + n
    PROVE  x \div n = q
<1>. DEFINE k == x \div n
<1>1. k \in Nat /\ k * n <= x /\ x < k * n + n
  BY DivFacts
<1>. HIDE DEF k
<1>2. k * n \in Nat /\ q * n \in Nat
  BY <1>1
<1>3. ~(k < q)
  <2>1. SUFFICES ASSUME k < q PROVE FALSE
    OBVIOUS
  <2>2. (k + 1) * n <= q * n
    BY <1>1, <2>1, MulMono
  <2>3. (k + 1) * n = k * n + n
    BY <1>1
  <2>. QED BY <1>1, <1>2, <2>2, <2>3
<1>4. ~(q < k)
  <2>1. SUFFICES ASSUME q < k PROVE FALSE
    OBVIOUS
  <2>2. (q + 1) * n <= k * n
    BY <1>1, <2>1, MulMono
  <2>3. (q + 1) * n = q * n + n
    OBVIOUS
  <2>. QED BY <1>1, <1>2, <2>2, <2>3
<1>5. k = q
  BY <1>1, <1>3, <1>4
<1>. QED BY <1>5 DEF k

LEMMA ModUnique ==
    ASSUME NEW x \in Nat, NEW n \in Nat, n > 0, NEW q \in Nat, NEW r \in Nat,
           r < n, x = q * n + r
    PROVE  x % n = r
<1>1. q * n \in Nat /\ x \div n = q
  BY DivUnique
<1>2. x = (x \div n) * n + (x % n) /\ x % n \in Nat
  BY DivFacts
<1>. QED BY <1>1, <1>2

LEMMA ModSmall ==
    ASSUME NEW x \in Int, NEW n \in Nat, n > 0
    PROVE  /\ x % n \in 0 .. n - 1
           /\ 0 <= x /\ x < n => x % n = x
           /\ x < 0 /\ 0 - n <= x => x % n = x + n
           /\ n <= x /\ x < n + n => x % n = x - n
OBVIOUS

-----------------------------------------------------------------------------
(* The constants. *)

Units == {Nano, Clunk, Sec}

LEMMA Words ==
    /\ Word \in Nat /\ Day \in Nat /\ Day >= 2 /\ Word >= Day + Day
    /\ UnixEpoch \in Nat /\ WinEpoch \in Nat /\ WinEpoch < UnixEpoch
    /\ MaxWord \in Nat /\ MaxWord + 1 = Word
    /\ MaxSigned \in Nat /\ MaxSigned + MaxSigned + 2 <= Word /\ MaxSigned >= 1
    /\ UnixEpoch <= MaxSigned
<1>1. /\ Word \in Nat /\ Day \in Nat /\ Day > 0 /\ Word >= 2 * Day
      /\ UnixEpoch \in Nat /\ WinEpoch \in Nat /\ WinEpoch < UnixEpoch
      /\ UnixEpoch < Word \div 2
      /\ Sec \in Nat /\ Sec > 1 /\ Day % Sec = 0
  BY TimeAssumption
<1>2. Day >= 2
  BY <1>1, ModSmall
<1>3. Word \div 2 \in Nat /\ (Word \div 2) * 2 <= Word /\ Word \div 2 >= 2
  BY <1>1, <1>2
<1>. QED BY <1>1, <1>2, <1>3 DEF MaxWord, MaxSigned

\* A unit is twice its half, and a day so many units.
IsUnit(unit, h, p) ==
    /\ unit \in Nat /\ h \in Nat /\ p \in Nat
    /\ h > 0 /\ p > 0 /\ unit = h + h /\ unit \div 2 = h
    /\ Day \div unit = p /\ p * unit = Day /\ unit <= Day

LEMMA UnitIs ==
    ASSUME NEW unit \in Units
    PROVE  \E h, p \in Nat : IsUnit(unit, h, p)
<1>1. unit \in Nat /\ unit > 1 /\ unit % 2 = 0 /\ Day % unit = 0 /\ Day \in Nat /\ Day >= 2
  BY TimeAssumption, Words DEF Units
<1>. DEFINE h == unit \div 2
            p == Day \div unit
<1>2. h \in Nat /\ unit = h + h /\ h > 0
  BY <1>1
<1>3. p \in Nat /\ p * unit + (Day % unit) = Day
  BY <1>1, DivFacts
<1>4. p * unit = Day
  BY <1>1, <1>3
<1>. HIDE DEF p
<1>5. p > 0
  BY <1>1, <1>3, <1>4
<1>6. unit <= Day
  <2>1. 1 * unit <= p * unit
    BY <1>1, <1>3, <1>5, MulMono
  <2>. QED BY <1>1, <1>4, <2>1
<1>7. IsUnit(unit, h, p)
  BY <1>1, <1>2, <1>3, <1>4, <1>5, <1>6 DEF IsUnit, p
<1>. QED BY <1>2, <1>3, <1>7

-----------------------------------------------------------------------------
(* Lengths. *)

LEMMA InterIs ==
    ASSUME NEW a \in Inters
    PROVE  /\ a.days \in Nat /\ a.days < Word /\ a.picos \in Nat /\ a.picos < Day
           /\ a = [days |-> a.days, picos |-> a.picos]
           /\ Length(a) \in Nat
<1>1. /\ a.days \in Nat /\ a.days < Word /\ a.picos \in Nat /\ a.picos < Day
      /\ a = [days |-> a.days, picos |-> a.picos]
  BY Words DEF Inters, MaxWord
<1>2. Length(a) \in Nat
  BY <1>1, Words DEF Length
<1>. QED BY <1>1, <1>2

LEMMA MakeInter ==
    ASSUME NEW d \in Nat, NEW p \in Nat, d < Word, p < Day
    PROVE  /\ [days |-> d, picos |-> p] \in Inters
           /\ Length([days |-> d, picos |-> p]) = d * Day + p
BY Words DEF Inters, Length, MaxWord

LEMMA LengthLess ==
    ASSUME NEW a \in Inters, NEW b \in Inters
    PROVE  /\ a.days < b.days => Length(a) < Length(b)
           /\ a.days = b.days => Length(b) - Length(a) = b.picos - a.picos
<1>. DEFINE x == a.days * Day
            y == b.days * Day
<1>1. /\ a.days \in Nat /\ b.days \in Nat /\ a.picos \in Nat /\ a.picos < Day /\ Day \in Nat
      /\ b.picos \in Nat /\ x \in Nat /\ y \in Nat
  BY InterIs, Words
<1>2. a.days < b.days => x + Day <= y
  <2>1. SUFFICES ASSUME a.days < b.days PROVE x + Day <= y
    OBVIOUS
  <2>2. (a.days + 1) * Day <= b.days * Day
    BY <1>1, <2>1, MulMono
  <2>3. (a.days + 1) * Day = x + Day
    BY <1>1
  <2>. QED BY <2>2, <2>3
<1>3. a.days = b.days => x = y
  OBVIOUS
<1>4. Length(a) = x + a.picos /\ Length(b) = y + b.picos
  BY DEF Length
<1>. HIDE DEF x, y
<1>. QED BY <1>1, <1>2, <1>3, <1>4

LEMMA LengthDecides ==
    ASSUME NEW a \in Inters, NEW b \in Inters, Length(a) = Length(b)
    PROVE  a = b
<1>1. a.days \in Nat /\ b.days \in Nat /\ a.picos \in Nat /\ b.picos \in Nat
      /\ Length(a) \in Nat /\ Length(b) \in Nat
  BY InterIs
<1>2. a.days = b.days
  BY <1>1, LengthLess
<1>3. a.picos = b.picos
  BY <1>1, <1>2, LengthLess
<1>. QED BY <1>2, <1>3, InterIs

LEMMA RelationIs ==
    ASSUME NEW a \in Inters, NEW b \in Inters
    PROVE  Relation(a, b) = 0 <=> Length(a) < Length(b)
<1>1. a.days \in Nat /\ b.days \in Nat /\ a.picos \in Nat /\ b.picos \in Nat
      /\ Length(a) \in Nat /\ Length(b) \in Nat
  BY InterIs
<1>2. CASE a.days < b.days
  BY <1>1, <1>2, LengthLess DEF Relation
<1>3. CASE b.days < a.days
  BY <1>1, <1>3, LengthLess DEF Relation
<1>4. CASE a.days = b.days
  BY <1>1, <1>4, LengthLess DEF Relation
<1>. QED BY <1>1, <1>2, <1>3, <1>4

LEMMA PlusIs ==
    ASSUME NEW a \in Inters, NEW b \in Inters
    PROVE  /\ Plus(a, b) \in Inters
           /\ Length(Plus(a, b)) = (Length(a) + Length(b)) % (Word * Day)
<1>. DEFINE sum == a.picos + b.picos
            over == IF sum >= Day THEN 1 ELSE 0
            d == a.days + b.days + over
            p == sum - over * Day
            all == Word * Day
<1>1. /\ a.days \in Nat /\ b.days \in Nat /\ a.picos \in Nat /\ b.picos \in Nat
      /\ a.days < Word /\ b.days < Word /\ a.picos < Day /\ b.picos < Day
      /\ Word \in Nat /\ Day \in Nat /\ Day > 0 /\ Word > 0
  BY InterIs, Words
<1>2. over \in Nat /\ over <= 1 /\ p \in Nat /\ p < Day /\ sum = over * Day + p
  BY <1>1
<1>. HIDE DEF over, p
<1>3. d \in Nat /\ d < Word + Word
  BY <1>1, <1>2
<1>4. Length(a) + Length(b) = d * Day + p
  <2>1. d * Day = a.days * Day + b.days * Day + over * Day
    BY <1>1, <1>2
  <2>2. a.days * Day \in Nat /\ b.days * Day \in Nat /\ over * Day \in Nat
    BY <1>1, <1>2
  <2>3. Length(a) = a.days * Day + a.picos /\ Length(b) = b.days * Day + b.picos
    BY DEF Length
  <2>. DEFINE x == a.days * Day
              y == b.days * Day
              z == over * Day
              u == a.picos
              v == b.picos
  <2>4. x \in Nat /\ y \in Nat /\ z \in Nat /\ u \in Nat /\ v \in Nat /\ p \in Nat
        /\ u + v = z + p /\ d * Day = x + y + z
        /\ Length(a) = x + u /\ Length(b) = y + v
    BY <1>1, <1>2, <2>1, <2>2, <2>3
  <2>. HIDE DEF d, x, y, z, u, v
  <2>5. (x + u) + (y + v) = (x + y + z) + p
    BY <2>4
  <2>6. Length(a) + Length(b) = (x + u) + (y + v)
    BY <2>4
  <2>7. d * Day + p = (x + y + z) + p
    BY <2>4
  <2>. QED BY <2>5, <2>6, <2>7
<1>5. Plus(a, b) = [days |-> d % Word, picos |-> p]
  BY DEF Plus, over, p
<1>. HIDE DEF d
<1>6. all \in Nat /\ all > 0
  <2>1. 1 * Day <= Word * Day
    BY <1>1, MulMono
  <2>. QED BY <1>1, <2>1
<1>7. \E r, q \in Nat : d % Word = r /\ r < Word /\ d = q * Word + r
  <2>1. /\ d \div Word \in Nat /\ d % Word \in Nat /\ d % Word < Word
        /\ d = (d \div Word) * Word + (d % Word)
    BY <1>1, <1>3, DivFacts
  <2>. QED BY <2>1
<1>8. PICK r \in Nat, q \in Nat : d % Word = r /\ r < Word /\ d = q * Word + r
  BY <1>7
<1>9. Plus(a, b) \in Inters /\ Length(Plus(a, b)) = r * Day + p
  BY <1>2, <1>5, <1>8, MakeInter
<1>10. r * Day + p \in Nat /\ r * Day + p < all
  <2>1. (r + 1) * Day <= Word * Day
    BY <1>1, <1>8, MulMono
  <2>2. (r + 1) * Day = r * Day + Day /\ r * Day \in Nat
    BY <1>1
  <2>. QED BY <1>1, <1>2, <1>6, <2>1, <2>2
<1>11. d * Day + p = q * all + (r * Day + p)
  <2>1. d * Day = q * (Word * Day) + r * Day
    BY <1>1, <1>8
  <2>2. q * all \in Nat /\ r * Day \in Nat
    BY <1>1, <1>6
  <2>. QED BY <1>2, <2>1, <2>2
<1>12. d * Day + p \in Nat
  BY <1>1, <1>2, <1>3
<1>. HIDE DEF all
<1>13. (d * Day + p) % all = r * Day + p
  BY <1>6, <1>10, <1>11, <1>12, ModUnique
<1>. QED BY <1>4, <1>9, <1>13 DEF all

\* A sum that fits.
LEMMA PlusFits ==
    ASSUME NEW a \in Inters, NEW b \in Inters, Length(a) + Length(b) < Word * Day
    PROVE  Plus(a, b) \in Inters /\ Length(Plus(a, b)) = Length(a) + Length(b)
<1>1. Length(a) + Length(b) \in Nat /\ Word * Day \in Nat
  BY InterIs, Words
<1>2. (Length(a) + Length(b)) % (Word * Day) = Length(a) + Length(b)
  <2>. DEFINE x == Length(a) + Length(b)
              n == Word * Day
  <2>1. x \in Nat /\ n \in Nat /\ x < n
    BY <1>1
  <2>. HIDE DEF x, n
  <2>2. x % n = x
    BY <2>1, ModSmall
  <2>. QED BY <2>2 DEF x, n
<1>. QED BY <1>2, PlusIs

LEMMA MinusIs ==
    ASSUME NEW a \in Inters, NEW b \in Inters, Length(a) >= Length(b)
    PROVE  Minus(a, b) \in Inters /\ Length(Minus(a, b)) = Length(a) - Length(b)
<1>1. /\ a.days \in Nat /\ b.days \in Nat /\ a.picos \in Nat /\ b.picos \in Nat
      /\ a.days < Word /\ b.days < Word /\ a.picos < Day /\ b.picos < Day
      /\ Word \in Nat /\ Day \in Nat /\ Day > 0 /\ Word >= Day + Day
      /\ Length(a) \in Nat /\ Length(b) \in Nat
  BY InterIs, Words
<1>2. a.days >= b.days /\ (a.days = b.days => a.picos >= b.picos)
  BY <1>1, LengthLess
<1>. DEFINE picos == (a.picos - b.picos) % Word
            under == IF picos >= Day THEN 1 ELSE 0
            d == a.days - b.days - under
            p == (picos + under * Day) % Word
<1>3. d \in Nat /\ d < Word /\ p \in Nat /\ p < Day
      /\ under \in Nat /\ p = a.picos - b.picos + under * Day
  <2>1. CASE a.picos >= b.picos
    <3>1. picos = a.picos - b.picos
      <4>. DEFINE x == a.picos - b.picos
      <4>1. x \in Int /\ 0 <= x /\ x < Word /\ Word > 0
        BY <1>1, <2>1
      <4>. HIDE DEF x
      <4>2. x % Word = x
        BY <1>1, <4>1, ModSmall
      <4>. QED BY <4>2 DEF x
    <3>2. under = 0
      BY <1>1, <2>1, <3>1
    <3>3. p = picos
      <4>1. picos + under * Day = picos /\ picos \in Int /\ 0 <= picos /\ picos < Word
        BY <1>1, <2>1, <3>1, <3>2
      <4>. HIDE DEF picos, under
      <4>. QED BY <1>1, <4>1, ModSmall
    <3>. HIDE DEF picos, under, p
    <3>. QED BY <1>1, <1>2, <2>1, <3>1, <3>2, <3>3
  <2>2. CASE a.picos < b.picos
    <3>1. picos = a.picos - b.picos + Word
      BY <1>1, <2>2, ModSmall
    <3>2. under = 1
      BY <1>1, <2>2, <3>1
    <3>3. p = a.picos - b.picos + Day
      <4>1. /\ picos + under * Day = a.picos - b.picos + Word + Day
            /\ Word <= picos + under * Day /\ picos + under * Day < Word + Word
            /\ picos + under * Day \in Int
        BY <1>1, <2>2, <3>1, <3>2
      <4>2. p = (picos + under * Day) - Word
        <5>. DEFINE x == picos + under * Day
        <5>1. x \in Int /\ Word <= x /\ x < Word + Word /\ p = x % Word /\ Word > 0
          BY <1>1, <4>1
        <5>. HIDE DEF x, p
        <5>2. x % Word = x - Word
          BY <1>1, <5>1, ModSmall
        <5>. QED BY <5>1, <5>2 DEF x
      <4>. QED BY <1>1, <4>1, <4>2
    <3>4. a.days > b.days
      BY <1>1, <1>2, <2>2
    <3>. HIDE DEF picos, under, p
    <3>. QED BY <1>1, <1>2, <2>2, <3>2, <3>3, <3>4
  <2>. QED BY <1>1, <2>1, <2>2
<1>4. d % Word = d
  <2>. HIDE DEF d
  <2>. QED BY <1>1, <1>3, ModSmall
<1>5. Minus(a, b) = [days |-> d, picos |-> p]
  BY <1>4 DEF Minus
<1>6. d * Day + p = Length(a) - Length(b)
  <2>. HIDE DEF under, p
  <2>1. d * Day = a.days * Day - b.days * Day - under * Day
    BY <1>1, <1>3
  <2>2. a.days * Day \in Nat /\ b.days * Day \in Nat /\ under * Day \in Nat
    BY <1>1, <1>3
  <2>. QED BY <1>1, <1>3, <2>1, <2>2 DEF Length
<1>. HIDE DEF d, p
<1>. QED BY <1>3, <1>5, <1>6, MakeInter

-----------------------------------------------------------------------------
(* Units. *)

\* A quotient, rounded to the nearest and halves down.
Rounded(x, unit) == (x + unit \div 2 - 1) \div unit

LEMMA RoundedIs ==
    ASSUME NEW unit \in Units, NEW x \in Nat
    PROVE  /\ Rounded(x, unit) \in Nat
           /\ 2 * (x - Rounded(x, unit) * unit) > 0 - unit
           /\ 2 * (x - Rounded(x, unit) * unit) <= unit
<1>1. PICK h \in Nat, p \in Nat : IsUnit(unit, h, p)
  BY UnitIs
<1>. DEFINE y == x + h - 1
            q == y \div unit
<1>2. y \in Nat /\ unit \in Nat /\ unit > 0 /\ h \in Nat /\ unit = h + h
  BY <1>1 DEF IsUnit
<1>3. Rounded(x, unit) = q
  BY <1>1 DEF Rounded, IsUnit
<1>4. q \in Nat /\ q * unit <= y /\ y < q * unit + unit
  BY <1>2, DivFacts
<1>. DEFINE z == q * unit
<1>5. z \in Nat
  BY <1>2, <1>4
<1>. HIDE DEF q
<1>6. 2 * (x - z) > 0 - unit /\ 2 * (x - z) <= unit
  <2>. HIDE DEF z
  <2>1. z <= x + h - 1 /\ x + h - 1 < z + unit
    BY <1>4 DEF z
  <2>. QED BY <1>2, <1>5, <2>1
<1>. QED BY <1>3, <1>4, <1>6

LEMMA RoundedUnique ==
    ASSUME NEW unit \in Units, NEW x \in Nat, NEW q \in Nat,
           2 * (x - q * unit) > 0 - unit, 2 * (x - q * unit) <= unit
    PROVE  Rounded(x, unit) = q
<1>1. PICK h \in Nat, p \in Nat : IsUnit(unit, h, p)
  BY UnitIs
<1>. DEFINE y == x + h - 1
            z == q * unit
<1>2. y \in Nat /\ unit \in Nat /\ unit > 0 /\ h \in Nat /\ h > 0 /\ unit = h + h
  BY <1>1 DEF IsUnit
<1>3. z \in Nat
  BY <1>2
<1>4. z <= y /\ y < z + unit
  <2>1. 2 * (x - z) > 0 - unit /\ 2 * (x - z) <= unit
    OBVIOUS
  <2>. HIDE DEF z
  <2>. QED BY <1>2, <1>3, <2>1
<1>5. y \div unit = q
  <2>. HIDE DEF y
  <2>. QED BY <1>2, <1>4, DivUnique
<1>. QED BY <1>1, <1>5 DEF Rounded, IsUnit

\* The number of units of an interval is its length, rounded, if a word holds it.
LEMMA DivideIs ==
    ASSUME NEW unit \in Units, NEW a \in Inters
    PROVE  Divide(a, unit) = IF Rounded(Length(a), unit) > MaxWord THEN MaxWord
                             ELSE Rounded(Length(a), unit)
<1>1. PICK h \in Nat, n \in Nat : IsUnit(unit, h, n)
  BY UnitIs
<1>2. /\ unit \in Nat /\ unit > 0 /\ h > 0 /\ n > 0 /\ unit = h + h /\ n * unit = Day
      /\ unit \div 2 = h /\ Day \div unit = n
  BY <1>1 DEF IsUnit
<1>3. /\ a.days \in Nat /\ a.days < Word /\ a.picos \in Nat /\ Length(a) \in Nat
      /\ Word \in Nat /\ Word > 0 /\ MaxWord \in Nat /\ MaxWord + 1 = Word
  BY InterIs, Words
<1>. DEFINE all == a.days * n
            days == all % Word
            q == Rounded(a.picos, unit)
<1>4. all \in Nat /\ q \in Nat
  BY <1>2, <1>3, RoundedIs
<1>5. Rounded(Length(a), unit) = all + q
  <2>1. 2 * (a.picos - q * unit) > 0 - unit /\ 2 * (a.picos - q * unit) <= unit
    BY <1>3, RoundedIs
  <2>2. Length(a) = all * unit + a.picos
    <3>1. a.days * Day = all * unit
      <4>1. n * unit = Day /\ n \in Nat /\ unit \in Nat /\ a.days \in Nat
        BY <1>2, <1>3
      <4>2. a.days * (n * unit) = (a.days * n) * unit
        BY <4>1
      <4>. QED BY <4>1, <4>2
    <3>. QED BY <3>1 DEF Length
  <2>. HIDE DEF q, all
  <2>3. (all + q) * unit = all * unit + q * unit /\ all * unit \in Nat /\ q * unit \in Nat
    BY <1>2, <1>4
  <2>4. Length(a) - (all + q) * unit = a.picos - q * unit
    BY <1>3, <2>2, <2>3
  <2>. QED BY <1>3, <1>4, <2>1, <2>4, RoundedUnique
<1>6. Divide(a, unit) = IF days \div n # a.days \/ days + q > MaxWord THEN MaxWord
                        ELSE days + q
  BY <1>2 DEF Divide, Rounded
<1>7. CASE all < Word
  <2>1. days = all
    <3>. HIDE DEF all
    <3>. QED BY <1>3, <1>4, <1>7, ModSmall
  <2>2. all \div n = a.days
    <3>1. a.days * n <= all /\ all < a.days * n + n
      BY <1>2, <1>3
    <3>. HIDE DEF all
    <3>. QED BY <1>2, <1>3, <1>4, <3>1, DivUnique
  <2>. QED BY <1>5, <1>6, <2>1, <2>2
<1>8. CASE all >= Word
  <2>1. days \in Nat /\ days < all
    <3>. HIDE DEF all
    <3>1. days \in 0 .. Word - 1
      BY <1>3, <1>4, ModSmall
    <3>. HIDE DEF days
    <3>. QED BY <1>3, <1>4, <1>8, <3>1
  <2>2. days \div n # a.days
    <3>. DEFINE k == days \div n
    <3>1. k \in Nat /\ k * n <= days
      <4>. HIDE DEF days
      <4>. QED BY <1>2, <2>1, DivFacts
    <3>. HIDE DEF k, days
    <3>2. k # a.days
      BY <1>4, <2>1, <3>1
    <3>. QED BY <3>2 DEF k
  <2>3. all + q > MaxWord
    <3>. HIDE DEF all, q
    <3>. QED BY <1>3, <1>4, <1>8
  <2>. QED BY <1>5, <1>6, <2>2, <2>3
<1>. QED BY <1>3, <1>4, <1>7, <1>8

LEMMA OfMultIs ==
    ASSUME NEW unit \in Units, NEW k \in 0 .. MaxWord
    PROVE  OfMult(k, unit) \in Inters /\ Length(OfMult(k, unit)) = k * unit
<1>1. PICK h \in Nat, n \in Nat : IsUnit(unit, h, n)
  BY UnitIs
<1>2. /\ unit \in Nat /\ unit > 0 /\ n > 0 /\ n * unit = Day /\ Day \div unit = n
      /\ k \in Nat /\ k < Word /\ Word \in Nat /\ Day \in Nat
  BY <1>1, Words DEF IsUnit
<1>. DEFINE d == k \div n
            r == k % n
<1>3. d \in Nat /\ r \in Nat /\ r < n /\ k = d * n + r
  BY <1>2, DivFacts
<1>4. OfMult(k, unit) = [days |-> d, picos |-> r * unit]
  BY <1>2 DEF OfMult
<1>. HIDE DEF d, r
<1>5. d < Word
  <2>1. d * 1 <= d * n
    BY <1>2, <1>3
  <2>2. d * n \in Nat
    BY <1>3
  <2>. QED BY <1>2, <1>3, <2>1, <2>2
<1>6. r * unit \in Nat /\ r * unit < Day
  BY <1>2, <1>3, MulMonoLess
<1>7. d * Day + r * unit = k * unit
  <2>1. d * Day = (d * n) * unit
    BY <1>2, <1>3
  <2>2. k * unit = (d * n) * unit + r * unit
    BY <1>2, <1>3
  <2>. QED BY <2>1, <2>2
<1>. QED BY <1>3, <1>4, <1>5, <1>6, <1>7, MakeInter

LEMMA RoundedExact ==
    ASSUME NEW unit \in Units, NEW k \in Nat
    PROVE  Rounded(k * unit, unit) = k
<1>1. unit \in Nat /\ unit > 0
  BY UnitIs DEF IsUnit
<1>2. k * unit \in Nat /\ k * unit - k * unit = 0
  BY <1>1
<1>. QED BY <1>1, <1>2, RoundedUnique

LEMMA DivideOfMult ==
    ASSUME NEW unit \in Units, NEW k \in 0 .. MaxWord
    PROVE  Divide(OfMult(k, unit), unit) = k
<1>1. k \in Nat /\ ~(k > MaxWord)
  BY Words
<1>2. Rounded(Length(OfMult(k, unit)), unit) = k
  BY <1>1, OfMultIs, RoundedExact
<1>. QED BY <1>1, <1>2, OfMultIs, DivideIs

LEMMA DivideRounds ==
    ASSUME NEW unit \in Units, NEW a \in Inters
    PROVE  LET rest == 2 * (Length(a) - Divide(a, unit) * unit)
           IN  0 - unit < rest /\ (Divide(a, unit) < MaxWord => rest <= unit)
<1>. DEFINE q == Rounded(Length(a), unit)
            d == Divide(a, unit)
<1>1. q \in Nat /\ 2 * (Length(a) - q * unit) > 0 - unit /\ 2 * (Length(a) - q * unit) <= unit
      /\ Length(a) \in Nat /\ MaxWord \in Nat
  BY InterIs, RoundedIs, Words
<1>2. d = IF q > MaxWord THEN MaxWord ELSE q
  BY DivideIs
<1>3. unit \in Nat
  BY UnitIs DEF IsUnit
<1>. HIDE DEF q, d
<1>4. CASE q > MaxWord
  <2>1. d = MaxWord /\ d * unit <= q * unit /\ d * unit \in Nat /\ q * unit \in Nat
    BY <1>1, <1>2, <1>3, <1>4, MulMono
  <2>2. Length(a) - d * unit >= Length(a) - q * unit
    BY <1>1, <2>1
  <2>3. 2 * (Length(a) - d * unit) > 0 - unit
    BY <1>1, <1>3, <2>1, <2>2
  <2>. QED BY <1>1, <2>1, <2>3 DEF d
<1>5. CASE ~(q > MaxWord)
  BY <1>1, <1>2, <1>5 DEF d
<1>. QED BY <1>4, <1>5

-----------------------------------------------------------------------------
\* Sums and differences are exact or wrap as a whole, numbers of units are
\* rounded, and an interval of units gives their number back (time.cpp:35-109).
THEOREM InterExactHolds == InterExact
<1>1. Pairs \subseteq Inters
  BY DEF Pairs
<1>2. ASSUME NEW a \in Pairs, NEW b \in Pairs
      PROVE  /\ Plus(a, b) \in Inters
             /\ Length(Plus(a, b)) = (Length(a) + Length(b)) % (Word * Day)
             /\ Relation(a, b) # 0 =>
                   Minus(a, b) \in Inters /\ Length(Minus(a, b)) = Length(a) - Length(b)
             /\ Relation(a, b) = 0 <=> Length(a) < Length(b)
  <2>1. a \in Inters /\ b \in Inters /\ Length(a) \in Nat /\ Length(b) \in Nat
    BY <1>1, InterIs
  <2>2. Relation(a, b) = 0 <=> Length(a) < Length(b)
    BY <2>1, RelationIs
  <2>3. Relation(a, b) # 0 => Length(a) >= Length(b)
    BY <2>1, <2>2
  <2>. QED BY <2>1, <2>2, <2>3, PlusIs, MinusIs
<1>3. ASSUME NEW unit \in {Nano, Clunk, Sec}, NEW a \in Inters
      PROVE  LET rest == 2 * (Length(a) - Divide(a, unit) * unit)
             IN  -unit < rest /\ (Divide(a, unit) < MaxWord => rest <= unit)
  <2>1. unit \in Units
    BY DEF Units
  <2>2. -unit = 0 - unit
    BY <2>1, UnitIs DEF IsUnit
  <2>. QED BY <2>1, <2>2, DivideRounds
<1>4. ASSUME NEW unit \in {Nano, Clunk, Sec}, NEW n \in 0 .. MaxWord
      PROVE  Divide(OfMult(n, unit), unit) = n
  BY DivideOfMult DEF Units
<1>. QED BY <1>2, <1>3, <1>4 DEF InterExact

-----------------------------------------------------------------------------
(* Stamps. *)

LEMMA EpochIs ==
    ASSUME NEW k \in Nat, k < Word
    PROVE  Epoch(k) \in Inters /\ Length(Epoch(k)) = k * Day
<1>1. Day \in Nat /\ 0 < Day /\ k * Day + 0 = k * Day
  BY Words
<1>. QED BY <1>1, MakeInter DEF Epoch

\* There is room behind the epochs for all seconds that time_t has.
LEMMA Room ==
    ASSUME NEW unit \in Units, NEW k \in Nat, k <= MaxSigned, NEW e \in {UnixEpoch, WinEpoch}
    PROVE  /\ e \in Nat /\ e < Word /\ k \in 0 .. MaxWord
           /\ k * unit \in Nat /\ e * Day \in Nat
           /\ k * unit <= MaxSigned * unit /\ MaxSigned * unit \in Nat
           /\ e * Day + MaxSigned * unit < Word * Day
           /\ Word * Day \in Nat
<1>1. /\ unit \in Nat /\ unit <= Day
  BY UnitIs DEF IsUnit
<1>2. /\ Word \in Nat /\ Day \in Nat /\ Day >= 2 /\ e \in Nat /\ e <= MaxSigned
      /\ MaxSigned \in Nat /\ MaxSigned + MaxSigned + 2 <= Word
      /\ MaxWord \in Nat /\ MaxWord + 1 = Word
  BY Words
<1>3. e * Day <= MaxSigned * Day /\ k * unit <= MaxSigned * unit
  BY <1>1, <1>2, MulMono
<1>4. MaxSigned * unit <= MaxSigned * Day
  <2>1. unit * MaxSigned <= Day * MaxSigned
    BY <1>1, <1>2, MulMono
  <2>. QED BY <1>1, <1>2, <2>1
<1>5. (MaxSigned + MaxSigned) * Day < Word * Day
  BY <1>2, MulMonoLess
<1>6. (MaxSigned + MaxSigned) * Day = MaxSigned * Day + MaxSigned * Day
  BY <1>2
<1>7. /\ k * unit \in Nat /\ e * Day \in Nat /\ MaxSigned * unit \in Nat
      /\ MaxSigned * Day \in Nat /\ Word * Day \in Nat
  BY <1>1, <1>2
<1>8. e * Day + MaxSigned * unit < Word * Day
  BY <1>3, <1>4, <1>5, <1>6, <1>7
<1>. QED BY <1>2, <1>3, <1>7, <1>8

\* The interval of a number of units behind an epoch.
LEMMA Behind ==
    ASSUME NEW unit \in Units, NEW k \in Nat, k <= MaxSigned, NEW e \in {UnixEpoch, WinEpoch}
    PROVE  LET date == Plus(Epoch(e), OfMult(k, unit))
           IN  date \in Inters /\ Length(date) = e * Day + k * unit
<1>1. /\ e \in Nat /\ e < Word /\ k \in 0 .. MaxWord
      /\ e * Day \in Nat /\ k * unit \in Nat /\ e * Day + k * unit < Word * Day
  BY Room
<1>2. Epoch(e) \in Inters /\ Length(Epoch(e)) = e * Day
  BY <1>1, EpochIs
<1>3. OfMult(k, unit) \in Inters /\ Length(OfMult(k, unit)) = k * unit
  BY <1>1, OfMultIs
<1>. QED BY <1>1, <1>2, <1>3, PlusFits

\* What lies between a date and an epoch before it.
LEMMA Since ==
    ASSUME NEW date \in Inters, NEW e \in {UnixEpoch, WinEpoch}, NEW l \in Nat,
           Length(date) = e * Day + l
    PROVE  /\ Relation(date, Epoch(e)) # 0
           /\ Minus(date, Epoch(e)) \in Inters /\ Length(Minus(date, Epoch(e))) = l
<1>1. e \in Nat /\ e < Word /\ e * Day \in Nat
  <2>1. e \in Nat /\ Word \in Nat /\ Day \in Nat /\ e < Word
    BY Words
  <2>. QED BY <2>1
<1>2. Epoch(e) \in Inters /\ Length(Epoch(e)) = e * Day
  BY <1>1, EpochIs
<1>3. Length(date) >= Length(Epoch(e)) /\ ~(Length(date) < Length(Epoch(e)))
      /\ Length(date) - Length(Epoch(e)) = l
  <2>. DEFINE x == e * Day
  <2>1. x \in Nat /\ Length(date) = x + l /\ Length(Epoch(e)) = x
    BY <1>1, <1>2
  <2>. HIDE DEF x
  <2>. QED BY <2>1
<1>. QED BY <1>2, <1>3, RelationIs, MinusIs

LEMMA UnixTimeKept ==
    ASSUME NEW n \in Nat, n <= MaxSigned
    PROVE  /\ DateOfUnixTime(n) \in Inters
           /\ Length(DateOfUnixTime(n)) = UnixEpoch * Day + n * Sec
           /\ AsUnixTime(DateOfUnixTime(n)) = n
<1>. DEFINE date == DateOfUnixTime(n)
            since == Minus(date, Epoch(UnixEpoch))
<1>1. date \in Inters /\ Length(date) = UnixEpoch * Day + n * Sec
  BY Behind DEF DateOfUnixTime, Units
<1>2. n * Sec \in Nat /\ ~(n > MaxWord) /\ ~(n > MaxSigned)
  <2>1. Sec \in Units /\ UnixEpoch \in {UnixEpoch, WinEpoch}
    BY DEF Units
  <2>2. n * Sec \in Nat /\ n \in 0 .. MaxWord
    BY <2>1, Room
  <2>. QED BY <2>2, Words
<1>. HIDE DEF date
<1>3. /\ Relation(date, Epoch(UnixEpoch)) # 0
      /\ since \in Inters /\ Length(since) = n * Sec
  BY <1>1, <1>2, Since
<1>4. Divide(since, Sec) = n
  <2>1. Rounded(Length(since), Sec) = n
    BY <1>3, RoundedExact DEF Units
  <2>. HIDE DEF since
  <2>. QED BY <1>2, <1>3, <2>1, DivideIs DEF Units
<1>5. AsUnixTime(date) = n
  BY <1>2, <1>3, <1>4 DEF AsUnixTime
<1>. QED BY <1>1, <1>5 DEF date

LEMMA FiletimeKept ==
    ASSUME NEW n \in Nat, n <= MaxSigned
    PROVE  AsFiletime(OfFiletime(n)) = n
<1>. DEFINE date == OfFiletime(n)
            since == Minus(date, Epoch(WinEpoch))
<1>1. (IF n >= MaxSigned THEN MaxSigned ELSE n) = n
  BY Words
<1>2. date \in Inters /\ Length(date) = WinEpoch * Day + n * Clunk
  BY <1>1, Behind DEF OfFiletime, Units
<1>3. n * Clunk \in Nat /\ ~(n > MaxWord)
  <2>1. Clunk \in Units /\ WinEpoch \in {UnixEpoch, WinEpoch}
    BY DEF Units
  <2>2. n * Clunk \in Nat /\ n \in 0 .. MaxWord
    BY <2>1, Room
  <2>. QED BY <2>2, Words
<1>. HIDE DEF date
<1>4. /\ Relation(date, Epoch(WinEpoch)) # 0
      /\ since \in Inters /\ Length(since) = n * Clunk
  BY <1>2, <1>3, Since
<1>5. Divide(since, Clunk) = n
  <2>1. Rounded(Length(since), Clunk) = n
    BY <1>4, RoundedExact DEF Units
  <2>. HIDE DEF since
  <2>. QED BY <1>3, <1>4, <2>1, DivideIs DEF Units
<1>. QED BY <1>4, <1>5 DEF AsFiletime, date

\* A second has a whole number of nanoseconds, more than one.
LEMMA NanosIs ==
    \E s \in Nat : /\ s >= 2 /\ Sec \div Nano = s /\ s * Nano = Sec
                   /\ Sec \in Nat /\ Nano \in Nat /\ Nano > 0 /\ Nano < Sec
<1>1. Sec \in Nat /\ Nano \in Nat /\ Nano > 1 /\ Sec % Nano = 0 /\ Nano < Sec
  BY TimeAssumption
<1>. DEFINE s == Sec \div Nano
<1>2. s \in Nat /\ Sec = s * Nano + (Sec % Nano)
  BY <1>1, DivFacts
<1>3. s * Nano = Sec
  BY <1>1, <1>2
<1>. HIDE DEF s
<1>4. s # 0 /\ s # 1
  BY <1>1, <1>2, <1>3
<1>5. s >= 2
  BY <1>2, <1>4
<1>. QED BY <1>1, <1>2, <1>3, <1>5 DEF s

\* The part of an interval behind its last second.
LEMMA SecondsIs ==
    ASSUME NEW a \in Inters, NEW s \in Nat, NEW r \in Nat, r < Sec,
           Length(a) = s * Sec + r
    PROVE  a.picos % Sec = r
<1>1. Sec \in Units
  BY DEF Units
<1>2. PICK h \in Nat, n \in Nat : IsUnit(Sec, h, n)
  BY <1>1, UnitIs
<1>3. Sec \in Nat /\ Sec > 0 /\ n \in Nat /\ n * Sec = Day
      /\ a.days \in Nat /\ a.picos \in Nat
  BY <1>2, InterIs DEF IsUnit
<1>. DEFINE q == a.picos \div Sec
            m == a.picos % Sec
            k == a.days * n + q
<1>4. q \in Nat /\ m \in Nat /\ m < Sec /\ a.picos = q * Sec + m
  BY <1>3, DivFacts
<1>. HIDE DEF q, m
<1>5. k \in Nat /\ k * Sec = a.days * (n * Sec) + q * Sec
  BY <1>3, <1>4
<1>6. Length(a) = k * Sec + m
  <2>1. a.days * Day \in Nat /\ q * Sec \in Nat /\ k * Sec = a.days * Day + q * Sec
    BY <1>3, <1>4, <1>5
  <2>. HIDE DEF k
  <2>. QED BY <1>4, <2>1 DEF Length
<1>. HIDE DEF k
<1>7. Length(a) \in Nat
  BY InterIs
<1>8. Length(a) % Sec = m
  BY <1>3, <1>4, <1>5, <1>6, <1>7, ModUnique
<1>9. Length(a) % Sec = r
  BY <1>3, <1>7, ModUnique
<1>. QED BY <1>8, <1>9 DEF m

\* What a date of the OS becomes when it goes back.
LEMMA StampIs ==
    ASSUME NEW ts \in Timespecs,
           NEW sec \in Nat, NEW nsec \in Nat,
           IF ts.sec < 0 THEN sec = 0 /\ nsec = 0 ELSE sec = ts.sec /\ nsec = ts.nsec
    PROVE  LET date == OfTimespec(ts)
               since == Minus(date, Epoch(UnixEpoch))
               up == IF 2 * nsec * Nano <= Sec THEN sec ELSE sec + 1
           IN  /\ date \in Inters /\ Length(date) = UnixEpoch * Day + (sec * Sec + nsec * Nano)
               /\ Relation(date, Epoch(UnixEpoch)) # 0
               /\ since \in Inters
               /\ Divide(since, Sec) = up /\ up <= MaxSigned /\ up \in Nat
               /\ DivideDay(since, Sec, Nano) = nsec
               /\ nsec * Nano \in Nat /\ nsec * Nano < Sec
               /\ sec < MaxSigned
<1>. DEFINE date == OfTimespec(ts)
            since == Minus(date, Epoch(UnixEpoch))
            up == IF 2 * nsec * Nano <= Sec THEN sec ELSE sec + 1
            below == nsec * Nano
            l == sec * Sec + below
<1>1. PICK s \in Nat : /\ s >= 2 /\ Sec \div Nano = s /\ s * Nano = Sec
                       /\ Sec \in Nat /\ Nano \in Nat /\ Nano > 0 /\ Nano < Sec
  BY NanosIs
<1>2. /\ ts.sec \in -1 .. MaxSigned - 1 /\ ts.nsec \in 0 .. s - 1
  BY <1>1 DEF Timespecs
<1>3. MaxSigned \in Nat /\ MaxSigned >= 1 /\ MaxWord \in Nat /\ MaxSigned < MaxWord
      /\ Word \in Nat /\ UnixEpoch \in Nat /\ UnixEpoch < Word /\ Day \in Nat
  BY Words
<1>4. sec < MaxSigned /\ nsec < s
  BY <1>1, <1>2, <1>3
<1>5. below \in Nat /\ below < Sec
  BY <1>1, <1>4, MulMonoLess
<1>6. /\ l \in Nat /\ l <= MaxSigned * Sec
      /\ sec * Sec \in Nat /\ sec \in 0 .. MaxWord
      /\ UnixEpoch * Day \in Nat /\ UnixEpoch * Day + l < Word * Day
      /\ Word * Day \in Nat
  <2>1. /\ Sec \in Units /\ UnixEpoch \in {UnixEpoch, WinEpoch} /\ sec <= MaxSigned
    BY <1>3, <1>4 DEF Units
  <2>2. /\ sec * Sec \in Nat /\ sec \in 0 .. MaxWord /\ UnixEpoch * Day \in Nat
        /\ UnixEpoch * Day + MaxSigned * Sec < Word * Day
        /\ MaxSigned * Sec \in Nat /\ Word * Day \in Nat
    BY <2>1, Room
  <2>3. (sec + 1) * Sec <= MaxSigned * Sec /\ (sec + 1) * Sec = sec * Sec + Sec
    BY <1>1, <1>3, <1>4, MulMono
  <2>. HIDE DEF below
  <2>. QED BY <1>1, <1>5, <2>2, <2>3
<1>. HIDE DEF below, l
<1>7. date \in Inters /\ Length(date) = UnixEpoch * Day + l
  <2>1. Epoch(UnixEpoch) \in Inters /\ Length(Epoch(UnixEpoch)) = UnixEpoch * Day
    BY <1>3, EpochIs
  <2>2. CASE ts.sec < 0
    <3>1. Epoch(0) \in Inters /\ Length(Epoch(0)) = 0 * Day
      BY <1>3, EpochIs
    <3>2. l = 0 /\ 0 * Day = 0
      BY <1>1, <1>3, <2>2 DEF l, below
    <3>3. date = Plus(Epoch(UnixEpoch), Epoch(0))
      BY <2>2 DEF OfTimespec
    <3>. HIDE DEF date
    <3>. QED BY <1>6, <2>1, <3>1, <3>2, <3>3, PlusFits
  <2>3. CASE ~(ts.sec < 0)
    <3>. DEFINE a == OfMult(sec, Sec)
                b == OfMult(nsec, Nano)
    <3>1. a \in Inters /\ Length(a) = sec * Sec
      BY <1>6, OfMultIs DEF Units
    <3>2. b \in Inters /\ Length(b) = below
      <4>1. nsec \in 0 .. MaxWord
        <5>1. s <= MaxWord
          <6>1. s <= s * Nano
            <7>1. s * 1 <= s * Nano
              BY <1>1
            <7>. QED BY <7>1
          <6>2. Sec <= Day /\ Day < Word
            <7>1. Sec \in Units
              BY DEF Units
            <7>2. Sec <= Day
              BY <7>1, UnitIs DEF IsUnit
            <7>. QED BY <7>2, Words
          <6>. QED BY <1>1, <1>3, <6>1, <6>2, Words
        <5>. QED BY <1>1, <1>3, <1>4, <5>1
      <4>2. Nano \in Units
        BY DEF Units
      <4>. QED BY <4>1, <4>2, OfMultIs DEF below
    <3>. HIDE DEF a, b
    <3>3. Plus(a, b) \in Inters /\ Length(Plus(a, b)) = l
      <4>1. Length(a) + Length(b) = l
        BY <3>1, <3>2 DEF l
      <4>2. l < Word * Day
        BY <1>6
      <4>. QED BY <3>1, <3>2, <4>1, <4>2, PlusFits
    <3>4. date = Plus(Epoch(UnixEpoch), Plus(a, b))
      BY <2>3 DEF OfTimespec, a, b
    <3>. HIDE DEF date
    <3>. QED BY <1>6, <2>1, <3>3, <3>4, PlusFits
  <2>. QED BY <2>2, <2>3
<1>. HIDE DEF date
<1>8. /\ Relation(date, Epoch(UnixEpoch)) # 0
      /\ since \in Inters /\ Length(since) = l
  BY <1>6, <1>7, Since
<1>. HIDE DEF since
<1>9. up \in Nat /\ up <= MaxSigned
  BY <1>3, <1>4
<1>10. Divide(since, Sec) = up
  <2>1. 2 * nsec * Nano = 2 * below
    BY <1>1 DEF below
  <2>2. 2 * (l - up * Sec) > 0 - Sec /\ 2 * (l - up * Sec) <= Sec
    <3>1. CASE 2 * below <= Sec
      <4>1. up = sec /\ l - up * Sec = below
        BY <1>5, <1>6, <2>1, <3>1 DEF l
      <4>. HIDE DEF up
      <4>. QED BY <1>1, <1>5, <3>1, <4>1
    <3>2. CASE ~(2 * below <= Sec)
      <4>1. up = sec + 1
        BY <2>1, <3>2
      <4>2. (sec + 1) * Sec = sec * Sec + Sec
        BY <1>1
      <4>. HIDE DEF up
      <4>3. l - up * Sec = below - Sec
        BY <1>1, <1>5, <1>6, <4>1, <4>2 DEF l
      <4>. QED BY <1>1, <1>5, <3>2, <4>3
    <3>. QED BY <3>1, <3>2
  <2>. HIDE DEF up
  <2>3. Rounded(l, Sec) = up
    BY <1>6, <1>9, <2>2, RoundedUnique DEF Units
  <2>. QED BY <1>3, <1>8, <1>9, <2>3, DivideIs DEF Units
<1>11. DivideDay(since, Sec, Nano) = nsec
  <2>1. since.picos % Sec = below
    BY <1>5, <1>8, SecondsIs DEF l
  <2>2. Rounded(nsec * Nano, Nano) = nsec
    BY RoundedExact DEF Units
  <2>. QED BY <2>1, <2>2 DEF DivideDay, Rounded, below
<1>. QED BY <1>4, <1>5, <1>7, <1>8, <1>9, <1>10, <1>11 DEF date, since, l, below

LEMMA HasTextIs ==
    ASSUME NEW ts \in Timespecs,
           NEW sec \in Nat, NEW nsec \in Nat,
           IF ts.sec < 0 THEN sec = 0 /\ nsec = 0 ELSE sec = ts.sec /\ nsec = ts.nsec
    PROVE  HasText(OfTimespec(ts)) <=> nsec = 0
<1>. DEFINE date == OfTimespec(ts)
            up == IF 2 * nsec * Nano <= Sec THEN sec ELSE sec + 1
            below == nsec * Nano
            x == UnixEpoch * Day
            y == sec * Sec
<1>1. /\ date \in Inters /\ Length(date) = x + (y + below)
      /\ Relation(date, Epoch(UnixEpoch)) # 0
      /\ Divide(Minus(date, Epoch(UnixEpoch)), Sec) = up /\ up <= MaxSigned /\ up \in Nat
      /\ below \in Nat /\ below < Sec
  BY StampIs
<1>2. Sec \in Nat /\ Nano \in Nat /\ Nano > 0 /\ MaxSigned \in Nat
      /\ UnixEpoch \in Nat /\ Day \in Nat
  BY NanosIs, Words
<1>3. 2 * nsec * Nano = 2 * below /\ x \in Nat /\ y \in Nat
  BY <1>2
<1>4. below = 0 <=> nsec = 0
  <2>1. nsec > 0 => 0 * Nano < nsec * Nano
    BY <1>2, MulMonoLess
  <2>. QED BY <1>2, <2>1
<1>5. up * Sec = IF 2 * below <= Sec THEN y ELSE y + Sec
  BY <1>2, <1>3
<1>. HIDE DEF date, up
<1>6. AsUnixTime(date) = up
  BY <1>1, <1>2 DEF AsUnixTime
<1>7. DateOfUnixTime(up) \in Inters /\ Length(DateOfUnixTime(up)) = x + up * Sec
  BY <1>1, UnixTimeKept
<1>8. Length(DateOfUnixTime(up)) = Length(date) <=> below = 0
  <2>. HIDE DEF x, y, below
  <2>. QED BY <1>1, <1>2, <1>3, <1>5, <1>7
<1>9. HasText(date) <=> Length(DateOfUnixTime(up)) = Length(date)
  <2>1. HasText(date) <=> DateOfUnixTime(up) = date
    BY <1>6 DEF HasText
  <2>2. Length(DateOfUnixTime(up)) = Length(date) => DateOfUnixTime(up) = date
    BY <1>1, <1>7, LengthDecides
  <2>. QED BY <2>1, <2>2
<1>. QED BY <1>4, <1>8, <1>9 DEF date

\* The time between two ticks.
LEMMA PeriodIs ==
    ASSUME NEW a \in Inters
    PROVE  /\ Period(a).sec \in 0 .. MaxSigned /\ Period(a).sec + Period(a).nsec > 0
           /\ Period(a).nsec >= Sec \div Nano <=>
                Divide(a, Sec) <= MaxSigned /\ 2 * (Sec - (a.picos % Sec)) < Nano
<1>. DEFINE secs == Divide(a, Sec)
            r == a.picos % Sec
            v == DivideDay(a, Sec, Nano)
            max == MaxSigned
<1>1. PICK s \in Nat : /\ s >= 2 /\ Sec \div Nano = s /\ s * Nano = Sec
                       /\ Sec \in Nat /\ Nano \in Nat /\ Nano > 0 /\ Nano < Sec
  BY NanosIs
<1>2. max \in Nat /\ max >= 1
  BY Words
<1>3. secs \in Nat
  <2>1. Sec \in Units
    BY DEF Units
  <2>2. Rounded(Length(a), Sec) \in Nat
    BY <2>1, InterIs, RoundedIs
  <2>. QED BY <2>1, <2>2, DivideIs, Words
<1>4. r \in Nat /\ r < Sec
  <2>1. a.picos \in Nat /\ Sec > 0
    BY <1>1, InterIs
  <2>. QED BY <1>1, <2>1, DivFacts
<1>5. PICK h \in Nat, n \in Nat : IsUnit(Nano, h, n)
  BY UnitIs DEF Units
<1>6. h > 0 /\ Nano = h + h /\ Nano \div 2 = h
  BY <1>5 DEF IsUnit
<1>. HIDE DEF r
<1>7. v \in Nat /\ v * Nano <= r + h - 1 /\ r + h - 1 < v * Nano + Nano
  <2>1. v = (r + h - 1) \div Nano
    BY <1>6 DEF DivideDay, r
  <2>2. r + h - 1 \in Nat
    BY <1>4, <1>6
  <2>. QED BY <1>1, <2>1, <2>2, DivFacts
<1>. HIDE DEF v, secs, max
<1>8. v >= s <=> 2 * (Sec - r) < Nano
  <2>. DEFINE w == v * Nano
  <2>1. w \in Nat
    BY <1>1, <1>7
  <2>2. v >= s => w >= Sec
    BY <1>1, <1>7, MulMono
  <2>3. ~(v >= s) => w + Nano <= Sec
    <3>1. SUFFICES ASSUME ~(v >= s) PROVE w + Nano <= Sec
      OBVIOUS
    <3>2. (v + 1) * Nano <= s * Nano
      BY <1>1, <1>7, <3>1, MulMono
    <3>3. (v + 1) * Nano = w + Nano
      BY <1>1, <1>7
    <3>. QED BY <1>1, <3>2, <3>3
  <2>4. w <= r + h - 1 /\ r + h - 1 < w + Nano
    BY <1>7
  <2>. HIDE DEF w
  <2>. QED BY <1>1, <1>4, <1>6, <2>1, <2>2, <2>3, <2>4
<1>9. AsTimespec(a) = IF secs > max THEN [sec |-> max, nsec |-> s - 1]
                      ELSE [sec |-> secs, nsec |-> v]
  BY <1>1 DEF AsTimespec, secs, v, max
<1>10. CASE secs > max
  <2>1. Period(a) = [sec |-> max, nsec |-> s - 1]
    BY <1>1, <1>2, <1>9, <1>10 DEF Period
  <2>2. Period(a).sec = max /\ Period(a).nsec = s - 1
    BY <2>1
  <2>3. max \in 0 .. max /\ max + (s - 1) > 0 /\ ~(s - 1 >= s) /\ ~(secs <= max)
    BY <1>1, <1>2, <1>3, <1>10
  <2>. QED BY <1>1, <2>2, <2>3 DEF secs, r, max
<1>11. CASE ~(secs > max)
  <2>1. PICK w \in Nat : /\ Period(a).sec = secs /\ Period(a).nsec = w
                         /\ w = IF secs = 0 /\ v = 0 THEN 1 ELSE v
    <3>1. AsTimespec(a) = [sec |-> secs, nsec |-> v]
      BY <1>9, <1>11
    <3>2. CASE secs = 0 /\ v = 0
      <4>1. Period(a) = [sec |-> secs, nsec |-> 1]
        BY <3>1, <3>2 DEF Period
      <4>. QED BY <3>2, <4>1
    <3>3. CASE ~(secs = 0 /\ v = 0)
      <4>1. Period(a) = [sec |-> secs, nsec |-> v]
        BY <3>1, <3>3 DEF Period
      <4>. QED BY <1>7, <3>3, <4>1
    <3>. QED BY <3>2, <3>3
  <2>2. secs \in 0 .. max /\ secs + w > 0 /\ (w >= s <=> v >= s) /\ secs <= max
    BY <1>1, <1>2, <1>3, <1>7, <1>11, <2>1
  <2>. QED BY <1>1, <1>8, <2>1, <2>2 DEF secs, r, max
<1>. QED BY <1>10, <1>11

-----------------------------------------------------------------------------
\* A time of the OS that goes back is kept, as the rounding of the Unix build
\* lets it, and no period is zero (time.cpp:160-240).
THEOREM StampsKeptHolds == StampsKept
<1>1. ASSUME NEW ts \in Timespecs
      PROVE  LET back == AsTimespec(Minus(OfTimespec(ts), Epoch(UnixEpoch)))
                 kept == IF ts.sec < 0 THEN [sec |-> 0, nsec |-> 0] ELSE ts
             IN  /\ back.nsec = kept.nsec
                 /\ back.sec = IF 2 * kept.nsec * Nano <= Sec THEN kept.sec ELSE kept.sec + 1
                 /\ HasText(OfTimespec(ts)) <=> kept.nsec = 0
  <2>. DEFINE since == Minus(OfTimespec(ts), Epoch(UnixEpoch))
              back == AsTimespec(since)
              kept == IF ts.sec < 0 THEN [sec |-> 0, nsec |-> 0] ELSE ts
              sec == kept.sec
              nsec == kept.nsec
              up == IF 2 * nsec * Nano <= Sec THEN sec ELSE sec + 1
  <2>1. /\ sec \in Nat /\ nsec \in Nat
        /\ IF ts.sec < 0 THEN sec = 0 /\ nsec = 0 ELSE sec = ts.sec /\ nsec = ts.nsec
    <3>1. /\ ts.sec \in -1 .. MaxSigned - 1 /\ ts.nsec \in 0 .. Sec \div Nano - 1
          /\ MaxSigned \in Nat /\ Sec \div Nano \in Nat
      BY NanosIs, Words DEF Timespecs
    <3>. QED BY <3>1
  <2>. HIDE DEF sec, nsec
  <2>2. /\ Divide(since, Sec) = up /\ up <= MaxSigned /\ up \in Nat
        /\ DivideDay(since, Sec, Nano) = nsec
    BY <2>1, StampIs
  <2>3. HasText(OfTimespec(ts)) <=> nsec = 0
    BY <2>1, HasTextIs
  <2>. HIDE DEF since, up
  <2>4. back = [sec |-> up, nsec |-> nsec]
    BY <2>2, Words DEF AsTimespec
  <2>. QED BY <2>3, <2>4 DEF since, up, sec, nsec
<1>2. ASSUME NEW clunks \in 0 .. MaxSigned PROVE AsFiletime(OfFiletime(clunks)) = clunks
  BY FiletimeKept, Words
<1>3. ASSUME NEW n \in 0 .. MaxSigned PROVE AsUnixTime(DateOfUnixTime(n)) = n
  BY UnixTimeKept, Words
<1>. QED BY <1>1, <1>2, <1>3, PeriodIs DEF StampsKept
=============================================================================
