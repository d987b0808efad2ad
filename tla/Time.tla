-------------------------------- MODULE Time --------------------------------
(***************************************************************************)
(* Intervals, dates and their conversions (time.cpp) on narrow words: an   *)
(* interval is so many days and so many parts ("picos") of a day, a date   *)
(* is the interval since the begin of its calendar.  Word, Nano, Clunk,    *)
(* Sec and Day are 2^64 and the numbers of picoseconds of the units.       *)
(***************************************************************************)
EXTENDS Integers

CONSTANTS Word, Nano, Clunk, Sec, Day, UnixEpoch, WinEpoch

\* Days have whole seconds, a second whole clunks and more than one whole
\* nanosecond; a negative number of picos shows as one of at least a day.
ASSUME TimeAssumption ==
    /\ {Word, Nano, Clunk, Sec, Day, UnixEpoch, WinEpoch} \subseteq Nat \ {0}
    /\ \A u \in {Nano, Clunk, Sec} : u > 1 /\ u % 2 = 0 /\ Day % u = 0
    /\ Sec % Nano = 0 /\ Nano < Sec /\ Sec % Clunk = 0
    /\ Word >= 2 * Day /\ WinEpoch < UnixEpoch /\ UnixEpoch < Word \div 2

MaxWord == Word - 1
MaxSigned == Word \div 2 - 1    \* of time_t and LONGLONG
Inters == [days : 0 .. MaxWord, picos : 0 .. Day - 1]

\* get_relation: 0, 1 or 2.
Relation(a, b) ==
    IF a.days # b.days THEN (IF a.days > b.days THEN 2 ELSE 0)
    ELSE IF a.picos # b.picos THEN (IF a.picos > b.picos THEN 2 ELSE 0)
    ELSE 1

Plus(a, b) ==
    LET picos == a.picos + b.picos
        over == IF picos >= Day THEN 1 ELSE 0
    IN  [days |-> (a.days + b.days + over) % Word, picos |-> picos - over * Day]

\* a >= b is asserted; the difference of picos wraps around.
Minus(a, b) ==
    LET picos == (a.picos - b.picos) % Word
        under == IF picos >= Day THEN 1 ELSE 0
    IN  [days |-> (a.days - b.days - under) % Word, picos |-> (picos + under * Day) % Word]

\* Mutant: the product of the days is not checked.
DivideUnchecked(a, unit) ==
    LET days == (a.days * (Day \div unit)) % Word
        picos == (a.picos + unit \div 2 - 1) \div unit
    IN  IF days + picos > MaxWord THEN MaxWord ELSE days + picos

\* divide: the number of units, or the largest word.
Divide(a, unit) ==
    LET days == (a.days * (Day \div unit)) % Word
        picos == (a.picos + unit \div 2 - 1) \div unit
    IN  IF days \div (Day \div unit) # a.days \/ days + picos > MaxWord
        THEN MaxWord
        ELSE days + picos

\* Mutant: counts the units of the whole day.
DivideDayWhole(a, modulor, unit) == (a.picos + unit \div 2 - 1) \div unit

DivideDay(a, modulor, unit) == ((a.picos % modulor) + unit \div 2 - 1) \div unit

OfMult(n, unit) ==
    [days |-> n \div (Day \div unit), picos |-> (n % (Day \div unit)) * unit]

-----------------------------------------------------------------------------
(* The conversions from and to the OS's times. *)

Epoch(days) == [days |-> days, picos |-> 0]

\* create_date of a timespec; one before the epoch becomes the epoch.
OfTimespec(ts) ==
    Plus(Epoch(UnixEpoch),
         IF ts.sec < 0 THEN Epoch(0) ELSE Plus(OfMult(ts.sec, Sec), OfMult(ts.nsec, Nano)))

\* as_timespec of an interval.
AsTimespec(a) ==
    IF Divide(a, Sec) > MaxSigned
    THEN [sec |-> MaxSigned, nsec |-> Sec \div Nano - 1]
    ELSE [sec |-> Divide(a, Sec), nsec |-> DivideDay(a, Sec, Nano)]

DateOfUnixTime(n) == Plus(Epoch(UnixEpoch), OfMult(n, Sec))

AsUnixTime(date) ==
    LET secs == Divide(Minus(date, Epoch(UnixEpoch)), Sec)
    IN  IF Relation(date, Epoch(UnixEpoch)) = 0 \/ secs > MaxSigned THEN 0 ELSE secs

\* as_text(date) finds a calendar time.
HasText(date) == DateOfUnixTime(AsUnixTime(date)) = date

OfFiletime(clunks) ==
    Plus(Epoch(WinEpoch), OfMult(IF clunks >= MaxSigned THEN MaxSigned ELSE clunks, Clunk))

AsFiletime(date) ==
    IF Relation(date, Epoch(WinEpoch)) = 0
    THEN 0
    ELSE Divide(Minus(date, Epoch(WinEpoch)), Clunk)

\* The time between two ticks of a metronome (set_freq), which is never zero: a
\* timer set to zero would stand.
Period(a) ==
    LET ts == AsTimespec(a)
    IN  IF ts.sec = 0 /\ ts.nsec = 0 THEN [ts EXCEPT !.nsec = 1] ELSE ts

-----------------------------------------------------------------------------
\* The length of an interval in picos.
Length(a) == a.days * Day + a.picos

\* Bound: of two intervals, the days are few or almost too many.
Pairs == {a \in Inters : a.days \in {0, 1, 2, Word \div 2, MaxWord - 1, MaxWord}}

\* Where the length fits they are exact, else they wrap as a whole; a number of
\* units is rounded to the nearest, halves down, or is the largest there is; an
\* interval of units gives their number back (time.cpp:35-109).
InterExact ==
    /\ \A a, b \in Pairs :
          /\ Plus(a, b) \in Inters
          /\ Length(Plus(a, b)) = (Length(a) + Length(b)) % (Word * Day)
          /\ Relation(a, b) # 0 =>
                Minus(a, b) \in Inters /\ Length(Minus(a, b)) = Length(a) - Length(b)
          /\ Relation(a, b) = 0 <=> Length(a) < Length(b)
    /\ \A unit \in {Nano, Clunk, Sec} :
          /\ \A a \in Inters :
                LET rest == 2 * (Length(a) - Divide(a, unit) * unit)
                IN  -unit < rest /\ (Divide(a, unit) < MaxWord => rest <= unit)
          /\ \A n \in 0 .. MaxWord : Divide(OfMult(n, unit), unit) = n

Timespecs == [sec : -1 .. MaxSigned - 1, nsec : 0 .. Sec \div Nano - 1]

\* A time that comes from the OS and goes back to it is kept in the Windows
\* build; the Unix build adds a second if more than half a second was over, as
\* it rounds the seconds and then keeps the nanoseconds, and knows no time before
\* its epoch.  What goes back to the OS is a time it accepts, unless it came from
\* elsewhere and ends less than half a nanosecond before a second
\* (time.cpp:160-240).
StampsKept ==
    /\ \A ts \in Timespecs :
          LET back == AsTimespec(Minus(OfTimespec(ts), Epoch(UnixEpoch)))
              kept == IF ts.sec < 0 THEN [sec |-> 0, nsec |-> 0] ELSE ts
          IN  /\ back.nsec = kept.nsec
              /\ back.sec = IF 2 * kept.nsec * Nano <= Sec THEN kept.sec ELSE kept.sec + 1
              /\ HasText(OfTimespec(ts)) <=> kept.nsec = 0
    /\ \A clunks \in 0 .. MaxSigned : AsFiletime(OfFiletime(clunks)) = clunks
    /\ \A a \in Inters :
          /\ Period(a).sec \in 0 .. MaxSigned /\ Period(a).sec + Period(a).nsec > 0
          /\ Period(a).nsec >= Sec \div Nano <=>
                Divide(a, Sec) <= MaxSigned /\ 2 * (Sec - (a.picos % Sec)) < Nano
    /\ \A n \in 0 .. MaxSigned : AsUnixTime(DateOfUnixTime(n)) = n
=============================================================================
