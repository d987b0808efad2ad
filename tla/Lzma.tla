-------------------------------- MODULE Lzma --------------------------------
(***************************************************************************)
(* The LZMA decoder (lzma.cpp): packets of a stream become bytes in a      *)
(* window of the last DictSz bytes, from which later packets copy, and in  *)
(* the destination.  The bits of the packets are any bits, as are the      *)
(* range decoder's verdicts on the input (its code is zero, all of it was  *)
(* used, it was not corrupt): the stream is arbitrary.  What bits stand    *)
(* for is in LzmaCodes, how they are found in RangeDec.                    *)
(***************************************************************************)
EXTENDS LzmaCodes, RangeDec

CONSTANTS
    DictSz,     \* the window: dict_sz, at least 4096 in the program
    Bytes,      \* the values of bytes; create_str makes a buffer of zeros
    Lens,       \* bound: the lengths that occur, of 0 .. 271
    Dists,      \* bound: the distances that occur, of 0 .. EndMarker
    MaxDst      \* bound: the length of the destination

ASSUME LzmaAssumption ==
    /\ DictSz \in Nat \ {0} /\ DictSz <= EndMarker
    /\ 0 \in Bytes
    /\ Lens \subseteq 0 .. 271 /\ Dists \subseteq 0 .. EndMarker
    /\ MaxDst \in Nat

VARIABLES
    pc,         \* "begin", "packet" (top of the loop), "copy", "done"
    ownd,       \* the out_wnd_t
    unpack_sz,  \* bytes still to be unpacked, those of a copy under way too
    rep,        \* the last four distances, less one
    state,      \* what kinds of packets came last
    len,        \* the length of the copy under way
    copied,     \* and how much of it is done
    result,     \* "none", or what lzma_dec returns: "data", or nothing
    from,       \* history: for each byte, its literal or its distance
    last        \* history: the last packets, see StateMeansHistory

history == <<from, last>>
vars == <<pc, ownd, unpack_sz, rep, state, len, copied, result, history>>

Window == 0 .. DictSz - 1

-----------------------------------------------------------------------------
(* out_wnd_t; its dst is the part of the destination that was written. *)

Put(w, b) ==
    LET at == w.buf_i + 1
        drop == w.dst_i >= w.dst_len
    IN  [w EXCEPT !.buf = [@ EXCEPT ![w.buf_i] = b],
                  !.buf_i = IF at = DictSz THEN 0 ELSE at,
                  !.is_full = @ \/ at = DictSz,
                  !.dst = IF drop THEN @ ELSE Append(@, b),
                  !.dst_i = IF drop THEN w.dst_len + 1 ELSE @ + 1]

Byte(w, dist) ==
    w.buf[IF dist <= w.buf_i THEN w.buf_i - dist ELSE DictSz - dist + w.buf_i]

\* Mutant: any distance within the window.
CheckDistAny(w, dist) == dist < DictSz

CheckDist(w, dist) == dist <= w.buf_i \/ w.is_full

IsEmpty(w) == w.buf_i = 0 /\ ~w.is_full

-----------------------------------------------------------------------------
Init ==
    /\ pc = "begin"
    /\ \E n \in 0 .. MaxDst :
          /\ ownd = [buf |-> [c \in Window |-> 0], buf_i |-> 0, is_full |-> FALSE,
                     dst |-> <<>>, dst_i |-> 0, dst_len |-> n]
          /\ unpack_sz = n
    /\ rep = [k \in 0 .. 3 |-> 0]
    /\ state = 0
    /\ len = 0 /\ copied = 0
    /\ result = "none"
    /\ from = <<>>
    /\ last = [kind |-> "none", behindLiteral |-> TRUE, literals |-> 0]

Return(r) == pc' = "done" /\ result' = r

\* lzma_dec accepts the properties and init() the first byte, or not.
Begin ==
    /\ pc = "begin"
    /\ \/ pc' = "packet" /\ UNCHANGED result
       \/ Return("nothing")
    /\ UNCHANGED <<ownd, unpack_sz, rep, state, len, copied, history>>

\* The loop is left.
Finished ==
    Return(IF ownd.dst_i = ownd.dst_len THEN "data" ELSE "nothing") \/ Return("nothing")

\* All is unpacked and the code is zero.
EndLoop ==
    /\ pc = "packet" /\ unpack_sz = 0
    /\ Finished
    /\ UNCHANGED <<ownd, unpack_sz, rep, state, len, copied, history>>

\* A literal or a repetition when all is unpacked; a repetition of nothing.
RefusePacket ==
    /\ pc = "packet" /\ (unpack_sz = 0 \/ IsEmpty(ownd))
    /\ Return("nothing")
    /\ UNCHANGED <<ownd, unpack_sz, rep, state, len, copied, history>>

\* Mutant: off by one.
AfterLiteralEarly(s) == IF s < 4 THEN 0 ELSE IF s < 9 THEN s - 3 ELSE s - 6

AfterLiteral(s) == IF s < 4 THEN 0 ELSE IF s < 10 THEN s - 3 ELSE s - 6

\* The history of packets after one that is not a literal.
Noted(kind) ==
    [kind |-> kind, behindLiteral |-> last.kind = "none" \/ last.literals > 0,
     literals |-> 0]

Literal ==
    /\ pc = "packet" /\ unpack_sz > 0
    /\ \E b \in Bytes :
          /\ ownd' = Put(ownd, b)
          /\ from' = Append(from, [dist |-> 0, lit |-> b])
    /\ state' = AfterLiteral(state)
    /\ unpack_sz' = unpack_sz - 1
    /\ last' = [last EXCEPT !.literals = IF @ = 3 THEN 3 ELSE @ + 1]
    /\ UNCHANGED <<pc, rep, len, copied, result>>

ShortRep ==
    /\ pc = "packet" /\ unpack_sz > 0 /\ ~IsEmpty(ownd)
    /\ ownd' = Put(ownd, Byte(ownd, rep[0] + 1))
    /\ from' = Append(from, [dist |-> rep[0] + 1, lit |-> 0])
    /\ state' = IF state < 7 THEN 9 ELSE 11
    /\ unpack_sz' = unpack_sz - 1
    /\ last' = Noted("short")
    /\ UNCHANGED <<pc, rep, len, copied, result>>

\* A copy of n + match_min_len bytes from the distance in rep'[0].
BeginCopy(n) ==
    /\ len' = n + 2
    /\ IF unpack_sz < n + 2
       THEN Return("nothing") /\ UNCHANGED <<copied, from>>
       ELSE /\ pc' = "copy" /\ copied' = 0
            /\ from' = from \o [j \in 1 .. n + 2 |-> [dist |-> rep'[0] + 1, lit |-> 0]]
            /\ UNCHANGED result

\* The k-th of the last distances comes first, those before it move behind it.
ToFront(k) == [j \in 0 .. 3 |-> IF j = 0 THEN rep[k] ELSE IF j <= k THEN rep[j - 1] ELSE rep[j]]

Rep ==
    /\ pc = "packet" /\ unpack_sz > 0 /\ ~IsEmpty(ownd)
    /\ \E k \in 0 .. 3 : rep' = ToFront(k)
    /\ \E n \in Lens : BeginCopy(n)
    /\ state' = IF state < 7 THEN 8 ELSE 11
    /\ last' = Noted("rep")
    /\ UNCHANGED <<ownd, unpack_sz>>

\* A match: the end marker (with a code of zero, or not), a distance that is
\* refused, or a copy.
Match ==
    /\ pc = "packet"
    /\ state' = IF state < 7 THEN 7 ELSE 10
    /\ last' = Noted("match")
    /\ \E dist \in Dists :
          /\ rep' = [j \in 0 .. 3 |-> IF j = 0 THEN dist ELSE rep[j - 1]]
          /\ \/ /\ dist = EndMarker
                /\ Finished
                /\ UNCHANGED <<len, copied, from>>
             \/ /\ dist # EndMarker
                /\ unpack_sz = 0 \/ dist >= DictSz \/ ~CheckDist(ownd, dist)
                /\ Return("nothing")
                /\ UNCHANGED <<len, copied, from>>
             \/ /\ dist # EndMarker
                /\ unpack_sz > 0 /\ dist < DictSz /\ CheckDist(ownd, dist)
                /\ \E n \in Lens : BeginCopy(n)
    /\ UNCHANGED <<ownd, unpack_sz>>

\* Mutant: reads the distance of the packet before.
CopyByteStale ==
    /\ pc = "copy"
    /\ ownd' = Put(ownd, Byte(ownd, rep[1] + 1))
    /\ copied' = copied + 1
    /\ IF copied' = len
       THEN pc' = "packet" /\ unpack_sz' = unpack_sz - len
       ELSE UNCHANGED <<pc, unpack_sz>>
    /\ UNCHANGED <<rep, state, len, result, history>>

\* Mutant: the last round does not leave the loop.
CopyByteNever ==
    /\ pc = "copy" /\ copied < len
    /\ ownd' = Put(ownd, Byte(ownd, rep[0] + 1))
    /\ copied' = copied + 1
    /\ UNCHANGED <<pc, unpack_sz, rep, state, len, result, history>>

\* One round of cp_match; after the last one the loop of dec goes on.
CopyByte ==
    /\ pc = "copy"
    /\ ownd' = Put(ownd, Byte(ownd, rep[0] + 1))
    /\ copied' = copied + 1
    /\ IF copied' = len
       THEN pc' = "packet" /\ unpack_sz' = unpack_sz - len
       ELSE UNCHANGED <<pc, unpack_sz>>
    /\ UNCHANGED <<rep, state, len, result, history>>

Next ==
    \/ Begin \/ EndLoop \/ RefusePacket
    \/ Literal \/ ShortRep \/ Rep \/ Match
    \/ CopyByte

Spec == Init /\ [][Next]_vars

\* The decoder is a loop that nothing interrupts.
FairSpec == Spec /\ WF_vars(Next)

-----------------------------------------------------------------------------
TypeOK ==
    /\ pc \in {"begin", "packet", "copy", "done"}
    /\ ownd \in [buf : [Window -> Bytes], buf_i : Window, is_full : BOOLEAN,
                 dst : Seq(Bytes), dst_i : Nat, dst_len : Nat]
    /\ unpack_sz \in Nat
    /\ rep \in [0 .. 3 -> Nat]
    /\ state \in 0 .. n_states - 1
    /\ len \in Nat /\ copied \in Nat
    /\ from \in Seq([dist : Nat, lit : Bytes])
    /\ last \in [kind : {"none", "match", "rep", "short"},
                 behindLiteral : BOOLEAN, literals : 0 .. 3]

Written == Len(ownd.dst)

\* The byte at place j of the data; a stream may refer to one zero before it.
At(j) == IF j >= 1 THEN ownd.dst[j] ELSE 0

\* The window holds the last bytes of the data, whatever wrapped around, and the
\* distances that may be repeated lie in it: no cell is read for a byte it does
\* not hold, other than the one zero before the data (lzma.cpp:31-65, 472).
WindowIsHistory ==
    /\ \A d \in 1 .. DictSz : Byte(ownd, d) = At(Written + 1 - d)
    /\ pc # "done" => \A k \in 0 .. 3 : rep[k] < DictSz /\ rep[k] <= Written

\* The data is what the packets say, also where a copy reads what it has itself
\* written; all bytes of packets that were accepted are there or counted, none
\* is dropped at the end of the destination, and data that is returned is whole
\* (lzma.cpp:40-45, 54-60, 400-487).
Expansion ==
    /\ \A j \in 1 .. Written :
          ownd.dst[j] = IF from[j].dist = 0 THEN from[j].lit ELSE At(j - from[j].dist)
    /\ ownd.dst_i = Written
    /\ Written + unpack_sz = ownd.dst_len + (IF pc = "copy" THEN copied ELSE 0)
    /\ pc # "copy" => Len(from) = Written
    /\ result = "data" => Written = ownd.dst_len

\* The state names the last packets as the probabilities of all streams assume:
\* which kind was the last that is no literal, if at most two literals follow
\* it, and whether a literal stood before it (lzma.cpp:350, 411-417, 433-461).
StateMeansHistory ==
    LET kinds == [match |-> 0, rep |-> 1, short |-> 2]
        kind == IF last.behindLiteral THEN kinds[last.kind]
                ELSE IF last.kind = "match" THEN 0 ELSE 1
    IN  state = IF last.kind = "none" \/ last.literals = 3 THEN 0
                ELSE IF last.literals = 2 THEN 1 + kind
                ELSE IF last.literals = 1 THEN 4 + kind
                ELSE (IF last.behindLiteral THEN 7 ELSE 10) + kind

\* However long the stream and though it asks for nothing but more, decoding
\* ends (lzma.cpp:400).
DecEnds == <>(pc = "done")

(* Facts of the operators, looked at before the first packet. *)

\* See RangeDecKeeps.
RangeDecSound == pc = "begin" => RangeDecKeeps

\* What the bits of a stream mean is not ambiguous, and no bit is read with
\* another's probability: see OneCodeEach and CellsFit.
StreamIsClear == pc = "begin" => OneCodeEach /\ CellsFit
=============================================================================
