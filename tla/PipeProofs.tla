------------------------------ MODULE PipeProofs -----------------------------
(***************************************************************************)
(* Proofs about Pipe for any number of descriptors, any capacity of the    *)
(* kernel's pipes, any buffer of recv and any messages.                    *)
(*                                                                         *)
(* FdsOwned rests on knowing of each descriptor which side of which kernel *)
(* pipe it is (Creating, EndsOpen) and that no other descriptor is for one *)
(* (NoOthers); Delivered on where a sender is in its message (Sending) and *)
(* on the bytes of a direction staying in order (Flowing), of which a step *)
(* adds some at one end, or moves some from the pipe to the receiver.      *)
(***************************************************************************)
EXTENDS Pipe, SequenceTheorems, WellFoundedInduction, TLAPS

\* The kernel pipe an end reads from; its peer writes to it.
InPipe(e) == IF e = "left" THEN 1 ELSE 2

PipeTypeOK ==
    /\ file \in [Fds -> PipeFiles \union {OtherFile, Null}]
    /\ contents \in [{1, 2} -> Seq(Nat)]
    /\ hIn \in [Ends -> Fds \union {Null}]
    /\ hOut \in [Ends -> Fds \union {Null}]
    /\ err \in [Ends -> {"none", "system", "closed"}]
    /\ len \in [Ends -> Nat] /\ i \in [Ends -> Nat]
    /\ asked \in [Ends -> Nat]
    /\ dropped \in [Ends -> SUBSET Nat]
    /\ got \in [Ends -> Seq(Nat)]

\* A pipe_create between its two calls of pipe().
Creating ==
    fds # <<>> =>
        /\ fds \in Fds \X Fds
        /\ file[fds[1]] = <<1, "read">> /\ file[fds[2]] = <<1, "write">>
        /\ contents[1] = <<>>
        /\ \A e \in Ends : ~Open(e)

\* An end reads its own kernel pipe and writes its peer's.
EndsOpen ==
    \A e \in Ends :
        /\ Open(e) => /\ hIn[e] \in Fds /\ file[hIn[e]] = <<InPipe(e), "read">>
                      /\ hOut[e] \in Fds
                      /\ file[hOut[e]] = <<InPipe(Peer(e)), "write">>
        /\ ~Open(e) => hOut[e] = Null

\* No other descriptor is for a pipe.
NoOthers ==
    \A fd \in Fds : file[fd] \in PipeFiles =>
        \/ fds # <<>> /\ fd \in {fds[1], fds[2]}
        \/ \E e \in Ends : Open(e) /\ fd \in {hIn[e], hOut[e]}

\* An end that is inside send() is open, within its message, and what it gave
\* up was of earlier ones.
Sending ==
    \A e \in Ends :
        /\ len[e] # 0 => Open(e)
        /\ i[e] <= len[e] /\ len[e] <= asked[e]
        /\ dropped[e] \subseteq 1 .. asked[e] - len[e]

Ascending(s) == \A j, k \in 1 .. Len(s) : j < k => s[j] < s[k]
Elements(s) == {s[k] : k \in 1 .. Len(s)}

\* The bytes received and waiting of those e sent.
Bytestream(e) == got[Peer(e)] \o contents[InPipe(Peer(e))]

Flowing ==
    \A e \in Ends : Open(Peer(e)) =>
        Ascending(Bytestream(e)) /\ Elements(Bytestream(e)) = Passed(e)

FdInv == PipeTypeOK /\ Creating /\ EndsOpen /\ NoOthers

PipeInv == FdInv /\ Sending /\ Flowing

-----------------------------------------------------------------------------
(* Numbers and sequences of them. *)

LEMMA MinOfTwo ==
    ASSUME NEW a \in Int, NEW b \in Int
    PROVE  Min({a, b}) \in {a, b} /\ Min({a, b}) <= a /\ Min({a, b}) <= b
<1>1. \E m \in {a, b} : \A k \in {a, b} : m <= k
  OBVIOUS
<1>2. /\ Min({a, b}) \in {a, b}
      /\ \A k \in {a, b} : Min({a, b}) <= k
  BY <1>1 DEF Min
<1>. QED BY <1>2

LEMMA Joined ==
    ASSUME NEW a \in Seq(Nat), NEW b \in Seq(Nat)
    PROVE  /\ a \o b \in Seq(Nat) /\ Len(a) \in Nat /\ Len(b) \in Nat
           /\ Len(a \o b) = Len(a) + Len(b)
           /\ \A k \in 1 .. Len(a) : (a \o b)[k] = a[k]
           /\ \A k \in 1 .. Len(b) : (a \o b)[Len(a) + k] = b[k]
<1>1. Len(a) \in Nat /\ Len(b) \in Nat
  OBVIOUS
<1>2. ASSUME NEW k \in 1 .. Len(b)
      PROVE  (a \o b)[Len(a) + k] = b[k]
  <2>1. /\ Len(a) + k \in 1 .. Len(a) + Len(b) /\ ~(Len(a) + k <= Len(a))
        /\ Len(a) + k - Len(a) = k
    BY <1>1
  <2>. QED BY <2>1, ConcatProperties
<1>3. ASSUME NEW k \in 1 .. Len(a)
      PROVE  (a \o b)[k] = a[k]
  <2>1. k \in 1 .. Len(a) + Len(b) /\ k <= Len(a)
    BY <1>1
  <2>. QED BY <2>1, ConcatProperties
<1>. QED BY <1>1, <1>2, <1>3, ConcatProperties

LEMMA Associates ==
    ASSUME NEW a \in Seq(Nat), NEW b \in Seq(Nat), NEW c \in Seq(Nat)
    PROVE  (a \o b) \o c = a \o (b \o c)
<1>. DEFINE p == (a \o b) \o c
            q == a \o (b \o c)
<1>1. p \in Seq(Nat) /\ q \in Seq(Nat) /\ Len(p) = Len(q)
  BY ConcatProperties
<1>2. ASSUME NEW k \in 1 .. Len(p) PROVE p[k] = q[k]
  BY ConcatProperties
<1>. HIDE DEF p, q
<1>3. p = q
  BY <1>1, <1>2, SeqEqual
<1>. QED BY <1>3 DEF p, q

\* The bytes that come after the s-th, in order.
Follows(d, s) == \A j \in 1 .. Len(d) : d[j] = s + j

\* The bytes that follow those of a direction go behind them.
LEMMA Appended ==
    ASSUME NEW g \in Seq(Nat), NEW c \in Seq(Nat), NEW d \in Seq(Nat), NEW s \in Nat,
           Follows(d, s),
           Ascending(g \o c), Elements(g \o c) \subseteq 1 .. s
    PROVE  /\ Ascending(g \o (c \o d))
           /\ Elements(g \o (c \o d)) = Elements(g \o c) \union (s + 1 .. s + Len(d))
<1>. DEFINE b == g \o c
            m == Len(d)
            all == g \o (c \o d)
<1>0. \A j \in 1 .. m : d[j] = s + j
  BY DEF Follows
<1>1. /\ b \in Seq(Nat) /\ Len(b) \in Nat /\ m \in Nat
      /\ b \o d = all /\ Len(all) = Len(b) + m
  <2>1. b \in Seq(Nat) /\ Len(b) \in Nat /\ m \in Nat /\ Len(b \o d) = Len(b) + m
    BY Joined
  <2>2. (g \o c) \o d = g \o (c \o d)
    BY Associates
  <2>. QED BY <2>1, <2>2
<1>2. \A k \in 1 .. Len(b) : all[k] = b[k]
  BY <1>1, Joined
<1>3. \A j \in 1 .. m : all[Len(b) + j] = s + j
  <2>. HIDE DEF all, b
  <2>. QED BY <1>0, <1>1, Joined
<1>4. \A k \in 1 .. Len(b) : b[k] \in 1 .. s
  BY DEF Elements
<1>5. \A j, k \in 1 .. Len(b) : j < k => b[j] < b[k]
  BY DEF Ascending
<1>. HIDE DEF b, all, m
<1>6. ASSUME NEW k \in 1 .. Len(b) + m
      PROVE  \/ k \in 1 .. Len(b)
             \/ \E j \in 1 .. m : k = Len(b) + j
  <2>1. CASE k <= Len(b)
    BY <2>1, <1>1
  <2>2. CASE k > Len(b)
    <3>1. k - Len(b) \in 1 .. m /\ k = Len(b) + (k - Len(b))
      BY <2>2, <1>1
    <3>. QED BY <3>1
  <2>. QED BY <2>1, <2>2, <1>1
<1>7. Ascending(all)
  <2>1. ASSUME NEW j \in 1 .. Len(b) + m, NEW k \in 1 .. Len(b) + m, j < k
        PROVE  all[j] < all[k]
    <3>1. CASE k \in 1 .. Len(b)
      <4>1. j \in 1 .. Len(b)
        BY <2>1, <3>1, <1>1
      <4>. QED BY <2>1, <3>1, <4>1, <1>2, <1>5
    <3>2. CASE \E y \in 1 .. m : k = Len(b) + y
      <4>1. PICK y \in 1 .. m : k = Len(b) + y
        BY <3>2
      <4>2. all[k] = s + y
        BY <4>1, <1>3
      <4>3. CASE j \in 1 .. Len(b)
        <5>1. all[j] \in 1 .. s
          BY <4>3, <1>2, <1>4
        <5>2. y \in Nat /\ y > 0
          BY <4>1, <1>1
        <5>. QED BY <4>2, <5>1, <5>2
      <4>4. CASE \E x \in 1 .. m : j = Len(b) + x
        <5>1. PICK x \in 1 .. m : j = Len(b) + x
          BY <4>4
        <5>2. all[j] = s + x
          BY <5>1, <1>3
        <5>3. x < y /\ x \in Nat /\ y \in Nat
          BY <5>1, <4>1, <2>1, <1>1
        <5>. QED BY <4>2, <5>2, <5>3
      <4>. QED BY <4>3, <4>4, <1>6
    <3>. QED BY <3>1, <3>2, <1>6
  <2>. QED BY <2>1, <1>1 DEF Ascending
<1>8. ASSUME NEW v \in Elements(all)
      PROVE  v \in Elements(b) \union (s + 1 .. s + m)
  <2>1. PICK k \in 1 .. Len(b) + m : v = all[k]
    BY <1>1 DEF Elements
  <2>2. CASE k \in 1 .. Len(b)
    BY <2>1, <2>2, <1>2 DEF Elements
  <2>3. CASE \E j \in 1 .. m : k = Len(b) + j
    <3>1. PICK j \in 1 .. m : k = Len(b) + j
      BY <2>3
    <3>2. v = s + j
      BY <2>1, <3>1, <1>3
    <3>. QED BY <3>2, <1>1
  <2>. QED BY <2>2, <2>3, <1>6
<1>9. ASSUME NEW v \in Elements(b) PROVE v \in Elements(all)
  <2>1. PICK k \in 1 .. Len(b) : v = b[k]
    BY DEF Elements
  <2>2. k \in 1 .. Len(all)
    BY <1>1
  <2>. QED BY <2>1, <2>2, <1>2 DEF Elements
<1>10. ASSUME NEW v \in s + 1 .. s + m PROVE v \in Elements(all)
  <2>1. v - s \in 1 .. m /\ s + (v - s) = v
    BY <1>1
  <2>2. all[Len(b) + (v - s)] = v
    BY <2>1, <1>3
  <2>3. Len(b) + (v - s) \in 1 .. Len(all)
    BY <2>1, <1>1
  <2>. QED BY <2>2, <2>3 DEF Elements
<1>11. Elements(all) = Elements(b) \union (s + 1 .. s + m)
  BY <1>8, <1>9, <1>10
<1>. QED BY <1>7, <1>11 DEF b, all, m

\* What is read goes on behind what was received.
LEMMA Moved ==
    ASSUME NEW g \in Seq(Nat), NEW c \in Seq(Nat), NEW n \in 1 .. Len(c)
    PROVE  /\ SubSeq(c, 1, n) \in Seq(Nat) /\ SubSeq(c, n + 1, Len(c)) \in Seq(Nat)
           /\ (g \o SubSeq(c, 1, n)) \o SubSeq(c, n + 1, Len(c)) = g \o c
<1>. DEFINE a == SubSeq(c, 1, n)
            z == SubSeq(c, n + 1, Len(c))
<1>1. /\ Len(c) \in Nat /\ n \in Nat /\ n <= Len(c) /\ n \in Int /\ n + 1 \in Int
      /\ 1 \in Int /\ Len(c) \in Int
      /\ \A k \in 1 .. n : c[k] \in Nat
      /\ \A k \in n + 1 .. Len(c) : c[k] \in Nat
      /\ 1 <= n /\ n - 1 + 1 = n
      /\ Len(c) - (n + 1) + 1 = Len(c) - n
  <2>1. n \in Nat /\ Len(c) \in Nat /\ 1 <= n /\ n <= Len(c)
    OBVIOUS
  <2>2. \A k \in 1 .. Len(c) : c[k] \in Nat
    OBVIOUS
  <2>. QED BY <2>1, <2>2
<1>2. /\ a \in Seq(Nat) /\ Len(a) = n
      /\ \A k \in 1 .. n - 1 + 1 : a[k] = c[1 + k - 1]
  BY <1>1, SubSeqProperties
<1>3. /\ z \in Seq(Nat) /\ Len(z) = IF n + 1 <= Len(c) THEN Len(c) - (n + 1) + 1 ELSE 0
      /\ \A k \in 1 .. Len(c) - (n + 1) + 1 : z[k] = c[n + 1 + k - 1]
  BY <1>1, SubSeqProperties
<1>. HIDE DEF a, z
<1>4. Len(z) = Len(c) - n
  <2>1. CASE n + 1 <= Len(c)
    BY <2>1, <1>1, <1>3
  <2>2. CASE ~(n + 1 <= Len(c))
    <3>1. Len(c) - n = 0
      <4>1. Len(c) \in Nat /\ n \in Nat /\ n <= Len(c)
        BY <1>1
      <4>2. n = Len(c)
        BY <2>2, <4>1
      <4>. QED BY <4>1, <4>2
    <3>. QED BY <2>2, <3>1, <1>3
  <2>. QED BY <2>1, <2>2
<1>5. a \o z = c
  <2>1. /\ a \o z \in Seq(Nat) /\ Len(a \o z) = Len(c)
        /\ \A k \in 1 .. n : (a \o z)[k] = a[k]
        /\ \A k \in 1 .. Len(c) - n : (a \o z)[n + k] = z[k]
    <3>1. /\ a \o z \in Seq(Nat)
          /\ Len(a \o z) = Len(a) + Len(z)
          /\ \A k \in 1 .. Len(a) : (a \o z)[k] = a[k]
          /\ \A k \in 1 .. Len(z) : (a \o z)[Len(a) + k] = z[k]
      BY <1>2, <1>3, Joined
    <3>2. Len(a) = n /\ Len(z) = Len(c) - n /\ n + (Len(c) - n) = Len(c)
      BY <1>1, <1>2, <1>4
    <3>. QED BY <3>1, <3>2
  <2>2. ASSUME NEW k \in 1 .. Len(c) PROVE (a \o z)[k] = c[k]
    <3>0. k <= n \/ n < k
      BY <1>1
    <3>1. CASE k <= n
      <4>1. k \in 1 .. n /\ k \in 1 .. n - 1 + 1 /\ 1 + k - 1 = k
        BY <3>1, <1>1
      <4>2. (a \o z)[k] = a[k]
        BY <4>1, <2>1
      <4>3. a[k] = c[1 + k - 1]
        BY <4>1, <1>2
      <4>. QED BY <4>1, <4>2, <4>3
    <3>2. CASE n < k
      <4>. DEFINE j == k - n
      <4>1. /\ j \in 1 .. Len(c) - n /\ j \in 1 .. Len(c) - (n + 1) + 1
            /\ n + j = k /\ n + 1 + j - 1 = k
        BY <3>2, <1>1
      <4>. HIDE DEF j
      <4>2. (a \o z)[n + j] = z[j]
        BY <4>1, <2>1
      <4>3. z[j] = c[n + 1 + j - 1]
        BY <4>1, <1>3
      <4>. QED BY <4>1, <4>2, <4>3
    <3>. QED BY <3>0, <3>1, <3>2, Zenon
  <2>. QED BY <2>1, <2>2, SeqEqual
<1>6. (g \o a) \o z = g \o (a \o z)
  BY <1>2, <1>3, Associates
<1>. QED BY <1>2, <1>3, <1>5, <1>6 DEF a, z

-----------------------------------------------------------------------------
(* The state. *)

USE PipeAssumption

LEMMA Nulls ==
    /\ Null \notin Fds /\ Null \notin PipeFiles /\ Null # OtherFile
    /\ OtherFile \notin PipeFiles
BY DEF Fds, PipeFiles, OtherFile

LEMMA Opposite ==
    ASSUME NEW e \in Ends
    PROVE  /\ Peer(e) \in Ends /\ Peer(Peer(e)) = e /\ Peer(e) # e
           /\ InPipe(e) \in {1, 2} /\ InPipe(Peer(e)) # InPipe(e)
           /\ \A d \in Ends : d = e \/ d = Peer(e)
           /\ <<InPipe(e), "read">> \in PipeFiles
           /\ <<InPipe(e), "write">> \in PipeFiles
BY DEF Ends, Peer, InPipe, PipeFiles

LEMMA InitFds == Init => FdInv
<1>. SUFFICES ASSUME Init PROVE FdInv
  OBVIOUS
<1>. USE DEF Init, ForEnds, NothingSent
<1>1. contents \in [{1, 2} -> Seq(Nat)]
  <2>1. {1, 2} = 1 .. 2
    OBVIOUS
  <2>2. DOMAIN contents = 1 .. 2 /\ contents[1] = <<>> /\ contents[2] = <<>>
    OBVIOUS
  <2>3. contents = [q \in 1 .. 2 |-> <<>>]
    BY <2>2
  <2>4. <<>> \in Seq(Nat)
    OBVIOUS
  <2>. QED BY <2>1, <2>3, <2>4
<1>2. PipeTypeOK
  BY <1>1 DEF PipeTypeOK
<1>3. Creating /\ EndsOpen /\ NoOthers
  BY Nulls DEF Creating, EndsOpen, NoOthers, Open
<1>. QED BY <1>2, <1>3 DEF FdInv

-----------------------------------------------------------------------------
(* Descriptors. *)

LEMMA OpenPipeOpens ==
    ASSUME PipeTypeOK, NEW p \in {1, 2}, NEW r \in Fds, NEW w \in Fds,
           OpenPipe(p, r, w)
    PROVE  /\ r # w /\ file[r] = Null /\ file[w] = Null
           /\ file' \in [Fds -> PipeFiles \union {OtherFile, Null}]
           /\ file'[r] = <<p, "read">> /\ file'[w] = <<p, "write">>
           /\ \A fd \in Fds \ {r, w} : file'[fd] = file[fd]
           /\ contents' \in [{1, 2} -> Seq(Nat)]
           /\ contents'[p] = <<>>
           /\ \A q \in {1, 2} \ {p} : contents'[q] = contents[q]
<1>1. /\ r # w /\ file[r] = Null /\ file[w] = Null
      /\ file' = [file EXCEPT ![r] = <<p, "read">>, ![w] = <<p, "write">>]
      /\ contents' = [contents EXCEPT ![p] = <<>>]
  BY DEF OpenPipe, Free
<1>2. <<p, "read">> \in PipeFiles /\ <<p, "write">> \in PipeFiles
  BY DEF PipeFiles
<1>3. /\ file' \in [Fds -> PipeFiles \union {OtherFile, Null}]
      /\ file'[r] = <<p, "read">> /\ file'[w] = <<p, "write">>
      /\ \A fd \in Fds \ {r, w} : file'[fd] = file[fd]
  BY <1>1, <1>2 DEF PipeTypeOK
<1>4. /\ contents' \in [{1, 2} -> Seq(Nat)] /\ contents'[p] = <<>>
      /\ \A q \in {1, 2} \ {p} : contents'[q] = contents[q]
  BY <1>1 DEF PipeTypeOK
<1>. QED BY <1>1, <1>3, <1>4

LEMMA ClosedIs ==
    ASSUME PipeTypeOK, NEW S, file' = Closed(S)
    PROVE  /\ file' \in [Fds -> PipeFiles \union {OtherFile, Null}]
           /\ \A fd \in Fds : file'[fd] = IF fd \in S THEN Null ELSE file[fd]
BY DEF PipeTypeOK, Closed

LEMMA CreateFirstFds == ASSUME FdInv, CreateFirst PROVE FdInv'
<1>1. PICK r \in Fds, w \in Fds : OpenPipe(1, r, w) /\ fds' = <<r, w>>
  BY DEF CreateFirst
<1>2. /\ fds = <<>> /\ UNCHANGED <<handles, err, transfer>> /\ \A e \in Ends : ~Open(e)
      /\ PipeTypeOK /\ EndsOpen /\ NoOthers
  BY DEF CreateFirst, FdInv
<1>3. /\ r # w /\ file[r] = Null /\ file[w] = Null
      /\ file' \in [Fds -> PipeFiles \union {OtherFile, Null}]
      /\ file'[r] = <<1, "read">> /\ file'[w] = <<1, "write">>
      /\ \A fd \in Fds \ {r, w} : file'[fd] = file[fd]
      /\ contents' \in [{1, 2} -> Seq(Nat)] /\ contents'[1] = <<>>
  BY <1>1, <1>2, OpenPipeOpens
<1>4. PipeTypeOK'
  BY <1>2, <1>3 DEF PipeTypeOK, handles, transfer
<1>5. Creating' /\ EndsOpen' /\ NoOthers'
  BY <1>1, <1>2, <1>3 DEF Creating, EndsOpen, NoOthers, Open, handles
<1>. QED BY <1>4, <1>5 DEF FdInv

LEMMA CreateSecondFds == ASSUME FdInv, CreateSecond PROVE FdInv'
<1>1. PICK r \in Fds, w \in Fds :
         /\ OpenPipe(2, r, w)
         /\ hIn' = [left |-> fds[1], right |-> r]
         /\ hOut' = [left |-> w, right |-> fds[2]]
  BY DEF CreateSecond
<1>2. /\ fds # <<>> /\ fds' = <<>> /\ err' = err
      /\ NothingSent(len', i', asked', dropped', got')
      /\ PipeTypeOK /\ NoOthers
      /\ fds \in Fds \X Fds
      /\ file[fds[1]] = <<1, "read">> /\ file[fds[2]] = <<1, "write">>
      /\ \A e \in Ends : ~Open(e)
  BY DEF CreateSecond, FdInv, Creating
<1>3. /\ r # w /\ file[r] = Null /\ file[w] = Null
      /\ file' \in [Fds -> PipeFiles \union {OtherFile, Null}]
      /\ file'[r] = <<2, "read">> /\ file'[w] = <<2, "write">>
      /\ \A fd \in Fds \ {r, w} : file'[fd] = file[fd]
      /\ contents' \in [{1, 2} -> Seq(Nat)]
  BY <1>1, <1>2, OpenPipeOpens
<1>4. fds[1] \in Fds \ {r, w} /\ fds[2] \in Fds \ {r, w}
  BY <1>2, <1>3, Nulls DEF PipeFiles
<1>5. /\ hIn' \in [Ends -> Fds \union {Null}] /\ hOut' \in [Ends -> Fds \union {Null}]
      /\ hIn'["left"] = fds[1] /\ hIn'["right"] = r
      /\ hOut'["left"] = w /\ hOut'["right"] = fds[2]
  BY <1>1, <1>4 DEF Ends
<1>6. PipeTypeOK'
  <2>1. /\ len' \in [Ends -> Nat] /\ i' \in [Ends -> Nat] /\ asked' \in [Ends -> Nat]
        /\ dropped' \in [Ends -> SUBSET Nat] /\ got' \in [Ends -> Seq(Nat)]
    BY <1>2 DEF NothingSent, ForEnds
  <2>. QED BY <1>2, <1>3, <1>5, <2>1 DEF PipeTypeOK
<1>7. Creating'
  BY <1>2 DEF Creating
<1>8. EndsOpen'
  BY <1>2, <1>3, <1>4, <1>5, Nulls DEF EndsOpen, Open, Ends, Peer, InPipe
<1>9. NoOthers'
  <2>1. ASSUME NEW fd \in Fds, file'[fd] \in PipeFiles
        PROVE  fd \in {fds[1], fds[2], r, w}
    BY <2>1, <1>2, <1>3 DEF NoOthers
  <2>2. \A e \in Ends : Open(e)'
    BY <1>4, <1>5, Nulls DEF Open, Ends
  <2>. QED BY <2>1, <2>2, <1>5 DEF NoOthers, Ends
<1>. QED BY <1>6, <1>7, <1>8, <1>9 DEF FdInv

LEMMA CreateSecondFailsFds == ASSUME FdInv, CreateSecondFails PROVE FdInv'
<1>1. /\ fds # <<>> /\ fds' = <<>> /\ err' = [err EXCEPT !["left"] = "system"]
      /\ file' = Closed({fds[1], fds[2]}) /\ UNCHANGED <<contents, handles, transfer>>
      /\ PipeTypeOK /\ EndsOpen /\ NoOthers
      /\ \A e \in Ends : ~Open(e)
  BY DEF CreateSecondFails, FdInv, Creating
<1>2. /\ file' \in [Fds -> PipeFiles \union {OtherFile, Null}]
      /\ \A fd \in Fds : file'[fd] = IF fd \in {fds[1], fds[2]} THEN Null ELSE file[fd]
  BY <1>1, ClosedIs
<1>3. PipeTypeOK'
  BY <1>1, <1>2 DEF PipeTypeOK, handles, transfer
<1>4. Creating' /\ EndsOpen' /\ NoOthers'
  BY <1>1, <1>2, Nulls DEF Creating, EndsOpen, NoOthers, Open, handles
<1>. QED BY <1>3, <1>4 DEF FdInv

LEMMA DestroyFds == ASSUME FdInv, NEW e \in Ends, Destroy(e) PROVE FdInv'
<1>1. /\ Open(e) /\ file' = Closed({hIn[e], hOut[e]})
      /\ hIn' = [hIn EXCEPT ![e] = Null] /\ hOut' = [hOut EXCEPT ![e] = Null]
      /\ UNCHANGED <<contents, fds, err, transfer>>
      /\ PipeTypeOK /\ Creating /\ EndsOpen /\ NoOthers
  BY DEF Destroy, FdInv
<1>2. /\ file' \in [Fds -> PipeFiles \union {OtherFile, Null}]
      /\ \A fd \in Fds : file'[fd] = IF fd \in {hIn[e], hOut[e]} THEN Null ELSE file[fd]
  BY <1>1, ClosedIs
<1>3. \A d \in Ends :
         /\ hIn'[d] = IF d = e THEN Null ELSE hIn[d]
         /\ hOut'[d] = IF d = e THEN Null ELSE hOut[d]
  BY <1>1 DEF PipeTypeOK
<1>4. PipeTypeOK'
  BY <1>1, <1>2 DEF PipeTypeOK, transfer
<1>5. fds = <<>>
  BY <1>1 DEF Creating
<1>6. EndsOpen'
  <2>1. ASSUME NEW d \in Ends, d # e, Open(d)
        PROVE  hIn[d] \notin {hIn[e], hOut[e]} /\ hOut[d] \notin {hIn[e], hOut[e]}
    <3>1. /\ file[hIn[d]] = <<InPipe(d), "read">> /\ file[hIn[e]] = <<InPipe(e), "read">>
          /\ file[hOut[d]] = <<InPipe(Peer(d)), "write">>
          /\ file[hOut[e]] = <<InPipe(Peer(e)), "write">>
      BY <2>1, <1>1 DEF EndsOpen
    <3>2. InPipe(d) # InPipe(e) /\ InPipe(Peer(d)) # InPipe(Peer(e))
      BY <2>1 DEF Ends, Peer, InPipe
    <3>. QED BY <3>1, <3>2
  <2>2. ASSUME NEW d \in Ends, d # e, Open(d)
        PROVE  /\ file'[hIn[d]] = file[hIn[d]] /\ file'[hOut[d]] = file[hOut[d]]
               /\ hIn'[d] = hIn[d] /\ hOut'[d] = hOut[d]
    <3>1. hIn[d] \in Fds /\ hOut[d] \in Fds
      BY <2>2, <1>1 DEF EndsOpen
    <3>. QED BY <3>1, <2>1, <2>2, <1>2, <1>3
  <2>3. ~Open(e)' /\ hOut'[e] = Null
    BY <1>3 DEF Open
  <2>4. ASSUME NEW d \in Ends, d # e
        PROVE  /\ Open(d)' <=> Open(d)
               /\ Open(d) => /\ hIn'[d] \in Fds /\ file'[hIn'[d]] = <<InPipe(d), "read">>
                             /\ hOut'[d] \in Fds
                             /\ file'[hOut'[d]] = <<InPipe(Peer(d)), "write">>
               /\ ~Open(d) => hOut'[d] = Null
    <3>1. (Open(d)' <=> Open(d)) /\ hOut'[d] = hOut[d]
      BY <2>4, <1>3 DEF Open
    <3>2. CASE Open(d)
      <4>1. /\ hIn[d] \in Fds /\ file[hIn[d]] = <<InPipe(d), "read">>
            /\ hOut[d] \in Fds /\ file[hOut[d]] = <<InPipe(Peer(d)), "write">>
        BY <3>2, <1>1 DEF EndsOpen
      <4>. QED BY <3>1, <3>2, <4>1, <2>2, <2>4
    <3>3. CASE ~Open(d)
      BY <3>1, <3>3, <1>1 DEF EndsOpen
    <3>. QED BY <3>1, <3>2, <3>3
  <2>. QED BY <2>3, <2>4 DEF EndsOpen
<1>7. NoOthers'
  <2>1. ASSUME NEW fd \in Fds, file'[fd] \in PipeFiles
        PROVE  \E d \in Ends : Open(d)' /\ fd \in {hIn'[d], hOut'[d]}
    <3>1. file[fd] \in PipeFiles /\ fd \notin {hIn[e], hOut[e]}
      BY <2>1, <1>2, Nulls
    <3>2. PICK d \in Ends : Open(d) /\ fd \in {hIn[d], hOut[d]}
      BY <3>1, <1>1, <1>5 DEF NoOthers
    <3>3. hIn'[d] = hIn[d] /\ hOut'[d] = hOut[d]
      BY <3>1, <3>2, <1>3
    <3>. QED BY <3>2, <3>3 DEF Open
  <2>. QED BY <2>1 DEF NoOthers
<1>. QED BY <1>1, <1>4, <1>5, <1>6, <1>7 DEF FdInv, Creating

LEMMA LeastNat ==
    ASSUME NEW S \in SUBSET Nat, S # {}
    PROVE  \E m \in S : \A k \in S : m <= k
<1>. DEFINE R == OpToRel(<, Nat)
<1>1. \E x \in S : \A y \in S : ~ (<<y, x>> \in R)
  BY NatLessThanWellFounded, WFMin
<1>2. \A a, b \in Nat : a < b => <<a, b>> \in R
  BY DEF OpToRel
<1>. HIDE DEF R
<1>3. PICK x \in S : \A y \in S : ~ (<<y, x>> \in R)
  BY <1>1
<1>4. \A y \in S : ~(y < x)
  BY <1>2, <1>3
<1>. QED BY <1>4

\* A step that touches no file of the pipe.
LEMMA OthersFds ==
    ASSUME FdInv, UNCHANGED <<contents, fds, handles, err, transfer>>,
           NEW fd \in Fds, file[fd] \notin PipeFiles,
           file' \in [Fds -> PipeFiles \union {OtherFile, Null}],
           file'[fd] \notin PipeFiles,
           \A other \in Fds \ {fd} : file'[other] = file[other]
    PROVE  FdInv'
<1>1. PipeTypeOK'
  BY DEF FdInv, PipeTypeOK, handles, transfer
<1>2. Creating'
  <2>1. fds # <<>> => fds[1] # fd /\ fds[2] # fd /\ fds[1] \in Fds /\ fds[2] \in Fds
    BY DEF FdInv, Creating, PipeFiles
  <2>. QED BY <2>1 DEF FdInv, Creating, Open, handles
<1>3. EndsOpen'
  <2>1. ASSUME NEW e \in Ends, Open(e) PROVE hIn[e] # fd /\ hOut[e] # fd
    <3>1. /\ file[hIn[e]] = <<InPipe(e), "read">>
          /\ file[hOut[e]] = <<InPipe(Peer(e)), "write">>
      BY <2>1 DEF FdInv, EndsOpen
    <3>2. Peer(e) \in Ends
      BY Opposite
    <3>3. <<InPipe(e), "read">> \in PipeFiles
      BY Opposite
    <3>4. <<InPipe(Peer(e)), "write">> \in PipeFiles
      BY <3>2, Opposite
    <3>. QED BY <3>1, <3>3, <3>4
  <2>. QED BY <2>1 DEF FdInv, EndsOpen, Open, handles
<1>4. NoOthers'
  BY DEF FdInv, NoOthers, Open, handles
<1>. QED BY <1>1, <1>2, <1>3, <1>4 DEF FdInv

LEMMA OpenOtherFds == ASSUME FdInv, OpenOther PROVE FdInv'
<1>1. Free \in SUBSET Nat /\ Free # {} /\ PipeTypeOK
  BY DEF OpenOther, Free, Fds, FdInv
<1>2. PICK m \in Free : \A k \in Free : m <= k
  BY <1>1, LeastNat
<1>3. Min(Free) \in Free
  BY <1>2 DEF Min
<1>4. Min(Free) \in Fds /\ file[Min(Free)] = Null
  BY <1>3 DEF Free
<1>5. /\ file' = [file EXCEPT ![Min(Free)] = OtherFile]
      /\ UNCHANGED <<contents, fds, handles, err, transfer>>
  BY DEF OpenOther
<1>6. /\ file' \in [Fds -> PipeFiles \union {OtherFile, Null}]
      /\ file'[Min(Free)] = OtherFile
      /\ \A other \in Fds \ {Min(Free)} : file'[other] = file[other]
  BY <1>1, <1>4, <1>5 DEF PipeTypeOK
<1>. QED BY <1>4, <1>5, <1>6, Nulls, OthersFds

LEMMA CloseOtherFds == ASSUME FdInv, CloseOther PROVE FdInv'
<1>1. PICK fd \in Fds : file[fd] = OtherFile /\ file' = Closed({fd})
  BY DEF CloseOther
<1>2. /\ file' \in [Fds -> PipeFiles \union {OtherFile, Null}]
      /\ \A other \in Fds : file'[other] = IF other \in {fd} THEN Null ELSE file[other]
  BY <1>1, ClosedIs DEF FdInv
<1>3. UNCHANGED <<contents, fds, handles, err, transfer>>
  BY DEF CloseOther
<1>. QED BY <1>1, <1>2, <1>3, Nulls, OthersFds

\* The other steps open and close nothing.
LEMMA SameFds ==
    ASSUME FdInv, PipeTypeOK', UNCHANGED <<file, fds, handles>>,
           fds # <<>> => contents'[1] = contents[1]
    PROVE  FdInv'
BY DEF FdInv, Creating, EndsOpen, NoOthers, Open, handles
-----------------------------------------------------------------------------
(* Bytes.  FdInv holds after every step: the steps of the calls of send and  *)
(* recv leave the descriptors alone, and it remains to see their types.      *)

\* How many bytes an end has dealt with: written or given up.
Sent(e) == asked[e] - len[e] + i[e]

LEMMA Numbers ==
    ASSUME PipeTypeOK, Sending, NEW e \in Ends
    PROVE  /\ asked[e] \in Nat /\ len[e] \in Nat /\ i[e] \in Nat /\ Sent(e) \in Nat
           /\ i[e] <= len[e] /\ len[e] <= asked[e] /\ Sent(e) <= asked[e]
           /\ dropped[e] \subseteq 1 .. asked[e] - len[e]
           /\ Passed(e) = (1 .. Sent(e)) \ dropped[e]
<1>1. /\ asked[e] \in Nat /\ len[e] \in Nat /\ i[e] \in Nat
      /\ i[e] <= len[e] /\ len[e] <= asked[e]
      /\ dropped[e] \subseteq 1 .. asked[e] - len[e]
  BY DEF PipeTypeOK, Sending
<1>2. Sent(e) \in Nat /\ Sent(e) <= asked[e]
  BY <1>1 DEF Sent
<1>3. Passed(e) = (1 .. Sent(e)) \ dropped[e]
  BY <1>1, <1>2 DEF Passed, Sent
<1>. QED BY <1>1, <1>2, <1>3

LEMMA FlowInit == Init => Sending /\ Flowing
BY DEF Init, NothingSent, ForEnds, Sending, Flowing, Open, Ends, Peer

\* Steps after which each open direction has carried the same bytes.
LEMMA FlowSame ==
    ASSUME Flowing,
           \A e \in Ends : Open(Peer(e))' =>
              Open(Peer(e)) /\ Bytestream(e)' = Bytestream(e) /\ Passed(e)' = Passed(e)
    PROVE  Flowing'
<1>1. ASSUME NEW e \in Ends, Open(Peer(e))'
      PROVE  Ascending(Bytestream(e))' /\ (Elements(Bytestream(e)) = Passed(e))'
  <2>1. Ascending(Bytestream(e)) /\ Elements(Bytestream(e)) = Passed(e)
    BY <1>1 DEF Flowing
  <2>. QED BY <2>1, <1>1 DEF Ascending, Elements
<1>. QED BY <1>1 DEF Flowing

\* Steps that move no byte and leave the ends open that were.
LEMMA FlowStill ==
    ASSUME Sending, Flowing, UNCHANGED <<contents, handles, transfer>>
    PROVE  Sending' /\ Flowing'
<1>1. Sending'
  BY DEF Sending, Open, handles, transfer
<1>2. \A e \in Ends : Open(Peer(e))' =>
         Open(Peer(e)) /\ Bytestream(e)' = Bytestream(e) /\ Passed(e)' = Passed(e)
  BY DEF Open, Bytestream, Passed, handles, transfer
<1>. QED BY <1>1, <1>2, FlowSame

LEMMA CreateFirstFlow ==
    ASSUME FdInv, Sending, Flowing, CreateFirst PROVE Sending' /\ Flowing'
<1>1. /\ UNCHANGED <<handles, transfer>> /\ \A e \in Ends : ~Open(e)
  BY DEF CreateFirst
<1>2. \A e \in Ends : ~Open(Peer(e))'
  BY <1>1, Opposite DEF Open, handles
<1>. QED BY <1>1, <1>2 DEF Sending, Flowing, Open, handles, transfer

LEMMA CreateSecondFlow ==
    ASSUME FdInv, CreateSecond PROVE Sending' /\ Flowing'
<1>1. PICK r \in Fds, w \in Fds : OpenPipe(2, r, w)
  BY DEF CreateSecond
<1>2. fds # <<>> /\ NothingSent(len', i', asked', dropped', got')
  BY DEF CreateSecond
<1>3. contents'[1] = <<>> /\ contents'[2] = <<>>
  BY <1>1, <1>2, OpenPipeOpens DEF FdInv, Creating
<1>4. \A e \in Ends : /\ len'[e] = 0 /\ i'[e] = 0 /\ asked'[e] = 0 /\ dropped'[e] = {}
                      /\ got'[e] = <<>>
  BY <1>2 DEF NothingSent, ForEnds
<1>5. Sending'
  BY <1>4 DEF Sending
<1>6. ASSUME NEW e \in Ends
      PROVE  Ascending(Bytestream(e))' /\ (Elements(Bytestream(e)) = Passed(e))'
  <2>1. Bytestream(e)' = <<>>
    <3>1. got'[Peer(e)] = <<>> /\ contents'[InPipe(Peer(e))] = <<>>
      BY <1>3, <1>4, Opposite DEF InPipe
    <3>. QED BY <3>1 DEF Bytestream
  <2>2. Passed(e)' = {}
    BY <1>4 DEF Passed
  <2>. QED BY <2>1, <2>2 DEF Ascending, Elements
<1>. QED BY <1>5, <1>6 DEF Flowing

LEMMA DestroyFlow ==
    ASSUME FdInv, Sending, Flowing, NEW e \in Ends, Destroy(e)
    PROVE  Sending' /\ Flowing'
<1>1. /\ len[e] = 0 /\ UNCHANGED <<contents, transfer>>
      /\ \A d \in Ends : Open(d)' <=> (d # e /\ Open(d))
  BY DEF Destroy, Open, FdInv, PipeTypeOK
<1>2. Sending'
  BY <1>1 DEF Sending, transfer
<1>3. \A d \in Ends : Open(Peer(d))' =>
         Open(Peer(d)) /\ Bytestream(d)' = Bytestream(d) /\ Passed(d)' = Passed(d)
  BY <1>1, Opposite DEF Bytestream, Passed, transfer
<1>. QED BY <1>2, <1>3, FlowSame

\* Steps of a send that write nothing: of another end the numbers are the same,
\* and of this one the bytes that were passed on.
LEMMA SendingSame ==
    ASSUME FdInv, Sending, Flowing, NEW e \in Ends,
           UNCHANGED <<file, contents, fds, handles, got>>,
           PipeTypeOK',
           \A d \in Ends \ {e} : /\ len'[d] = len[d] /\ i'[d] = i[d]
                                 /\ asked'[d] = asked[d] /\ dropped'[d] = dropped[d],
           len'[e] # 0 => Open(e), i'[e] <= len'[e], len'[e] <= asked'[e],
           dropped'[e] \subseteq 1 .. asked'[e] - len'[e],
           Passed(e)' = Passed(e)
    PROVE  FdInv' /\ Sending' /\ Flowing'
<1>1. FdInv'
  BY SameFds
<1>2. Sending'
  BY DEF Sending, Open, handles
<1>3. \A d \in Ends : Passed(d)' = Passed(d)
  BY DEF Passed
<1>4. \A d \in Ends : Open(Peer(d))' =>
         Open(Peer(d)) /\ Bytestream(d)' = Bytestream(d) /\ Passed(d)' = Passed(d)
  BY <1>3 DEF Open, Bytestream, handles
<1>. QED BY <1>1, <1>2, <1>4, FlowSame

LEMMA BeginSendKeeps ==
    ASSUME FdInv, Sending, Flowing, NEW e \in Ends, BeginSend(e)
    PROVE  FdInv' /\ Sending' /\ Flowing'
<1>1. PICK n \in 1 .. MaxBytes - asked[e] :
         /\ len' = [len EXCEPT ![e] = n]
         /\ asked' = [asked EXCEPT ![e] = @ + n]
  BY DEF BeginSend
<1>2. /\ Open(e) /\ len[e] = 0 /\ i' = [i EXCEPT ![e] = 0]
      /\ UNCHANGED <<file, contents, fds, handles, err, dropped, got>>
      /\ PipeTypeOK
  BY DEF BeginSend, FdInv
<1>3. /\ asked[e] \in Nat /\ i[e] \in Nat /\ i[e] = 0
      /\ dropped[e] \subseteq 1 .. asked[e]
  BY <1>2, Numbers
<1>4. n \in Nat /\ n > 0 /\ asked[e] + n \in Nat
  BY <1>3, PipeAssumption
<1>5. PipeTypeOK'
  BY <1>1, <1>2, <1>4 DEF PipeTypeOK, handles
<1>6. /\ len'[e] = n /\ asked'[e] = asked[e] + n /\ i'[e] = 0 /\ dropped'[e] = dropped[e]
      /\ \A d \in Ends \ {e} : /\ len'[d] = len[d] /\ i'[d] = i[d]
                               /\ asked'[d] = asked[d] /\ dropped'[d] = dropped[d]
  BY <1>1, <1>2 DEF PipeTypeOK
<1>7. Passed(e)' = Passed(e)
  BY <1>2, <1>3, <1>4, <1>6 DEF Passed
<1>8. dropped'[e] \subseteq 1 .. asked'[e] - len'[e] /\ len'[e] <= asked'[e]
  BY <1>3, <1>4, <1>6
<1>. QED BY <1>2, <1>4, <1>5, <1>6, <1>7, <1>8, SendingSame

LEMMA GiveUpKeeps ==
    ASSUME FdInv, Sending, Flowing, NEW e \in Ends, Writing(e),
           NEW why \in {"system", "closed"}, GiveUp(e, why),
           UNCHANGED <<file, contents, fds, handles, asked, got>>
    PROVE  FdInv' /\ Sending' /\ Flowing'
<1>. DEFINE rest == asked[e] - len[e] + i[e] + 1 .. asked[e]
<1>1. /\ err' = [err EXCEPT ![e] = why]
      /\ dropped' = [dropped EXCEPT ![e] = @ \union rest]
      /\ len' = [len EXCEPT ![e] = 0] /\ i' = [i EXCEPT ![e] = 0]
      /\ PipeTypeOK
  BY DEF GiveUp, FdInv
<1>2. /\ asked[e] \in Nat /\ len[e] \in Nat /\ i[e] \in Nat
      /\ i[e] <= len[e] /\ len[e] <= asked[e]
      /\ dropped[e] \subseteq 1 .. asked[e] - len[e]
  BY <1>1, Numbers
<1>3. rest \subseteq 1 .. asked[e] /\ rest \subseteq Nat
  BY <1>2
<1>4. /\ len'[e] = 0 /\ asked'[e] = asked[e] /\ i'[e] = 0
      /\ dropped'[e] = dropped[e] \union rest
      /\ \A d \in Ends \ {e} : /\ len'[d] = len[d] /\ i'[d] = i[d]
                               /\ asked'[d] = asked[d] /\ dropped'[d] = dropped[d]
  BY <1>1 DEF PipeTypeOK
<1>5. Passed(e)' = Passed(e)
  BY <1>2, <1>4 DEF Passed
<1>. HIDE DEF rest
<1>6. PipeTypeOK'
  BY <1>1, <1>3 DEF PipeTypeOK, handles
<1>7. dropped'[e] \subseteq 1 .. asked'[e] - len'[e]
  <2>1. dropped[e] \subseteq 1 .. asked[e]
    BY <1>2
  <2>2. asked'[e] - len'[e] = asked[e]
    BY <1>2, <1>4
  <2>. QED BY <1>3, <1>4, <2>1, <2>2
<1>. QED BY <1>2, <1>4, <1>5, <1>6, <1>7, SendingSame

LEMMA EndSendKeeps ==
    ASSUME FdInv, Sending, Flowing, NEW e \in Ends, EndSend(e)
    PROVE  FdInv' /\ Sending' /\ Flowing'
<1>1. /\ len[e] # 0 /\ i[e] >= len[e]
      /\ len' = [len EXCEPT ![e] = 0] /\ i' = [i EXCEPT ![e] = 0]
      /\ UNCHANGED <<file, contents, fds, handles, err, asked, dropped, got>>
      /\ PipeTypeOK
  BY DEF EndSend, FdInv
<1>2. /\ asked[e] \in Nat /\ len[e] \in Nat /\ i[e] = len[e] /\ len[e] <= asked[e]
      /\ dropped[e] \subseteq 1 .. asked[e] - len[e]
  BY <1>1, Numbers
<1>3. PipeTypeOK'
  BY <1>1 DEF PipeTypeOK, handles
<1>4. /\ len'[e] = 0 /\ asked'[e] = asked[e] /\ i'[e] = 0 /\ dropped'[e] = dropped[e]
      /\ \A d \in Ends \ {e} : /\ len'[d] = len[d] /\ i'[d] = i[d]
                               /\ asked'[d] = asked[d] /\ dropped'[d] = dropped[d]
  BY <1>1 DEF PipeTypeOK
<1>5. Passed(e)' = Passed(e)
  BY <1>2, <1>4 DEF Passed
<1>6. dropped'[e] \subseteq 1 .. asked'[e] - len'[e]
  BY <1>2, <1>4
<1>. QED BY <1>1, <1>2, <1>3, <1>4, <1>5, <1>6, SendingSame

\* Of the bytes of a write, at most those that remain are passed on.
LEMMA AcceptedIs ==
    ASSUME PipeTypeOK, NEW p \in {1, 2}, NEW n \in Nat, NEW m \in Accepted(p, n)
    PROVE  m \in Nat /\ m <= n
<1>1. Room(p) \in Int
  BY DEF Room, PipeTypeOK
<1>2. CASE n <= Atomic
  BY <1>2 DEF Accepted
<1>3. CASE ~(n <= Atomic)
  <2>1. m \in 1 .. Min({n, Room(p)})
    BY <1>3 DEF Accepted
  <2>2. Min({n, Room(p)}) \in Int /\ Min({n, Room(p)}) <= n
    <3>1. n \in Int
      OBVIOUS
    <3>2. /\ Min({n, Room(p)}) \in {n, Room(p)} /\ Min({n, Room(p)}) <= n
      BY <1>1, <3>1, MinOfTwo
    <3>. QED BY <1>1, <3>1, <3>2
  <2>. QED BY <2>1, <2>2
<1>. QED BY <1>2, <1>3

LEMMA WriteKeeps ==
    ASSUME FdInv, Sending, Flowing, NEW e \in Ends, Write(e)
    PROVE  FdInv' /\ Sending' /\ Flowing'
<1>. DEFINE p == InPipe(Peer(e))
            s == Sent(e)
<1>1. /\ len[e] # 0 /\ i[e] < len[e] /\ PipeTypeOK /\ EndsOpen /\ Creating
      /\ UNCHANGED <<file, fds, handles, err, len, asked, dropped, got>>
      /\ Open(e)
  BY DEF Write, Writing, FdInv, Sending
<1>2. /\ asked[e] \in Nat /\ len[e] \in Nat /\ i[e] \in Nat /\ s \in Nat
      /\ s = asked[e] - len[e] + i[e]
      /\ len[e] <= asked[e] /\ s <= asked[e]
      /\ dropped[e] \subseteq 1 .. asked[e] - len[e]
      /\ Passed(e) = (1 .. s) \ dropped[e]
  BY <1>1, Numbers DEF Sent
<1>3. Out(e) = p /\ p \in {1, 2} /\ Peer(e) \in Ends
  <2>1. file[hOut[e]] = <<p, "write">>
    BY <1>1 DEF EndsOpen
  <2>2. Peer(e) \in Ends
    BY Opposite
  <2>3. p \in {1, 2}
    BY DEF InPipe
  <2>. QED BY <2>1, <2>2, <2>3 DEF Out, PipeOf
<1>4. PICK m \in Accepted(p, len[e] - i[e]) :
         /\ contents' = [contents EXCEPT ![p] = @ \o Bytes(e, i[e], m)]
         /\ i' = [i EXCEPT ![e] = @ + m]
  BY <1>3 DEF Write
<1>5. m \in Nat /\ i[e] + m \in Nat /\ i[e] + m <= len[e]
  <2>1. len[e] - i[e] \in Nat
    BY <1>1, <1>2
  <2>2. m \in Nat /\ m <= len[e] - i[e]
    BY <1>1, <1>3, <2>1, AcceptedIs
  <2>. QED BY <1>2, <2>2
<1>. DEFINE d == Bytes(e, i[e], m)
<1>6. d \in Seq(Nat) /\ Len(d) = m /\ \A j \in 1 .. Len(d) : d[j] = s + j
  <2>1. d = [j \in 1 .. m |-> s + j]
    BY <1>2 DEF Bytes
  <2>2. \A j \in 1 .. m : s + j \in Nat
    BY <1>2
  <2>. HIDE DEF d, s
  <2>. QED BY <1>5, <2>1, <2>2
<1>. HIDE DEF d, s, p
<1>7. /\ contents[p] \in Seq(Nat) /\ contents'[p] = contents[p] \o d
      /\ contents' \in [{1, 2} -> Seq(Nat)]
      /\ \A q \in {1, 2} \ {p} : contents'[q] = contents[q]
      /\ i'[e] = i[e] + m /\ i' \in [Ends -> Nat]
      /\ \A other \in Ends \ {e} : i'[other] = i[other]
  <2>1. contents[p] \in Seq(Nat) /\ contents[p] \o d \in Seq(Nat)
    BY <1>1, <1>3, <1>6, ConcatProperties DEF PipeTypeOK
  <2>2. contents' = [contents EXCEPT ![p] = contents[p] \o d]
    BY <1>4 DEF d
  <2>3. /\ contents'[p] = contents[p] \o d /\ contents' \in [{1, 2} -> Seq(Nat)]
        /\ \A q \in {1, 2} \ {p} : contents'[q] = contents[q]
    BY <1>1, <1>3, <2>1, <2>2 DEF PipeTypeOK
  <2>4. /\ i'[e] = i[e] + m /\ i' \in [Ends -> Nat]
        /\ \A other \in Ends \ {e} : i'[other] = i[other]
    BY <1>1, <1>4, <1>5 DEF PipeTypeOK
  <2>. QED BY <2>1, <2>3, <2>4
<1>8. FdInv'
  <2>1. PipeTypeOK'
    BY <1>1, <1>7 DEF PipeTypeOK, handles
  <2>2. fds = <<>>
    BY <1>1 DEF Creating
  <2>. QED BY <1>1, <2>1, <2>2, SameFds
<1>9. Sending'
  <2>1. ASSUME NEW other \in Ends
        PROVE  i'[other] <= len'[other]
    BY <1>1, <1>5, <1>7 DEF Sending
  <2>. QED BY <1>1, <2>1 DEF Sending, Open, handles
<1>10. ASSUME NEW other \in Ends, Open(Peer(other))'
       PROVE  Ascending(Bytestream(other))' /\ (Elements(Bytestream(other)) = Passed(other))'
  <2>1. Open(Peer(other))
    BY <1>1, <1>10 DEF Open, handles
  <2>2. Ascending(Bytestream(other)) /\ Elements(Bytestream(other)) = Passed(other)
    BY <2>1 DEF Flowing
  <2>3. CASE other # e
    <3>1. InPipe(Peer(other)) \in {1, 2} \ {p}
      BY <2>3, Opposite DEF p, InPipe, Ends, Peer
    <3>2. Bytestream(other)' = Bytestream(other) /\ Passed(other)' = Passed(other)
      BY <2>3, <3>1, <1>1, <1>7 DEF Bytestream, Passed
    <3>. QED BY <2>2, <3>2 DEF Ascending, Elements
  <2>4. CASE other = e
    <3>. DEFINE g == got[Peer(e)]
                c == contents[p]
    <3>1. g \in Seq(Nat) /\ c \in Seq(Nat)
      BY <1>1, <1>3, <1>7 DEF PipeTypeOK
    <3>2. Ascending(g \o c) /\ Elements(g \o c) = (1 .. s) \ dropped[e]
      BY <2>2, <2>4, <1>2 DEF Bytestream, p
    <3>3. Bytestream(e)' = g \o (c \o d)
      BY <1>1, <1>7 DEF Bytestream, p
    <3>. HIDE DEF g, c
    <3>4. /\ Ascending(g \o (c \o d))
          /\ Elements(g \o (c \o d)) = ((1 .. s) \ dropped[e]) \union (s + 1 .. s + m)
      <4>1. Elements(g \o c) \subseteq 1 .. s
        BY <3>2
      <4>2. /\ Ascending(g \o (c \o d))
            /\ Elements(g \o (c \o d)) = Elements(g \o c) \union (s + 1 .. s + Len(d))
        <5>1. d \in Seq(Nat) /\ Follows(d, s)
          BY <1>6 DEF Follows
        <5>2. s \in Nat /\ Ascending(g \o c)
          BY <1>2, <3>2
        <5>. QED BY <3>1, <4>1, <5>1, <5>2, Appended
      <4>. QED BY <3>2, <4>2, <1>6
    <3>5. Passed(e)' = (1 .. s + m) \ dropped[e]
      <4>1. /\ asked'[e] = asked[e] /\ len'[e] = len[e] /\ dropped'[e] = dropped[e]
            /\ asked[e] - len[e] + i'[e] + 1 = s + m + 1
            /\ s + m \in Nat /\ s + m <= asked[e]
        <5>1. asked'[e] = asked[e] /\ len'[e] = len[e] /\ dropped'[e] = dropped[e]
          BY <1>1
        <5>2. i'[e] = i[e] + m
          BY <1>7
        <5>3. /\ asked[e] - len[e] + (i[e] + m) + 1 = s + m + 1
              /\ s + m \in Nat /\ s + m <= asked[e]
          BY <1>2, <1>5
        <5>. QED BY <5>1, <5>2, <5>3
      <4>2. Passed(e)' = (1 .. asked[e]) \ (dropped[e] \union s + m + 1 .. asked[e])
        BY <4>1 DEF Passed
      <4>. QED BY <4>1, <4>2, <1>2
    <3>6. (1 .. s + m) \ dropped[e] = ((1 .. s) \ dropped[e]) \union (s + 1 .. s + m)
      <4>1. 1 .. s + m = (1 .. s) \union (s + 1 .. s + m)
        BY <1>2, <1>5
      <4>2. \A v \in s + 1 .. s + m : v \notin dropped[e]
        BY <1>2, <1>5
      <4>. QED BY <4>1, <4>2
    <3>. QED BY <2>4, <3>3, <3>4, <3>5, <3>6 DEF Ascending, Elements
  <2>. QED BY <2>3, <2>4
<1>. QED BY <1>8, <1>9, <1>10 DEF Flowing

LEMMA RecvKeeps ==
    ASSUME FdInv, Sending, Flowing, NEW e \in Ends, Recv(e)
    PROVE  FdInv' /\ Sending' /\ Flowing'
<1>. DEFINE p == InPipe(e)
            c == contents[p]
            n == Min({MaxRead, Len(c)})
<1>1. /\ Open(e) /\ PipeTypeOK /\ EndsOpen /\ Creating
      /\ UNCHANGED <<file, fds, handles, err, len, i, asked, dropped>>
  BY DEF Recv, FdInv
<1>2. PipeOf(hIn[e]) = p /\ p \in {1, 2} /\ c \in Seq(Nat) /\ got[e] \in Seq(Nat)
  <2>1. file[hIn[e]] = <<p, "read">>
    BY <1>1 DEF EndsOpen
  <2>2. p \in {1, 2}
    BY DEF InPipe
  <2>. QED BY <1>1, <2>1, <2>2 DEF PipeOf, PipeTypeOK
<1>3. /\ n > 0
      /\ got' = [got EXCEPT ![e] = @ \o SubSeq(contents[p], 1, n)]
      /\ contents' = [contents EXCEPT ![p] = SubSeq(@, n + 1, Len(@))]
  BY <1>2 DEF Recv
<1>4. n \in 1 .. Len(c)
  <2>1. Len(c) \in Nat /\ MaxRead \in Nat
    BY <1>2
  <2>2. n \in {MaxRead, Len(c)} /\ n <= Len(c)
    <3>. HIDE DEF c
    <3>1. MaxRead \in Int /\ Len(c) \in Int
      BY <2>1
    <3>. QED BY <3>1, MinOfTwo
  <2>. HIDE DEF n
  <2>. QED BY <1>3, <2>1, <2>2
<1>. DEFINE a == SubSeq(c, 1, n)
            z == SubSeq(c, n + 1, Len(c))
<1>. HIDE DEF n
<1>5. a \in Seq(Nat) /\ z \in Seq(Nat) /\ (got[e] \o a) \o z = got[e] \o c
  BY <1>2, <1>4, Moved
<1>6. /\ got'[e] = got[e] \o a /\ contents'[p] = z
      /\ \A d \in Ends \ {e} : got'[d] = got[d]
      /\ \A q \in {1, 2} \ {p} : contents'[q] = contents[q]
      /\ got' \in [Ends -> Seq(Nat)] /\ contents' \in [{1, 2} -> Seq(Nat)]
  <2>1. got[e] \o a \in Seq(Nat)
    BY <1>2, <1>5, ConcatProperties
  <2>2. got' = [got EXCEPT ![e] = got[e] \o a] /\ contents' = [contents EXCEPT ![p] = z]
    BY <1>3
  <2>. HIDE DEF a, z, p
  <2>. QED BY <1>1, <1>2, <1>5, <2>1, <2>2 DEF PipeTypeOK
<1>7. FdInv'
  <2>1. PipeTypeOK'
    BY <1>1, <1>6 DEF PipeTypeOK, handles
  <2>2. fds = <<>>
    BY <1>1 DEF Creating
  <2>. QED BY <1>1, <2>1, <2>2, SameFds
<1>8. Sending'
  BY <1>1 DEF Sending, Open, handles
<1>9. ASSUME NEW d \in Ends, Open(Peer(d))'
      PROVE  Open(Peer(d)) /\ Bytestream(d)' = Bytestream(d) /\ Passed(d)' = Passed(d)
  <2>1. Open(Peer(d)) /\ Passed(d)' = Passed(d)
    BY <1>1, <1>9 DEF Open, Passed, handles
  <2>2. CASE Peer(d) = e
    <3>1. Bytestream(d)' = got'[e] \o contents'[p]
      BY <2>2 DEF Bytestream
    <3>2. Bytestream(d) = got[e] \o c
      BY <2>2 DEF Bytestream
    <3>. QED BY <2>1, <3>1, <3>2, <1>5, <1>6
  <2>3. CASE Peer(d) # e
    <3>1. Peer(d) \in Ends \ {e} /\ InPipe(Peer(d)) \in {1, 2} \ {p}
      BY <2>3, Opposite DEF InPipe, Ends, Peer
    <3>2. got'[Peer(d)] = got[Peer(d)]
      BY <3>1, <1>6
    <3>3. contents'[InPipe(Peer(d))] = contents[InPipe(Peer(d))]
      BY <3>1, <1>6
    <3>. QED BY <2>1, <3>2, <3>3 DEF Bytestream
  <2>. QED BY <2>2, <2>3
<1>. QED BY <1>7, <1>8, <1>9, FlowSame
-----------------------------------------------------------------------------
(* The invariant. *)

LEMMA PipeInvInit == Init => PipeInv
BY InitFds, FlowInit DEF PipeInv

LEMMA PipeInvStep == PipeInv /\ [Next]_vars => PipeInv'
<1>. SUFFICES ASSUME FdInv, Sending, Flowing, [Next]_vars
              PROVE  FdInv' /\ Sending' /\ Flowing'
  BY DEF PipeInv
<1>1. CASE CreateFirst
  BY <1>1, CreateFirstFds, CreateFirstFlow
<1>2. CASE CreateFirstFails
  <2>1. /\ UNCHANGED <<file, contents, fds, handles, transfer>>
        /\ err' = [err EXCEPT !["left"] = "system"] /\ PipeTypeOK
    BY <1>2 DEF CreateFirstFails, FdInv
  <2>2. PipeTypeOK'
    BY <2>1 DEF PipeTypeOK, handles, transfer
  <2>. QED BY <2>1, <2>2, SameFds, FlowStill
<1>3. CASE CreateSecond
  BY <1>3, CreateSecondFds, CreateSecondFlow
<1>4. CASE CreateSecondFails
  <2>1. UNCHANGED <<contents, handles, transfer>>
    BY <1>4 DEF CreateSecondFails
  <2>. QED BY <1>4, <2>1, CreateSecondFailsFds, FlowStill
<1>5. ASSUME NEW e \in Ends, BeginSend(e) PROVE FdInv' /\ Sending' /\ Flowing'
  BY <1>5, BeginSendKeeps
<1>6. ASSUME NEW e \in Ends, Write(e) PROVE FdInv' /\ Sending' /\ Flowing'
  BY <1>6, WriteKeeps
<1>7. ASSUME NEW e \in Ends, WriteFull(e) PROVE FdInv' /\ Sending' /\ Flowing'
  <2>1. /\ Writing(e) /\ GiveUp(e, "closed")
        /\ UNCHANGED <<file, contents, fds, handles, asked, got>>
    BY <1>7 DEF WriteFull
  <2>. QED BY <2>1, GiveUpKeeps
<1>8. ASSUME NEW e \in Ends, WriteFails(e) PROVE FdInv' /\ Sending' /\ Flowing'
  <2>1. /\ Writing(e) /\ GiveUp(e, "system")
        /\ UNCHANGED <<file, contents, fds, handles, asked, got>>
    BY <1>8 DEF WriteFails
  <2>. QED BY <2>1, GiveUpKeeps
<1>9. ASSUME NEW e \in Ends, EndSend(e) PROVE FdInv' /\ Sending' /\ Flowing'
  BY <1>9, EndSendKeeps
<1>10. ASSUME NEW e \in Ends, Recv(e) PROVE FdInv' /\ Sending' /\ Flowing'
  BY <1>10, RecvKeeps
<1>11. ASSUME NEW e \in Ends, ClearErr(e) PROVE FdInv' /\ Sending' /\ Flowing'
  <2>1. /\ UNCHANGED <<file, contents, fds, handles, transfer>>
        /\ err' = [err EXCEPT ![e] = "none"] /\ PipeTypeOK
    BY <1>11 DEF ClearErr, FdInv
  <2>2. PipeTypeOK'
    BY <2>1 DEF PipeTypeOK, handles, transfer
  <2>. QED BY <2>1, <2>2, SameFds, FlowStill
<1>12. ASSUME NEW e \in Ends, Destroy(e) PROVE FdInv' /\ Sending' /\ Flowing'
  BY <1>12, DestroyFds, DestroyFlow
<1>13. CASE OpenOther
  <2>1. UNCHANGED <<contents, handles, transfer>>
    BY <1>13 DEF OpenOther
  <2>. QED BY <1>13, <2>1, OpenOtherFds, FlowStill
<1>14. CASE CloseOther
  <2>1. UNCHANGED <<contents, handles, transfer>>
    BY <1>14 DEF CloseOther
  <2>. QED BY <1>14, <2>1, CloseOtherFds, FlowStill
<1>15. CASE UNCHANGED vars
  <2>1. UNCHANGED <<file, contents, fds, handles, err, transfer>>
    BY <1>15 DEF vars
  <2>2. PipeTypeOK'
    BY <2>1 DEF FdInv, PipeTypeOK, handles, transfer
  <2>. QED BY <2>1, <2>2, SameFds, FlowStill
<1>. QED
  BY <1>1, <1>2, <1>3, <1>4, <1>5, <1>6, <1>7, <1>8, <1>9, <1>10, <1>11, <1>12,
     <1>13, <1>14, <1>15
  DEF Next, Create, SendStep

LEMMA PipeInvHolds == Spec => []PipeInv
<1>. QED BY PipeInvInit, PipeInvStep, PTL DEF Spec

LEMMA FdsOwnedFollows == FdInv => FdsOwned
<1>. SUFFICES ASSUME FdInv PROVE FdsOwned
  OBVIOUS
<1>. DEFINE inFds == {fds[k] : k \in 1 .. Len(fds)}
            held == {hIn[e] : e \in Ends} \union {hOut[e] : e \in Ends}
<1>1. PipeTypeOK /\ Creating /\ EndsOpen /\ NoOthers
  BY DEF FdInv
<1>2. inFds = IF fds = <<>> THEN {} ELSE {fds[1], fds[2]}
  <2>1. CASE fds = <<>>
    BY <2>1
  <2>2. CASE fds # <<>>
    <3>1. Len(fds) = 2
      BY <1>1, <2>2 DEF Creating
    <3>. QED BY <2>2, <3>1
  <2>. QED BY <2>1, <2>2
<1>3. \A e \in Ends : Open(e) =>
         /\ hIn[e] \in Fds /\ file[hIn[e]] = <<InPipe(e), "read">>
         /\ hOut[e] \in Fds /\ file[hOut[e]] = <<InPipe(Peer(e)), "write">>
         /\ file[hIn[e]] \in PipeFiles /\ file[hOut[e]] \in PipeFiles
         /\ fds = <<>>
  <2>1. ASSUME NEW e \in Ends, Open(e)
        PROVE  /\ hIn[e] \in Fds /\ file[hIn[e]] = <<InPipe(e), "read">>
               /\ hOut[e] \in Fds /\ file[hOut[e]] = <<InPipe(Peer(e)), "write">>
               /\ fds = <<>>
    BY <2>1, <1>1 DEF EndsOpen, Creating
  <2>2. \A e \in Ends : /\ <<InPipe(e), "read">> \in PipeFiles
                        /\ <<InPipe(Peer(e)), "write">> \in PipeFiles
    BY Opposite
  <2>. QED BY <2>1, <2>2
<1>4. \A e \in Ends : ~Open(e) => hIn[e] = Null /\ hOut[e] = Null
  BY <1>1 DEF EndsOpen, Open
<1>5. fds # <<>> => /\ fds[1] \in Fds /\ fds[2] \in Fds
                    /\ file[fds[1]] \in PipeFiles /\ file[fds[2]] \in PipeFiles
  BY <1>1 DEF Creating, PipeFiles
<1>. HIDE DEF inFds
<1>6. ASSUME NEW fd PROVE fd \in {f \in Fds : file[f] \in PipeFiles}
                            <=> fd \in inFds \union (held \ {Null})
  <2>1. ASSUME fd \in Fds, file[fd] \in PipeFiles
        PROVE  fd \in inFds \union (held \ {Null})
    <3>1. fd # Null
      BY <2>1, Nulls
    <3>. QED BY <2>1, <3>1, <1>1, <1>2 DEF NoOthers
  <2>2. ASSUME fd \in inFds PROVE fd \in Fds /\ file[fd] \in PipeFiles
    BY <2>2, <1>2, <1>5
  <2>3. ASSUME fd \in held, fd # Null PROVE fd \in Fds /\ file[fd] \in PipeFiles
    <3>1. PICK e \in Ends : fd \in {hIn[e], hOut[e]}
      BY <2>3
    <3>2. Open(e)
      BY <2>3, <3>1, <1>4
    <3>. QED BY <3>1, <3>2, <1>3
  <2>. QED BY <2>1, <2>2, <2>3
<1>7. {fd \in Fds : file[fd] \in PipeFiles} = inFds \union (held \ {Null})
  BY <1>6, Zenon
<1>8. inFds \intersect held = {}
  <2>1. CASE fds = <<>>
    BY <2>1, <1>2
  <2>2. CASE fds # <<>>
    <3>1. \A e \in Ends : hIn[e] = Null /\ hOut[e] = Null
      BY <2>2, <1>3, <1>4
    <3>2. \A fd \in inFds : fd # Null
      BY <2>2, <1>2, <1>5, Nulls
    <3>. QED BY <3>1, <3>2
  <2>. QED BY <2>1, <2>2
<1>9. ASSUME NEW e \in Ends, Open(e)
      PROVE  /\ file[hIn[e]][2] = "read" /\ file[hOut[e]][2] = "write"
             /\ SideOpen(PipeOf(hOut[e]), "read") <=> Open(Peer(e))
  <2>1. /\ file[hIn[e]] = <<InPipe(e), "read">>
        /\ file[hOut[e]] = <<InPipe(Peer(e)), "write">> /\ fds = <<>>
    BY <1>9, <1>3
  <2>2. PipeOf(hOut[e]) = InPipe(Peer(e))
    BY <2>1 DEF PipeOf
  <2>3. ASSUME Open(Peer(e)) PROVE SideOpen(InPipe(Peer(e)), "read")
    <3>1. Peer(e) \in Ends
      BY Opposite
    <3>. QED BY <2>3, <3>1, <1>3 DEF SideOpen
  <2>4. ASSUME SideOpen(InPipe(Peer(e)), "read") PROVE Open(Peer(e))
    <3>1. PICK fd \in Fds : file[fd] = <<InPipe(Peer(e)), "read">>
      BY <2>4 DEF SideOpen
    <3>2. file[fd] \in PipeFiles
      BY <3>1 DEF PipeFiles, InPipe
    <3>3. PICK d \in Ends : Open(d) /\ fd \in {hIn[d], hOut[d]}
      BY <3>2, <2>1, <1>1 DEF NoOthers
    <3>4. file[fd] = <<InPipe(d), "read">>
      BY <3>1, <3>3, <1>3
    <3>5. InPipe(d) = InPipe(Peer(e))
      BY <3>1, <3>4
    <3>6. d = Peer(e)
      BY <3>5 DEF InPipe, Ends, Peer
    <3>. QED BY <3>3, <3>6
  <2>. QED BY <2>1, <2>2, <2>3, <2>4
<1>. QED BY <1>7, <1>8, <1>9 DEF FdsOwned, inFds

LEMMA DeliveredFollows == FdInv /\ Flowing => Delivered
<1>. SUFFICES ASSUME FdInv, Flowing, NEW e \in Ends, Open(Peer(e))
              PROVE  LET bytes == got[Peer(e)] \o contents[PipeOf(hIn[Peer(e)])]
                     IN  /\ {bytes[k] : k \in 1 .. Len(bytes)} = Passed(e)
                         /\ \A j, k \in 1 .. Len(bytes) : j < k => bytes[j] < bytes[k]
  BY DEF Delivered
<1>1. Peer(e) \in Ends
  BY Opposite
<1>2. file[hIn[Peer(e)]] = <<InPipe(Peer(e)), "read">>
  BY <1>1 DEF FdInv, EndsOpen
<1>3. PipeOf(hIn[Peer(e)]) = InPipe(Peer(e))
  BY <1>2 DEF PipeOf
<1>4. Ascending(Bytestream(e)) /\ Elements(Bytestream(e)) = Passed(e)
  BY DEF Flowing
<1>. QED BY <1>3, <1>4 DEF Bytestream, Ascending, Elements

\* A descriptor that is open for a pipe belongs to one end, or to the
\* pipe_create under way: none leaks and none is closed for another
\* (pipe.cpp:25-36, 66-84).
THEOREM FdsCorrect == Spec => []FdsOwned
<1>1. PipeInv => FdsOwned
  BY FdsOwnedFollows DEF PipeInv
<1>. QED BY <1>1, PipeInvHolds, PTL

\* What an end has received and what waits for it is what its peer passed on,
\* each byte once and in order (pipe.cpp:105-184).
THEOREM DeliveryCorrect == Spec => []Delivered
<1>1. PipeInv => Delivered
  BY DeliveredFollows DEF PipeInv
<1>. QED BY <1>1, PipeInvHolds, PTL

-----------------------------------------------------------------------------
(* A send comes to its end. *)

\* How many rounds a send may still have: one a byte, and the one that ends it.
Rounds(l, k) == IF l = 0 THEN 0 ELSE (l - k) + 1
RoundsLeft(e) == Rounds(len[e], i[e])

\* Each step of a send under way brings it nearer to its end, and what the other
\* end, a pipe_create or others do does not take it back (pipe.cpp:135-184).
SendAdvances ==
    [][\A e \in Ends : len[e] # 0 =>
          /\ RoundsLeft(e) \in Nat /\ RoundsLeft(e) >= 1
          /\ RoundsLeft(e)' \in 0 .. RoundsLeft(e)
          /\ SendStep(e) => RoundsLeft(e)' < RoundsLeft(e)]_vars

LEMMA SomeAccepted ==
    ASSUME PipeTypeOK, NEW p \in {1, 2}, NEW n \in Nat, n >= 1, NEW m \in Accepted(p, n)
    PROVE  m \in 1 .. n
<1>1. m \in Nat /\ m <= n
  BY AcceptedIs
<1>2. m >= 1
  <2>1. CASE n <= Atomic
    BY <2>1 DEF Accepted
  <2>2. CASE ~(n <= Atomic)
    <3>1. m \in 1 .. Min({n, Room(p)})
      BY <2>2 DEF Accepted
    <3>. QED BY <3>1, <1>1
  <2>. QED BY <2>1, <2>2
<1>. QED BY <1>1, <1>2

\* What the steps do to the message of an end: one that is under way goes on,
\* ends, or stays as it is.
LEMMA WritesOn ==
    ASSUME PipeInv, NEW e \in Ends, Write(e)
    PROVE  /\ len' = len /\ i'[e] \in i[e] + 1 .. len[e]
           /\ \A d \in Ends \ {e} : i'[d] = i[d]
<1>1. /\ len[e] # 0 /\ i[e] < len[e] /\ PipeTypeOK /\ len' = len /\ Open(e) /\ EndsOpen
      /\ len[e] \in Nat /\ i[e] \in Nat
  BY Numbers DEF Write, Writing, PipeInv, FdInv, Sending, PipeTypeOK
<1>2. PICK n \in Accepted(Out(e), len[e] - i[e]) : i' = [i EXCEPT ![e] = @ + n]
  BY DEF Write
<1>3. Out(e) \in {1, 2}
  <2>1. Out(e) = InPipe(Peer(e))
    BY <1>1 DEF EndsOpen, Out, PipeOf
  <2>. QED BY <2>1 DEF InPipe
<1>4. len[e] - i[e] \in Nat /\ len[e] - i[e] >= 1
  BY <1>1
<1>5. n \in 1 .. len[e] - i[e]
  BY <1>1, <1>3, <1>4, SomeAccepted
<1>6. i \in [Ends -> Nat]
  BY <1>1 DEF PipeTypeOK
<1>7. i'[e] = i[e] + n /\ \A d \in Ends \ {e} : i'[d] = i[d]
  BY <1>2, <1>6
<1>. QED BY <1>1, <1>5, <1>7

LEMMA MessageEnds ==
    ASSUME PipeTypeOK, NEW e \in Ends, WriteFull(e) \/ WriteFails(e) \/ EndSend(e)
    PROVE  len'[e] = 0 /\ \A d \in Ends \ {e} : len'[d] = len[d] /\ i'[d] = i[d]
<1>1. len' = [len EXCEPT ![e] = 0] /\ i' = [i EXCEPT ![e] = 0]
  BY DEF WriteFull, WriteFails, EndSend, GiveUp
<1>. QED BY <1>1 DEF PipeTypeOK

LEMMA SendGoesOn ==
    ASSUME PipeInv, [Next]_vars, NEW e \in Ends, len[e] # 0
    PROVE  /\ \/ len'[e] = len[e] /\ i'[e] = i[e]
              \/ len'[e] = len[e] /\ i'[e] \in i[e] + 1 .. len[e]
              \/ len'[e] = 0
           /\ SendStep(e) => \/ len'[e] = len[e] /\ i'[e] \in i[e] + 1 .. len[e]
                             \/ len'[e] = 0
<1>1. PipeTypeOK /\ Open(e) /\ fds = <<>>
  BY DEF PipeInv, FdInv, Sending, Creating
<1>2. SendStep(e) => \/ len'[e] = len[e] /\ i'[e] \in i[e] + 1 .. len[e]
                     \/ len'[e] = 0
  BY <1>1, WritesOn, MessageEnds DEF SendStep
<1>3. ASSUME UNCHANGED transfer PROVE len'[e] = len[e] /\ i'[e] = i[e]
  BY <1>3 DEF transfer
<1>4. ASSUME Create PROVE len'[e] = len[e] /\ i'[e] = i[e]
  BY <1>1, <1>3, <1>4
  DEF Create, CreateFirst, CreateFirstFails, CreateSecond, CreateSecondFails
<1>5. ASSUME NEW d \in Ends, SendStep(d), d # e PROVE len'[e] = len[e] /\ i'[e] = i[e]
  BY <1>1, <1>5, WritesOn, MessageEnds DEF SendStep
<1>6. ASSUME NEW d \in Ends, BeginSend(d) PROVE len'[e] = len[e] /\ i'[e] = i[e]
  <2>1. d # e /\ i' = [i EXCEPT ![d] = 0] /\ \E n : len' = [len EXCEPT ![d] = n]
    BY <1>6 DEF BeginSend
  <2>. QED BY <1>1, <2>1 DEF PipeTypeOK
<1>7. ASSUME NEW d \in Ends, Recv(d) \/ ClearErr(d) \/ Destroy(d)
      PROVE  len'[e] = len[e] /\ i'[e] = i[e]
  BY <1>7 DEF Recv, ClearErr, Destroy, transfer
<1>8. ASSUME OpenOther \/ CloseOther \/ UNCHANGED vars
      PROVE  len'[e] = len[e] /\ i'[e] = i[e]
  BY <1>8 DEF OpenOther, CloseOther, vars, transfer
<1>9. ASSUME NEW d \in Ends, SendStep(d)
      PROVE  SendStep(e) \/ (len'[e] = len[e] /\ i'[e] = i[e])
  <2>1. CASE d = e
    <3>1. SendStep(e)
      BY <1>9, <2>1
    <3>. QED BY <3>1
  <2>2. CASE d # e
    BY <1>5, <1>9, <2>2
  <2>. QED BY <2>1, <2>2
<1>10. SendStep(e) \/ (len'[e] = len[e] /\ i'[e] = i[e])
  <2>1. \/ Create \/ OpenOther \/ CloseOther \/ UNCHANGED vars
        \/ \E d \in Ends : BeginSend(d) \/ SendStep(d) \/ Recv(d) \/ ClearErr(d) \/ Destroy(d)
    BY DEF Next
  <2>2. CASE \E d \in Ends : BeginSend(d) \/ SendStep(d) \/ Recv(d) \/ ClearErr(d) \/ Destroy(d)
    <3>1. PICK d \in Ends : BeginSend(d) \/ SendStep(d) \/ Recv(d) \/ ClearErr(d) \/ Destroy(d)
      BY <2>2
    <3>. QED BY <3>1, <1>6, <1>7, <1>9
  <2>. QED BY <2>1, <2>2, <1>4, <1>8
<1>11. CASE SendStep(e)
  BY <1>2, <1>11
<1>12. CASE ~SendStep(e)
  BY <1>10, <1>12
<1>. QED BY <1>11, <1>12

\* Every send under way has a natural number of rounds left, which each of its
\* steps lessens and no other step raises, however the other end, the kernel and
\* the rest of the program go on: of the claim that send() returns it is what
\* does not rest on fairness (pipe.cpp:135-184).
THEOREM SendAdvancesAlways == Spec => SendAdvances
<1>1. ASSUME PipeInv, [Next]_vars, NEW e \in Ends, len[e] # 0
      PROVE  /\ RoundsLeft(e) \in Nat /\ RoundsLeft(e) >= 1
             /\ RoundsLeft(e)' \in 0 .. RoundsLeft(e)
             /\ SendStep(e) => RoundsLeft(e)' < RoundsLeft(e)
  <2>. DEFINE l == len[e]
              k == i[e]
              m == len'[e]
              n == i'[e]
  <2>1. l \in Nat /\ k \in Nat /\ k <= l /\ l # 0
    BY <1>1, Numbers DEF PipeInv, FdInv
  <2>2. /\ (m = l /\ n = k) \/ (m = l /\ n \in k + 1 .. l) \/ m = 0
        /\ SendStep(e) => (m = l /\ n \in k + 1 .. l) \/ m = 0
    BY <1>1, SendGoesOn
  <2>3. RoundsLeft(e) = Rounds(l, k) /\ RoundsLeft(e)' = Rounds(m, n)
    BY DEF RoundsLeft
  <2>. HIDE DEF l, k, m, n
  <2>4. Rounds(l, k) \in Nat /\ Rounds(l, k) >= 1
    BY <2>1 DEF Rounds
  <2>5. ASSUME m = l /\ n \in k + 1 .. l
        PROVE  Rounds(m, n) \in Nat /\ Rounds(m, n) < Rounds(l, k)
    BY <2>1, <2>5 DEF Rounds
  <2>6. ASSUME m = 0 PROVE Rounds(m, n) = 0
    BY <2>6 DEF Rounds
  <2>7. Rounds(m, n) \in 0 .. Rounds(l, k)
    BY <2>2, <2>4, <2>5, <2>6
  <2>8. SendStep(e) => Rounds(m, n) < Rounds(l, k)
    BY <2>2, <2>4, <2>5, <2>6
  <2>. QED BY <2>3, <2>4, <2>7, <2>8
<1>2. PipeInv /\ [Next]_vars =>
         [\A e \in Ends : len[e] # 0 =>
             /\ RoundsLeft(e) \in Nat /\ RoundsLeft(e) >= 1
             /\ RoundsLeft(e)' \in 0 .. RoundsLeft(e)
             /\ SendStep(e) => RoundsLeft(e)' < RoundsLeft(e)]_vars
  BY <1>1
<1>. QED BY <1>2, PipeInvHolds, PTL DEF Spec, SendAdvances
=============================================================================
