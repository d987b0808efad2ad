----------------------------- MODULE FileProofs -----------------------------
(***************************************************************************)
(* Proofs about File for any objects, limit of descriptors and file, and   *)
(* any pieces of a call.  HandlesInv says that descriptors and objects     *)
(* match; CallInv, ReadInv and WriteInv that the buffer of the call under  *)
(* way is what lies before the cursor.  The latter rest on the former only *)
(* for the descriptor that the call's object keeps.  Then how many rounds  *)
(* a call has left, and the operations on paths.                           *)
(***************************************************************************)
EXTENDS File, TimeProofs, SequenceTheorems, WellFoundedInduction

Uses == {"free", "other", "reading", "writing"}

TypeOK ==
    /\ pc \in {"begin", "idle", "read", "write"}
    /\ desc \in [Fds -> [use : Uses, at : Nat]]
    /\ opaq \in [Objs -> Fds \union {Null}]

HandlesInv == TypeOK /\ FilesOwned

LEMMA Numbers ==
    /\ Limit \in Nat /\ Chunk \in Nat /\ Chunk >= 1 /\ MaxLen \in Nat
    /\ All \notin Nat /\ Null \notin Nat /\ Null \notin Fds
BY FileAssumption DEF Fds

LEMMA LeastFree ==
    ASSUME NEW S \in SUBSET Nat, S # {}
    PROVE  Min(S) \in S
<1>. DEFINE R == OpToRel(<, Nat)
<1>1. \E x \in S : \A y \in S : ~ (<<y, x>> \in R)
  BY NatLessThanWellFounded, WFMin
<1>2. \A a, b \in Nat : a < b => <<a, b>> \in R
  BY DEF OpToRel
<1>. HIDE DEF R
<1>3. PICK x \in S : \A y \in S : ~ (<<y, x>> \in R)
  BY <1>1
<1>4. \A y \in S : ~(y < x)
  BY <1>2, <1>3
<1>5. \A y \in S : x <= y
  BY <1>4
<1>. QED BY <1>5 DEF Min

-----------------------------------------------------------------------------
(* Objects and descriptors. *)

\* Closing what o has leaves its descriptor free and the others as they were.
LEMMA ClosedFrees ==
    ASSUME TypeOK, NEW o \in Objs
    PROVE  /\ Closed(desc, o) \in [Fds -> [use : Uses, at : Nat]]
           /\ \A fd \in Fds : fd = opaq[o] => Closed(desc, o)[fd].use = "free"
           /\ \A fd \in Fds : fd # opaq[o] => Closed(desc, o)[fd] = desc[fd]
BY DEF TypeOK, Closed, Opened, Uses

\* FilesOwned, descriptor by descriptor.
IsFile(d, fd) == d[fd].use \in {"reading", "writing"}

Owned(d, h) ==
    /\ \A fd \in Fds : IsFile(d, fd) <=> \E o \in Objs : h[o] = fd
    /\ \A o, p \in Objs : h[o] = h[p] /\ h[o] # Null => o = p

LEMMA OwnedMeans ==
    ASSUME opaq \in [Objs -> Fds \union {Null}]
    PROVE  FilesOwned <=> Owned(desc, opaq)
BY Numbers DEF FilesOwned, Owned, IsFile, Used

LEMMA OwnedMeansNext ==
    ASSUME opaq' \in [Objs -> Fds \union {Null}]
    PROVE  FilesOwned' <=> Owned(desc', opaq')
BY Numbers DEF FilesOwned, Owned, IsFile, Used

LEMMA LeastFreeFd ==
    ASSUME NEW use, Used(use) # {}
    PROVE  Min(Used(use)) \in Fds /\ desc[Min(Used(use))].use = use
<1>1. Used(use) \in SUBSET Nat
  BY Numbers DEF Used, Fds
<1>2. Min(Used(use)) \in Used(use)
  BY <1>1, LeastFree
<1>. QED BY <1>2 DEF Used

LEMMA OpenOwned ==
    ASSUME HandlesInv, NEW o \in Objs, Open(o)
    PROVE  HandlesInv'
<1>. DEFINE fd == Min(Used("free"))
<1>1. fd \in Fds /\ desc[fd].use = "free"
  BY LeastFreeFd DEF Open
<1>. HIDE DEF fd
<1>2. PICK use \in {"reading", "writing"} :
         /\ desc' = [Closed(desc, o) EXCEPT ![fd] = Opened(use)]
         /\ opaq' = [opaq EXCEPT ![o] = fd]
  BY DEF Open, fd
<1>3. Owned(desc, opaq) /\ TypeOK
  BY OwnedMeans DEF HandlesInv, TypeOK
<1>4. TypeOK'
  <2>1. desc' \in [Fds -> [use : Uses, at : Nat]]
    BY <1>2, <1>3, ClosedFrees DEF Opened, Uses
  <2>2. opaq' \in [Objs -> Fds \union {Null}]
    BY <1>1, <1>2, <1>3 DEF TypeOK
  <2>. QED BY <2>1, <2>2, <1>3 DEF TypeOK, Open
<1>5. \A g \in Fds : IsFile(desc', g) <=> g = fd \/ (g # opaq[o] /\ IsFile(desc, g))
  <2>1. \A g \in Fds : g # fd => desc'[g] = Closed(desc, o)[g]
    BY <1>2, <1>3, ClosedFrees
  <2>2. desc'[fd].use \in {"reading", "writing"}
    BY <1>1, <1>2, <1>3, ClosedFrees DEF Opened
  <2>. QED BY <2>1, <2>2, <1>3, ClosedFrees DEF IsFile
<1>6. opaq'[o] = fd /\ \A p \in Objs : p # o => opaq'[p] = opaq[p]
  BY <1>2, <1>3 DEF TypeOK
<1>7. \A p \in Objs : opaq[p] # fd
  BY <1>1, <1>3 DEF Owned, IsFile
<1>8. Owned(desc', opaq')
  <2>1. ASSUME NEW g \in Fds PROVE IsFile(desc', g) <=> \E p \in Objs : opaq'[p] = g
    BY <1>3, <1>5, <1>6, <1>7, Numbers DEF Owned
  <2>2. \A p, q \in Objs : opaq'[p] = opaq'[q] /\ opaq'[p] # Null => p = q
    BY <1>3, <1>6, <1>7 DEF Owned
  <2>. QED BY <2>1, <2>2 DEF Owned
<1>. QED BY <1>4, <1>8, OwnedMeansNext DEF HandlesInv, TypeOK

\* o gives up its descriptor, which is closed; another object's may become o's.
LEMMA CloseOwned ==
    ASSUME HandlesInv, NEW o \in Objs, pc' = pc, desc' = Closed(desc, o),
           opaq' = [opaq EXCEPT ![o] = Null]
    PROVE  HandlesInv'
<1>1. Owned(desc, opaq) /\ TypeOK
  BY OwnedMeans DEF HandlesInv, TypeOK
<1>2. TypeOK'
  BY <1>1, ClosedFrees DEF TypeOK
<1>3. opaq'[o] = Null /\ \A p \in Objs : p # o => opaq'[p] = opaq[p]
  BY <1>1 DEF TypeOK
<1>4. \A g \in Fds : IsFile(desc', g) <=> g # opaq[o] /\ IsFile(desc, g)
  BY <1>1, ClosedFrees DEF IsFile
<1>5. Owned(desc', opaq')
  <2>1. ASSUME NEW g \in Fds PROVE IsFile(desc', g) <=> \E p \in Objs : opaq'[p] = g
    BY <1>1, <1>3, <1>4, Numbers DEF Owned
  <2>2. \A p, q \in Objs : opaq'[p] = opaq'[q] /\ opaq'[p] # Null => p = q
    BY <1>1, <1>3 DEF Owned
  <2>. QED BY <2>1, <2>2 DEF Owned
<1>. QED BY <1>2, <1>5, OwnedMeansNext DEF HandlesInv, TypeOK

LEMMA MoveOwned ==
    ASSUME HandlesInv, NEW o \in Objs, NEW ori \in Objs, Move(o, ori)
    PROVE  HandlesInv'
<1>1. Owned(desc, opaq) /\ TypeOK
  BY OwnedMeans DEF HandlesInv, TypeOK
<1>2. /\ o # ori /\ pc' = pc /\ desc' = Closed(desc, o)
      /\ opaq' = [opaq EXCEPT ![o] = opaq[ori], ![ori] = Null]
  BY DEF Move
<1>3. TypeOK'
  BY <1>1, <1>2, ClosedFrees DEF TypeOK
<1>4. /\ opaq'[o] = opaq[ori] /\ opaq'[ori] = Null
      /\ \A p \in Objs : p # o /\ p # ori => opaq'[p] = opaq[p]
  BY <1>1, <1>2 DEF TypeOK
<1>5. \A g \in Fds : IsFile(desc', g) <=> g # opaq[o] /\ IsFile(desc, g)
  BY <1>1, <1>2, ClosedFrees DEF IsFile
<1>6. Owned(desc', opaq')
  <2>1. ASSUME NEW g \in Fds PROVE IsFile(desc', g) <=> \E p \in Objs : opaq'[p] = g
    <3>1. ASSUME IsFile(desc', g) PROVE \E p \in Objs : opaq'[p] = g
      <4>1. PICK p \in Objs : opaq[p] = g /\ p # o
        BY <3>1, <1>1, <1>5 DEF Owned
      <4>. QED BY <4>1, <1>4
    <3>2. ASSUME NEW p \in Objs, opaq'[p] = g PROVE IsFile(desc', g)
      <4>1. PICK q \in Objs : q # o /\ opaq[q] = g
        BY <3>2, <1>2, <1>4, Numbers
      <4>2. IsFile(desc, g) /\ opaq[o] # g
        BY <4>1, <1>1, Numbers DEF Owned
      <4>. QED BY <4>2, <1>5
    <3>. QED BY <3>1, <3>2
  <2>2. ASSUME NEW p \in Objs, NEW q \in Objs, opaq'[p] = opaq'[q], opaq'[p] # Null
        PROVE  p = q
    <3>1. p # ori /\ q # ori
      BY <2>2, <1>4
    <3>2. \A r \in Objs : r # ori => opaq'[r] = opaq[IF r = o THEN ori ELSE r]
      BY <1>4
    <3>3. (IF p = o THEN ori ELSE p) = (IF q = o THEN ori ELSE q)
      BY <2>2, <3>1, <3>2, <1>1 DEF Owned
    <3>. QED BY <3>1, <3>3
  <2>. QED BY <2>1, <2>2 DEF Owned
<1>. QED BY <1>3, <1>6, OwnedMeansNext DEF HandlesInv, TypeOK

\* Cursors move, and descriptors of other parts of the program come and go.
LEMMA OthersKeep ==
    ASSUME HandlesInv, UNCHANGED opaq, pc' \in {"begin", "idle", "read", "write"},
           desc' \in [Fds -> [use : Uses, at : Nat]],
           \A fd \in Fds : IsFile(desc', fd) <=> IsFile(desc, fd)
    PROVE  HandlesInv'
<1>1. Owned(desc, opaq) /\ TypeOK
  BY OwnedMeans DEF HandlesInv, TypeOK
<1>2. TypeOK'
  BY <1>1 DEF TypeOK
<1>3. Owned(desc', opaq')
  BY <1>1 DEF Owned
<1>. QED BY <1>2, <1>3, OwnedMeansNext DEF HandlesInv, TypeOK

-----------------------------------------------------------------------------
(* The data of a call. *)

Bytes == Nat \union {Old, Gap, Fresh}

\* The call under way has an object with a descriptor, the cursor of which goes
\* with the index.
CallInv ==
    /\ content \in {Null} \union Seq(Bytes)
    /\ \A o \in Objs : opaq[o] # Null => content \in Seq(Bytes)
    /\ pc \in {"read", "write"} =>
          /\ obj \in Objs /\ opaq[obj] # Null
          /\ text \in Seq(Bytes) /\ i \in 0 .. Len(text)
          /\ before.content \in Seq(Bytes) /\ before.at \in Nat
          /\ Len(before.content) <= Len(content)
          /\ Cursor = before.at + i
          /\ i > 0 => before.at + i <= Len(content)
          /\ \A j \in 1 .. i : text[j] = content[before.at + j]

\* A buffer that is full is full for good: of a read of all there is always
\* room left, unless the end was met.
ReadInv ==
    pc = "read" =>
        IF want = All
        THEN i < Len(text) \/ Cursor >= Len(before.content)
        ELSE Len(text) = want

WriteInv ==
    pc = "write" =>
        /\ want = Len(text)
        /\ \A k \in 1 .. Len(before.content) \ before.at + 1 .. before.at + i :
              content[k] = before.content[k]

DataInv == HandlesInv /\ CallInv /\ ReadInv /\ WriteInv

LEMMA MinOfTwo ==
    ASSUME NEW p \in Int, NEW q \in Int
    PROVE  Min({p, q}) = IF p <= q THEN p ELSE q
BY DEF Min

LEMMA MaxOfTwo ==
    ASSUME NEW p \in Int, NEW q \in Int
    PROVE  Max({p, q}) = IF p >= q THEN p ELSE q
BY DEF Max

LEMMA PartIs ==
    ASSUME NEW s \in Seq(Bytes), NEW m \in Nat, NEW n \in Nat, m + n <= Len(s)
    PROVE  /\ SubSeq(s, m + 1, m + n) \in Seq(Bytes)
           /\ Len(SubSeq(s, m + 1, m + n)) = n
           /\ \A j \in 1 .. n : SubSeq(s, m + 1, m + n)[j] = s[m + j]
<1>1. \A j \in m + 1 .. m + n : s[j] \in Bytes
  BY ElementOfSeq
<1>2. m + 1 \in Int /\ m + n \in Int
  OBVIOUS
<1>3. \A j \in 1 .. m + n - (m + 1) + 1 : SubSeq(s, m + 1, m + n)[j] = s[m + 1 + j - 1]
  BY <1>1, <1>2, SubSeqProperties
<1>4. /\ SubSeq(s, m + 1, m + n) \in Seq(Bytes)
      /\ Len(SubSeq(s, m + 1, m + n)) = IF m + 1 <= m + n THEN m + n - (m + 1) + 1 ELSE 0
  BY <1>1, <1>2, SubSeqProperties
<1>. QED BY <1>3, <1>4

LEMMA PrefixIs ==
    ASSUME NEW s \in Seq(Bytes), NEW n \in Nat, n <= Len(s)
    PROVE  /\ SubSeq(s, 1, n) \in Seq(Bytes)
           /\ Len(SubSeq(s, 1, n)) = n
           /\ \A j \in 1 .. n : SubSeq(s, 1, n)[j] = s[j]
<1>1. 0 \in Nat /\ 0 + n <= Len(s)
  OBVIOUS
<1>2. /\ SubSeq(s, 0 + 1, 0 + n) \in Seq(Bytes) /\ Len(SubSeq(s, 0 + 1, 0 + n)) = n
      /\ \A j \in 1 .. n : SubSeq(s, 0 + 1, 0 + n)[j] = s[0 + j]
  BY <1>1, PartIs
<1>3. SubSeq(s, 0 + 1, 0 + n) = SubSeq(s, 1, n) /\ \A j \in 1 .. n : 0 + j = j
  OBVIOUS
<1>. QED BY <1>2, <1>3

\* A part is the begin of another sequence if its bytes are.
LEMMA PartIsPrefix ==
    ASSUME NEW s \in Seq(Bytes), NEW t \in Seq(Bytes), NEW m \in Nat,
           NEW n \in Nat, m + n <= Len(s), n <= Len(t),
           \A j \in 1 .. n : s[m + j] = t[j]
    PROVE  SubSeq(s, m + 1, m + n) = SubSeq(t, 1, n)
<1>. DEFINE a == SubSeq(s, m + 1, m + n)
            b == SubSeq(t, 1, n)
<1>1. /\ a \in Seq(Bytes) /\ Len(a) = n
      /\ \A j \in 1 .. n : a[j] = s[m + j]
  BY PartIs
<1>2. /\ b \in Seq(Bytes) /\ Len(b) = n
      /\ \A j \in 1 .. n : b[j] = t[j]
  BY PrefixIs
<1>. HIDE DEF a, b
<1>3. Len(a) = Len(b) /\ \A j \in 1 .. Len(a) : a[j] = b[j]
  BY <1>1, <1>2
<1>4. a = b
  BY <1>1, <1>2, <1>3, SeqEqual
<1>. QED BY <1>4 DEF a, b

\* What r is, s with data from place k on.
Overlaid(r, s, k, data) ==
    /\ r \in Seq(Bytes)
    /\ Len(r) >= Len(s) /\ Len(r) >= k + Len(data)
    /\ k + Len(data) <= Len(s) => Len(r) = Len(s)
    /\ \A j \in 1 .. Len(data) : r[k + j] = data[j]
    /\ \A j \in 1 .. Len(s) : j \notin k + 1 .. k + Len(data) => r[j] = s[j]

LEMMA OverlayIs ==
    ASSUME NEW s \in Seq(Bytes), NEW k \in Nat, NEW data \in Seq(Bytes)
    PROVE  Overlaid(Overlay(s, k, data), s, k, data)
<1>. DEFINE n == Max({Len(s), k + Len(data)})
            byte(j) == IF k < j /\ j <= k + Len(data) THEN data[j - k]
                       ELSE IF j <= Len(s) THEN s[j] ELSE Gap
            new == [j \in 1 .. n |-> byte(j)]
<1>1. Len(s) \in Nat /\ Len(data) \in Nat
  OBVIOUS
<1>2. n = IF Len(s) >= k + Len(data) THEN Len(s) ELSE k + Len(data)
  BY <1>1, MaxOfTwo
<1>. HIDE DEF n
<1>3. n \in Nat
  BY <1>1, <1>2
<1>4. \A j \in 1 .. n : byte(j) \in Bytes
  <2>1. ASSUME NEW j \in 1 .. n PROVE byte(j) \in Bytes
    <3>1. CASE k < j /\ j <= k + Len(data)
      <4>1. j - k \in 1 .. Len(data)
        BY <3>1, <1>1, <1>3
      <4>2. data[j - k] \in Bytes
        BY <4>1, ElementOfSeq
      <4>. QED BY <3>1, <4>2
    <3>2. CASE ~(k < j /\ j <= k + Len(data)) /\ j <= Len(s)
      <4>1. j \in 1 .. Len(s)
        BY <3>2, <1>1, <1>3
      <4>2. s[j] \in Bytes
        BY <4>1, ElementOfSeq
      <4>. QED BY <3>2, <4>2
    <3>3. CASE ~(k < j /\ j <= k + Len(data)) /\ ~(j <= Len(s))
      BY <3>3 DEF Bytes
    <3>. QED BY <3>1, <3>2, <3>3
  <2>. QED BY <2>1
<1>. HIDE DEF byte
<1>5. new \in Seq(Bytes) /\ Len(new) = n /\ \A j \in 1 .. n : new[j] = byte(j)
  BY <1>3, <1>4
<1>6. Overlay(s, k, data) = new
  BY DEF Overlay, byte, n
<1>. HIDE DEF new
<1>7. \A j \in 1 .. Len(data) : new[k + j] = data[j]
  <2>1. ASSUME NEW j \in 1 .. Len(data) PROVE new[k + j] = data[j]
    <3>1. k + j \in 1 .. n /\ k < k + j /\ k + j <= k + Len(data) /\ k + j - k = j
      BY <1>1, <1>2
    <3>2. new[k + j] = byte(k + j)
      BY <3>1, <1>5
    <3>. QED BY <3>1, <3>2 DEF byte
  <2>. QED BY <2>1
<1>8. \A j \in 1 .. Len(s) : j \notin k + 1 .. k + Len(data) => new[j] = s[j]
  <2>1. ASSUME NEW j \in 1 .. Len(s), j \notin k + 1 .. k + Len(data)
        PROVE  new[j] = s[j]
    <3>1. j \in 1 .. n /\ ~(k < j /\ j <= k + Len(data)) /\ j <= Len(s)
      BY <1>1, <1>2, <2>1
    <3>. QED BY <3>1, <1>5 DEF byte
  <2>. QED BY <2>1
<1>. QED BY <1>1, <1>2, <1>5, <1>6, <1>7, <1>8 DEF Overlaid

-----------------------------------------------------------------------------
(* The steps. *)

LEMMA InvariantInit == Init => DataInv
<1>. SUFFICES ASSUME Init PROVE DataInv
  OBVIOUS
<1>1. TypeOK
  BY DEF Init, TypeOK, Opened, Uses
<1>2. Owned(desc, opaq)
  BY Numbers DEF Init, Owned, IsFile, Opened
<1>3. content \in {Null} \union Seq(Bytes)
  <2>1. Old \in Bytes
    BY DEF Bytes
  <2>2. ASSUME NEW n \in 0 .. MaxLen - 1 PROVE [k \in 1 .. n |-> Old] \in Seq(Bytes)
    BY <2>1, Numbers
  <2>. QED BY <2>2 DEF Init
<1>4. CallInv /\ ReadInv /\ WriteInv
  BY <1>3 DEF Init, CallInv, ReadInv, WriteInv
<1>. QED BY <1>1, <1>2, <1>4, OwnedMeans DEF DataInv, HandlesInv, TypeOK

\* What the object of a call has is an open file.
LEMMA CallTypes ==
    ASSUME DataInv, pc \in {"read", "write"}
    PROVE  /\ obj \in Objs /\ opaq[obj] \in Fds
           /\ desc[opaq[obj]] \in [use : Uses, at : Nat]
           /\ Cursor = desc[opaq[obj]].at /\ Cursor \in Nat
           /\ content \in Seq(Bytes) /\ Len(content) \in Nat
           /\ text \in Seq(Bytes) /\ Len(text) \in Nat /\ i \in Nat
<1>1. obj \in Objs /\ opaq[obj] \in Fds
  BY DEF DataInv, HandlesInv, CallInv, TypeOK
<1>2. desc[opaq[obj]] \in [use : Uses, at : Nat]
  BY <1>1 DEF DataInv, HandlesInv, TypeOK
<1>3. content \in Seq(Bytes) /\ text \in Seq(Bytes) /\ i \in 0 .. Len(text)
  BY <1>1 DEF DataInv, CallInv
<1>. QED BY <1>1, <1>2, <1>3 DEF Cursor

\* A piece of n bytes moves the cursor on, and no other.
LEMMA CursorMoves ==
    ASSUME DataInv, pc \in {"read", "write"}, pc' = pc, UNCHANGED <<opaq, obj>>, NEW n \in Nat,
           desc' = [desc EXCEPT ![opaq[obj]].at = @ + n]
    PROVE  HandlesInv' /\ Cursor' = Cursor + n
<1>1. /\ obj \in Objs /\ opaq[obj] \in Fds
      /\ desc[opaq[obj]] \in [use : Uses, at : Nat]
  BY CallTypes
<1>2. /\ desc' \in [Fds -> [use : Uses, at : Nat]]
      /\ \A fd \in Fds : desc'[fd].use = desc[fd].use
      /\ desc'[opaq[obj]].at = desc[opaq[obj]].at + n
  BY <1>1 DEF DataInv, HandlesInv, TypeOK
<1>3. HandlesInv'
  BY <1>2, OthersKeep DEF IsFile, DataInv, HandlesInv, TypeOK
<1>. QED BY <1>2, <1>3 DEF Cursor

\* What a buffer t holds after n bytes of s were read behind its first k.
Holds(b, t, k, s, c, n) ==
    /\ b \in Seq(Bytes) /\ Len(b) = Len(t)
    /\ \A j \in 1 .. n : b[k + j] = s[c + j]
    /\ \A j \in 1 .. k : b[j] = t[j]

LEMMA ReadBuffer ==
    ASSUME NEW s \in Seq(Bytes), NEW t \in Seq(Bytes), NEW c \in Nat, NEW k \in Nat,
           NEW n \in Nat, k + n <= Len(t), c + n <= Len(s)
    PROVE  Holds(Overlay(t, k, SubSeq(s, c + 1, c + n)), t, k, s, c, n)
<1>. DEFINE piece == SubSeq(s, c + 1, c + n)
            buf == Overlay(t, k, piece)
<1>1. /\ piece \in Seq(Bytes) /\ Len(piece) = n
      /\ \A j \in 1 .. n : piece[j] = s[c + j]
  BY PartIs
<1>. HIDE DEF piece
<1>2. /\ buf \in Seq(Bytes)
      /\ k + Len(piece) <= Len(t) => Len(buf) = Len(t)
      /\ \A j \in 1 .. Len(piece) : buf[k + j] = piece[j]
      /\ \A j \in 1 .. Len(t) : j \notin k + 1 .. k + Len(piece) => buf[j] = t[j]
  <2>1. Overlaid(buf, t, k, piece)
    BY <1>1, OverlayIs
  <2>. QED BY <2>1 DEF Overlaid
<1>. HIDE DEF buf
<1>3. \A j \in 1 .. n : buf[k + j] = s[c + j]
  BY <1>1, <1>2
<1>4. \A j \in 1 .. k : buf[j] = t[j]
  <2>1. \A j \in 1 .. k : j \in 1 .. Len(t) /\ j \notin k + 1 .. k + Len(piece)
    BY <1>1
  <2>. QED BY <2>1, <1>2
<1>5. buf \in Seq(Bytes) /\ Len(buf) = Len(t)
  BY <1>1, <1>2
<1>. QED BY <1>3, <1>4, <1>5 DEF Holds, buf, piece

\* A buffer that is doubled keeps what it holds.
LEMMA DoubledBuffer ==
    ASSUME NEW t \in Seq(Bytes), NEW n \in Nat, Len(t) = n
    PROVE  /\ t \o Buffer(n) \in Seq(Bytes) /\ Len(t \o Buffer(n)) = n + n
           /\ \A j \in 1 .. n : (t \o Buffer(n))[j] = t[j]
<1>. DEFINE more == Buffer(n)
<1>1. more \in Seq(Bytes) /\ Len(more) = n
  <2>1. Fresh \in Bytes
    BY DEF Bytes
  <2>. QED BY <2>1 DEF Buffer
<1>. HIDE DEF more
<1>2. /\ t \o more \in Seq(Bytes) /\ Len(t \o more) = Len(t) + Len(more)
      /\ \A j \in 1 .. Len(t) + Len(more) :
            (t \o more)[j] = IF j <= Len(t) THEN t[j] ELSE more[j - Len(t)]
  <2>. HIDE DEF Bytes
  <2>. QED BY <1>1, ConcatProperties
<1>3. \A j \in 1 .. n : (t \o more)[j] = t[j]
  <2>1. \A j \in 1 .. n : j \in 1 .. Len(t) + Len(more) /\ j <= Len(t)
    BY <1>1
  <2>. QED BY <2>1, <1>2
<1>. QED BY <1>1, <1>2, <1>3 DEF more

LEMMA ReadSomeKeeps == DataInv /\ ReadSome => DataInv'
<1>. SUFFICES ASSUME DataInv, ReadSome PROVE DataInv'
  OBVIOUS
<1>1. /\ pc = "read" /\ obj \in Objs /\ Cursor \in Nat
      /\ content \in Seq(Bytes) /\ Len(content) \in Nat
      /\ text \in Seq(Bytes) /\ Len(text) \in Nat /\ i \in Nat /\ i < Len(text)
  BY CallTypes DEF ReadSome
<1>. DEFINE buf(n) == Overlay(text, i, SubSeq(content, Cursor + 1, Cursor + n))
<1>2. \E n \in Nat :
         /\ n >= 1 /\ i + n <= Len(text) /\ Cursor + n <= Len(content)
         /\ i' = i + n
         /\ text' = IF want = All /\ i' = Len(text) THEN buf(n) \o Buffer(Len(text)) ELSE buf(n)
         /\ desc' = [desc EXCEPT ![opaq[obj]].at = @ + n]
  <2>1. Len(text) - i \in Int /\ Len(content) - Cursor \in Int
    BY <1>1
  <2>. DEFINE most == Min({Len(text) - i, Len(content) - Cursor})
  <2>2. most = IF Len(text) - i <= Len(content) - Cursor THEN Len(text) - i
               ELSE Len(content) - Cursor
    BY <2>1, MinOfTwo
  <2>3. PICK n \in 1 .. most :
           /\ i' = i + n
           /\ text' = IF want = All /\ i' = Len(text) THEN buf(n) \o Buffer(Len(text)) ELSE buf(n)
           /\ desc' = [desc EXCEPT ![opaq[obj]].at = @ + n]
    BY DEF ReadSome
  <2>. HIDE DEF most
  <2>4. most \in Int /\ most <= Len(text) - i /\ most <= Len(content) - Cursor
    BY <2>1, <2>2
  <2>5. n \in Nat /\ n >= 1 /\ i + n <= Len(text) /\ Cursor + n <= Len(content)
    BY <2>4, <1>1
  <2>. QED BY <2>3, <2>5
<1>3. PICK n \in Nat :
         /\ n >= 1 /\ i + n <= Len(text) /\ Cursor + n <= Len(content)
         /\ i' = i + n
         /\ text' = IF want = All /\ i' = Len(text) THEN buf(n) \o Buffer(Len(text)) ELSE buf(n)
         /\ desc' = [desc EXCEPT ![opaq[obj]].at = @ + n]
  BY <1>2
<1>4. UNCHANGED <<pc, content, opaq, obj, want, before>>
  BY DEF ReadSome
<1>5. HandlesInv' /\ Cursor' = Cursor + n
  BY <1>1, <1>3, <1>4, CursorMoves
<1>6. /\ buf(n) \in Seq(Bytes) /\ Len(buf(n)) = Len(text)
      /\ \A j \in 1 .. n : buf(n)[i + j] = content[Cursor + j]
      /\ \A j \in 1 .. i : buf(n)[j] = text[j]
  <2>1. Holds(buf(n), text, i, content, Cursor, n)
    BY <1>1, <1>3, ReadBuffer
  <2>. QED BY <2>1 DEF Holds
<1>. HIDE DEF buf
<1>7. i' = i + n /\ i' <= Len(text)
  BY <1>3
<1>8. /\ text' \in Seq(Bytes) /\ Len(text') >= Len(text)
      /\ \A j \in 1 .. Len(text) : text'[j] = buf(n)[j]
      /\ want = All => Len(text') > i'
      /\ want # All => Len(text') = Len(text)
  <2>1. CASE want = All /\ i' = Len(text)
    <3>1. text' = buf(n) \o Buffer(Len(text))
      BY <2>1, <1>3
    <3>2. /\ text' \in Seq(Bytes) /\ Len(text') = Len(text) + Len(text)
          /\ \A j \in 1 .. Len(text) : text'[j] = buf(n)[j]
      BY <3>1, <1>1, <1>6, DoubledBuffer
    <3>. QED BY <2>1, <3>2, <1>1
  <2>2. CASE ~(want = All /\ i' = Len(text))
    <3>1. text' = buf(n)
      BY <2>2, <1>3
    <3>. QED BY <2>2, <3>1, <1>1, <1>7, <1>6
  <2>. QED BY <2>1, <2>2
<1>9. /\ before.at \in Nat /\ Cursor = before.at + i
      /\ before.content \in Seq(Bytes) /\ Len(before.content) <= Len(content)
  BY <1>1 DEF DataInv, CallInv
<1>10. opaq[obj] # Null /\ \A j \in 1 .. i : text[j] = content[before.at + j]
  BY <1>1 DEF DataInv, CallInv
<1>11. \A j \in 1 .. i' : text'[j] = content[before.at + j]
  <2>1. ASSUME NEW j \in 1 .. i' PROVE text'[j] = content[before.at + j]
    <3>1. CASE j <= i
      <4>1. j \in 1 .. i /\ j \in 1 .. Len(text)
        BY <3>1, <1>1, <1>7
      <4>. QED BY <4>1, <1>6, <1>8, <1>10
    <3>2. CASE j > i
      <4>1. PICK k \in 1 .. n : j = i + k
        <5>1. j - i \in 1 .. n /\ j = i + (j - i)
          BY <3>2, <1>1, <1>7
        <5>. QED BY <5>1
      <4>2. j \in 1 .. Len(text)
        BY <4>1, <1>1, <1>7
      <4>3. before.at + j = Cursor + k
        BY <4>1, <1>1, <1>9
      <4>4. text'[j] = buf(n)[i + k] /\ buf(n)[i + k] = content[Cursor + k]
        BY <4>1, <4>2, <1>6, <1>8
      <4>. QED BY <4>3, <4>4
    <3>. QED BY <3>1, <3>2, <1>1, <1>7
  <2>. QED BY <2>1
<1>12. i' \in 0 .. Len(text') /\ Cursor' = before.at + i' /\ before.at + i' <= Len(content)
  <2>1. i' \in 0 .. Len(text')
    BY <1>1, <1>7, <1>8
  <2>2. Cursor' = before.at + i'
    BY <1>1, <1>5, <1>7, <1>9
  <2>3. before.at + i' <= Len(content)
    BY <1>1, <1>3, <1>7, <1>9
  <2>. QED BY <2>1, <2>2, <2>3
<1>13. CallInv'
  BY <1>1, <1>8, <1>9, <1>11, <1>12, <1>4, <1>10 DEF CallInv
<1>14. ReadInv'
  <2>1. want # All => Len(text) = want
    BY <1>1 DEF DataInv, ReadInv
  <2>2. IF want = All THEN i' < Len(text') ELSE Len(text') = want
    BY <2>1, <1>1, <1>8, <1>12
  <2>. QED BY <2>2, <1>4 DEF ReadInv
<1>15. WriteInv'
  BY <1>1, <1>4 DEF WriteInv
<1>. QED BY <1>5, <1>13, <1>14, <1>15 DEF DataInv

Copied(t, k, r, c, n) == \A j \in 1 .. n : r[c + j] = t[k + j]
Begins(t, r, m, k) == \A j \in 1 .. k : t[j] = r[m + j]
Around(r, b, len, m, k) == \A j \in 1 .. len \ m + 1 .. m + k : r[j] = b[j]

\* r is s with n more elements of t, which go where the first k went, from m on;
\* b is what s was before them.
LEMMA WrittenOn ==
    ASSUME NEW s, NEW r, NEW t, NEW b, NEW ls \in Nat, NEW lb \in Nat, NEW m \in Nat,
           NEW k \in Nat, NEW n \in Nat, NEW c \in Nat, c = m + k,
           lb <= ls, k > 0 => c <= ls,
           Copied(t, k, r, c, n), Around(r, s, ls, c, n),
           Begins(t, s, m, k), Around(s, b, lb, m, k)
    PROVE  Begins(t, r, m, k + n) /\ Around(r, b, lb, m, k + n)
<1>. USE DEF Copied, Begins, Around
<1>1. ASSUME NEW j \in 1 .. k + n PROVE t[j] = r[m + j]
  <2>1. CASE j <= k
    <3>1. j \in 1 .. k /\ m + j \in 1 .. ls /\ m + j \notin c + 1 .. c + n
      BY <2>1
    <3>. QED BY <3>1
  <2>2. CASE j > k
    <3>1. j - k \in 1 .. n /\ k + (j - k) = j /\ c + (j - k) = m + j
      BY <2>2
    <3>2. r[c + (j - k)] = t[k + (j - k)]
      BY <3>1
    <3>. QED BY <3>1, <3>2
  <2>. QED BY <2>1, <2>2
<1>2. ASSUME NEW j \in 1 .. lb \ m + 1 .. m + (k + n) PROVE r[j] = b[j]
  <2>1. j \in 1 .. ls /\ j \notin c + 1 .. c + n /\ j \in 1 .. lb \ m + 1 .. m + k
    OBVIOUS
  <2>. QED BY <2>1
<1>. QED BY <1>1, <1>2

LEMMA WriteSomeKeeps == DataInv /\ WriteSome => DataInv'
<1>. SUFFICES ASSUME DataInv, WriteSome PROVE DataInv'
  OBVIOUS
<1>1. /\ pc = "write" /\ obj \in Objs /\ Cursor \in Nat
      /\ content \in Seq(Bytes) /\ Len(content) \in Nat
      /\ text \in Seq(Bytes) /\ Len(text) \in Nat /\ i \in Nat /\ i < Len(text)
  BY CallTypes DEF WriteSome
<1>. DEFINE piece(n) == SubSeq(text, i + 1, i + n)
<1>2. \E n \in Nat :
         /\ n >= 1 /\ i + n <= Len(text) /\ i' = i + n
         /\ content' = Overlay(content, Cursor, piece(n))
         /\ desc' = [desc EXCEPT ![opaq[obj]].at = @ + n]
  <2>1. PICK n \in 1 .. Len(text) - i :
           /\ i' = i + n
           /\ content' = Overlay(content, Cursor, piece(n))
           /\ desc' = [desc EXCEPT ![opaq[obj]].at = @ + n]
    BY DEF WriteSome
  <2>2. n \in Nat /\ n >= 1 /\ i + n <= Len(text)
    BY <1>1
  <2>. QED BY <2>1, <2>2
<1>3. PICK n \in Nat :
         /\ n >= 1 /\ i + n <= Len(text) /\ i' = i + n
         /\ content' = Overlay(content, Cursor, piece(n))
         /\ desc' = [desc EXCEPT ![opaq[obj]].at = @ + n]
  BY <1>2
<1>4. UNCHANGED <<pc, opaq, obj, want, text, before>>
  BY DEF WriteSome
<1>5. HandlesInv' /\ Cursor' = Cursor + n
  BY <1>1, <1>3, <1>4, CursorMoves
<1>6. n >= 1 /\ i + n <= Len(text) /\ i' = i + n
  BY <1>3
<1>7. /\ piece(n) \in Seq(Bytes) /\ Len(piece(n)) = n
      /\ \A j \in 1 .. n : piece(n)[j] = text[i + j]
  BY <1>1, <1>6, PartIs
<1>. HIDE DEF piece
<1>8. /\ content' \in Seq(Bytes) /\ Len(content') >= Len(content)
      /\ Len(content') >= Cursor + n
      /\ \A j \in 1 .. n : content'[Cursor + j] = text[i + j]
      /\ \A j \in 1 .. Len(content) : j \notin Cursor + 1 .. Cursor + n =>
            content'[j] = content[j]
  <2>1. Overlaid(content', content, Cursor, piece(n))
    BY <1>1, <1>3, <1>7, OverlayIs
  <2>. QED BY <2>1, <1>7 DEF Overlaid
<1>9. /\ before.at \in Nat /\ Cursor = before.at + i /\ opaq[obj] # Null
      /\ before.content \in Seq(Bytes) /\ Len(before.content) \in Nat
      /\ Len(before.content) <= Len(content)
      /\ i > 0 => Cursor <= Len(content)
  BY <1>1 DEF DataInv, CallInv
<1>10. \A j \in 1 .. i : text[j] = content[before.at + j]
  BY <1>1 DEF DataInv, CallInv
<1>11. /\ want = Len(text)
       /\ \A k \in 1 .. Len(before.content) \ before.at + 1 .. before.at + i :
             content[k] = before.content[k]
  BY <1>1 DEF DataInv, WriteInv
<1>12. /\ \A j \in 1 .. i + n : text[j] = content'[before.at + j]
       /\ \A j \in 1 .. Len(before.content) \ before.at + 1 .. before.at + (i + n) :
             content'[j] = before.content[j]
  <2>1. /\ Copied(text, i, content', Cursor, n)
        /\ Around(content', content, Len(content), Cursor, n)
    BY <1>8 DEF Copied, Around
  <2>2. /\ Begins(text, content, before.at, i)
        /\ Around(content, before.content, Len(before.content), before.at, i)
    BY <1>10, <1>11 DEF Begins, Around
  <2>3. /\ Begins(text, content', before.at, i + n)
        /\ Around(content', before.content, Len(before.content), before.at, i + n)
    BY <1>1, <1>9, <2>1, <2>2, WrittenOn
  <2>. QED BY <2>3 DEF Begins, Around
<1>13. /\ i' \in 0 .. Len(text) /\ Cursor' = before.at + i'
       /\ before.at + i' <= Len(content') /\ Len(before.content) <= Len(content')
  <2>1. Len(content') \in Nat /\ Len(content') >= Len(content) /\ Len(content') >= Cursor + n
    BY <1>8
  <2>2. before.at + i' = Cursor + n
    BY <1>1, <1>6, <1>9
  <2>3. i' \in 0 .. Len(text)
    BY <1>1, <1>6
  <2>. QED BY <2>1, <2>2, <2>3, <1>1, <1>5, <1>9
<1>14. CallInv'
  BY <1>1, <1>4, <1>6, <1>8, <1>9, <1>12, <1>13 DEF CallInv
<1>15. WriteInv'
  BY <1>4, <1>6, <1>11, <1>12 DEF WriteInv
<1>16. ReadInv'
  BY <1>1, <1>4 DEF ReadInv
<1>. QED BY <1>5, <1>14, <1>15, <1>16 DEF DataInv

LEMMA BeginKeeps ==
    ASSUME DataInv, NEW o \in Objs, NEW step \in {"read", "write"}, NEW n,
           NEW data \in Seq(Bytes), Begin(o, step, n, data),
           step = "read" => IF n = All THEN Len(data) > 0 ELSE Len(data) = n,
           step = "write" => Len(data) = n
    PROVE  DataInv'
<1>. USE DEF Begin, handles
<1>1. HandlesInv'
  BY OthersKeep DEF DataInv, HandlesInv, TypeOK
<1>2. /\ content \in Seq(Bytes) /\ opaq[o] \in Fds
      /\ desc[opaq[o]] \in [use : Uses, at : Nat]
  BY DEF DataInv, CallInv, HandlesInv, TypeOK
<1>3. /\ before'.content = content /\ before'.at = desc[opaq[o]].at
      /\ Cursor' = desc[opaq[o]].at
  BY DEF Cursor
<1>4. Len(data) \in Nat
  OBVIOUS
<1>5. CallInv'
  BY <1>2, <1>3, <1>4 DEF DataInv, CallInv
<1>6. ReadInv' /\ WriteInv'
  BY <1>3, <1>4 DEF ReadInv, WriteInv
<1>. QED BY <1>1, <1>5, <1>6 DEF DataInv

LEMMA BeginReadKeeps ==
    ASSUME DataInv, NEW o \in Objs, BeginRead(o)
    PROVE  DataInv'
<1>1. PICK n \in {All} \union 0 .. MaxLen :
         Begin(o, "read", n, Buffer(IF n = All THEN Chunk ELSE n))
  BY DEF BeginRead
<1>. DEFINE size == IF n = All THEN Chunk ELSE n
<1>2. size \in Nat /\ (n = All => size > 0)
  BY <1>1, Numbers
<1>. HIDE DEF size
<1>3. Buffer(size) \in Seq(Bytes) /\ Len(Buffer(size)) = size
  <2>1. Fresh \in Bytes
    BY DEF Bytes
  <2>. QED BY <2>1, <1>2 DEF Buffer
<1>4. IF n = All THEN Len(Buffer(size)) > 0 ELSE Len(Buffer(size)) = n
  BY <1>2, <1>3 DEF size
<1>5. Begin(o, "read", n, Buffer(size))
  BY <1>1 DEF size
<1>. QED BY <1>3, <1>4, <1>5, BeginKeeps

LEMMA BeginWriteKeeps ==
    ASSUME DataInv, NEW o \in Objs, opaq[o] # Null, BeginWrite(o)
    PROVE  DataInv'
<1>1. PICK n \in 0 .. MaxLen - desc[opaq[o]].at :
         Begin(o, "write", n, [k \in 1 .. n |-> k])
  BY DEF BeginWrite
<1>2. desc[opaq[o]].at \in Nat
  BY DEF DataInv, HandlesInv, TypeOK
<1>3. n \in Nat
  BY <1>1, <1>2, Numbers
<1>. DEFINE data == [k \in 1 .. n |-> k]
<1>4. data \in Seq(Bytes) /\ Len(data) = n
  BY <1>3 DEF Bytes
<1>5. Begin(o, "write", n, data)
  BY <1>1
<1>. HIDE DEF data
<1>. QED BY <1>4, <1>5, BeginKeeps

\* A step after which no call is under way.
LEMMA NoCallKeeps ==
    ASSUME HandlesInv', pc' \notin {"read", "write"},
           content' \in {Null} \union Seq(Bytes),
           \A o \in Objs : opaq'[o] # Null => content' \in Seq(Bytes)
    PROVE  DataInv'
BY DEF DataInv, CallInv, ReadInv, WriteInv

LEMMA HandlesStay ==
    ASSUME DataInv, UNCHANGED handles, pc' \in {"begin", "idle", "read", "write"}
    PROVE  HandlesInv'
BY OthersKeep DEF DataInv, HandlesInv, TypeOK, handles

\* Steps that leave the objects and the file alone, and end a call if they move.
LEMMA ReturnKeeps ==
    ASSUME DataInv, UNCHANGED handles, UNCHANGED content, pc' = "idle"
    PROVE  DataInv'
<1>1. HandlesInv'
  BY HandlesStay
<1>2. /\ content' \in {Null} \union Seq(Bytes)
      /\ \A o \in Objs : opaq'[o] # Null => content' \in Seq(Bytes)
  BY DEF DataInv, CallInv, handles
<1>. QED BY <1>1, <1>2, NoCallKeeps

LEMMA OpenKeeps ==
    ASSUME DataInv, NEW o \in Objs, Open(o)
    PROVE  DataInv'
<1>1. content' \in Seq(Bytes)
  BY DEF Open, DataInv, CallInv
<1>. QED BY <1>1, OpenOwned, NoCallKeeps DEF DataInv, Open

\* The objects that have a descriptor afterwards got it from one before.
LEMMA GiveUpKeeps ==
    ASSUME DataInv, HandlesInv', pc = "idle", pc' = pc, UNCHANGED content,
           \A p \in Objs : opaq'[p] # Null => \E q \in Objs : opaq[q] = opaq'[p]
    PROVE  DataInv'
<1>1. \A p \in Objs : opaq'[p] # Null => content' \in Seq(Bytes)
  BY DEF DataInv, CallInv
<1>2. content' \in {Null} \union Seq(Bytes)
  BY DEF DataInv, CallInv
<1>. QED BY <1>1, <1>2, NoCallKeeps

LEMMA CloseKeeps ==
    ASSUME DataInv, NEW o \in Objs, OpenFails(o) \/ Destroy(o)
    PROVE  DataInv'
<1>1. /\ pc = "idle" /\ pc' = pc /\ desc' = Closed(desc, o) /\ content' = content
      /\ opaq' = [opaq EXCEPT ![o] = Null]
  BY DEF OpenFails, Destroy
<1>2. HandlesInv'
  BY <1>1, CloseOwned DEF DataInv
<1>3. \A p \in Objs : opaq'[p] # Null => opaq'[p] = opaq[p]
  BY <1>1 DEF DataInv, HandlesInv, TypeOK
<1>. QED BY <1>1, <1>2, <1>3, GiveUpKeeps

LEMMA MovingKeeps ==
    ASSUME DataInv, NEW o \in Objs, NEW ori \in Objs, Move(o, ori)
    PROVE  DataInv'
<1>1. /\ pc = "idle" /\ pc' = pc /\ content' = content
      /\ opaq' = [opaq EXCEPT ![o] = opaq[ori], ![ori] = Null]
  BY DEF Move
<1>2. HandlesInv'
  BY MoveOwned DEF DataInv
<1>3. \A p \in Objs : opaq'[p] # Null => opaq'[p] = opaq[p] \/ opaq'[p] = opaq[ori]
  BY <1>1 DEF DataInv, HandlesInv, TypeOK
<1>. QED BY <1>1, <1>2, <1>3, GiveUpKeeps

LEMMA CursorAndOthersKeep ==
    ASSUME DataInv, (\E o \in Objs : SetCursor(o)) \/ OpenOther \/ CloseOther
    PROVE  DataInv'
<1>1. pc = "idle" /\ pc' = "idle" /\ opaq' = opaq /\ content' = content
  BY DEF SetCursor, OpenOther, CloseOther
<1>2. CASE \E o \in Objs : SetCursor(o)
  <2>1. PICK o \in Objs : SetCursor(o)
    BY <1>2
  <2>2. opaq[o] \in Fds
    BY <2>1 DEF SetCursor, DataInv, HandlesInv, TypeOK
  <2>3. ASSUME desc' = desc PROVE HandlesInv'
    <3>1. handles' = handles /\ pc' \in {"begin", "idle", "read", "write"}
      BY <2>3, <1>1 DEF handles
    <3>. QED BY <3>1, HandlesStay
  <2>4. ASSUME NEW at \in 0 .. MaxLen, desc' = [desc EXCEPT ![opaq[o]].at = at]
        PROVE  HandlesInv'
    <3>1. /\ desc' \in [Fds -> [use : Uses, at : Nat]]
          /\ \A fd \in Fds : desc'[fd].use = desc[fd].use
      BY <2>2, <2>4, Numbers DEF DataInv, HandlesInv, TypeOK
    <3>2. HandlesInv /\ \A fd \in Fds : IsFile(desc', fd) <=> IsFile(desc, fd)
      BY <3>1 DEF IsFile, DataInv
    <3>. QED BY <3>1, <3>2, <1>1, OthersKeep
  <2>5. HandlesInv'
    BY <2>1, <2>3, <2>4 DEF SetCursor
  <2>. QED BY <2>5, <1>1, GiveUpKeeps
<1>3. CASE OpenOther \/ CloseOther
  <2>1. \E fd \in Fds, use \in {"free", "other"} :
           /\ desc[fd].use \in {"free", "other"}
           /\ desc' = [desc EXCEPT ![fd] = Opened(use)]
    <3>1. CASE OpenOther
      BY <3>1, LeastFreeFd DEF OpenOther
    <3>2. CASE CloseOther
      BY <3>2 DEF CloseOther, Used
    <3>. QED BY <1>3, <3>1, <3>2
  <2>2. PICK fd \in Fds, use \in {"free", "other"} :
           /\ desc[fd].use \in {"free", "other"}
           /\ desc' = [desc EXCEPT ![fd] = Opened(use)]
    BY <2>1
  <2>3. /\ desc' \in [Fds -> [use : Uses, at : Nat]]
        /\ \A g \in Fds : IsFile(desc', g) <=> IsFile(desc, g)
    BY <2>2 DEF IsFile, Opened, Uses, DataInv, HandlesInv, TypeOK
  <2>4. HandlesInv'
    BY <2>3, <1>1, OthersKeep DEF DataInv, HandlesInv, TypeOK
  <2>. QED BY <2>4, <1>1, GiveUpKeeps
<1>. QED BY <1>2, <1>3

LEMMA OtherAppendsKeeps == DataInv /\ OtherAppends => DataInv'
<1>. SUFFICES ASSUME DataInv, OtherAppends PROVE DataInv'
  OBVIOUS
<1>1. content \in Seq(Bytes) /\ Old \in Bytes /\ content' = Append(content, Old)
  BY DEF OtherAppends, DataInv, CallInv, Bytes
<1>2. /\ content' \in Seq(Bytes) /\ Len(content) \in Nat
      /\ Len(content') = Len(content) + 1
      /\ \A j \in 1 .. Len(content) : content'[j] = content[j]
  BY <1>1
<1>3. UNCHANGED <<pc, desc, opaq, obj, want, text, i, before>> /\ Cursor' = Cursor
  BY DEF OtherAppends, handles, call, Cursor
<1>4. HandlesInv'
  BY <1>3, HandlesStay DEF handles, DataInv, HandlesInv, TypeOK
<1>5. CASE pc \in {"read", "write"}
  <2>1. /\ i \in Nat /\ before.at \in Nat /\ before.content \in Seq(Bytes)
        /\ Len(before.content) \in Nat /\ Len(before.content) <= Len(content)
        /\ i > 0 => before.at + i <= Len(content)
        /\ \A j \in 1 .. i : text[j] = content[before.at + j]
    BY <1>5 DEF DataInv, CallInv
  <2>2. \A j \in 1 .. i : before.at + j \in 1 .. Len(content)
    BY <2>1, <1>2
  <2>3. \A j \in 1 .. i : text[j] = content'[before.at + j]
    BY <2>1, <2>2, <1>2
  <2>4. /\ Len(before.content) <= Len(content')
        /\ i > 0 => before.at + i <= Len(content')
    BY <2>1, <1>2
  <2>5. CallInv'
    BY <1>2, <1>3, <1>5, <2>3, <2>4 DEF DataInv, CallInv
  <2>6. ReadInv'
    BY <1>3 DEF DataInv, ReadInv
  <2>7. \A k \in 1 .. Len(before.content) : content'[k] = content[k]
    BY <2>1, <1>2
  <2>8. WriteInv'
    BY <1>3, <2>7 DEF DataInv, WriteInv
  <2>. QED BY <1>4, <2>5, <2>6, <2>8 DEF DataInv
<1>6. CASE pc \notin {"read", "write"}
  BY <1>2, <1>3, <1>4, <1>6, NoCallKeeps
<1>. QED BY <1>5, <1>6

LEMMA ReadToEndKeeps == DataInv /\ ReadToEnd => DataInv'
<1>. SUFFICES ASSUME DataInv, ReadToEnd PROVE DataInv'
  OBVIOUS
<1>1. /\ pc = "read" /\ want = All /\ Cursor >= Len(content) /\ i < Len(text)
      /\ text' = SubSeq(text, 1, i)
      /\ UNCHANGED <<pc, content, desc, opaq, obj, want, i, before>> /\ Cursor' = Cursor
  BY DEF ReadToEnd, AtEnd, handles, Cursor
<1>2. /\ text \in Seq(Bytes) /\ Len(text) \in Nat /\ i \in Nat
      /\ Cursor \in Nat /\ Len(content) \in Nat
  BY <1>1, CallTypes
<1>3. /\ text' \in Seq(Bytes) /\ Len(text') = i
      /\ \A j \in 1 .. i : text'[j] = text[j]
  BY <1>1, <1>2, PrefixIs
<1>4. HandlesInv'
  BY <1>1, HandlesStay DEF handles
<1>5. CallInv'
  BY <1>1, <1>2, <1>3 DEF DataInv, CallInv
<1>6. Len(before.content) \in Nat /\ Len(before.content) <= Len(content)
  BY <1>1 DEF DataInv, CallInv
<1>7. ReadInv'
  BY <1>1, <1>2, <1>6 DEF ReadInv
<1>8. WriteInv'
  BY <1>1 DEF WriteInv
<1>. QED BY <1>4, <1>5, <1>7, <1>8 DEF DataInv

LEMMA InvariantStep == DataInv /\ [Next]_vars => DataInv'
<1>. SUFFICES ASSUME DataInv, [Next]_vars PROVE DataInv'
  OBVIOUS
<1>1. CASE UNCHANGED vars
  BY <1>1 DEF vars, handles, call, DataInv, HandlesInv, TypeOK, FilesOwned, Used,
              CallInv, ReadInv, WriteInv, Cursor
<1>2. CASE Start \/ ClearErr
  BY <1>2, ReturnKeeps DEF Start, ClearErr, handles
<1>3. ASSUME NEW o \in Objs, Open(o) PROVE DataInv'
  BY <1>3, OpenKeeps
<1>4. ASSUME NEW o \in Objs, OpenFails(o) \/ Destroy(o) PROVE DataInv'
  BY <1>4, CloseKeeps
<1>5. ASSUME NEW o \in Objs, NEW ori \in Objs, Move(o, ori) PROVE DataInv'
  BY <1>5, MovingKeeps
<1>6. CASE (\E o \in Objs : SetCursor(o)) \/ OpenOther \/ CloseOther
  BY <1>6, CursorAndOthersKeep
<1>7. ASSUME NEW o \in Objs, opaq[o] # Null /\ (BeginRead(o) \/ BeginWrite(o)) PROVE DataInv'
  BY <1>7, BeginReadKeeps, BeginWriteKeeps
<1>8. CASE OtherAppends
  BY <1>8, OtherAppendsKeeps
<1>9. CASE ReadSome
  BY <1>9, ReadSomeKeeps
<1>10. CASE ReadToEnd
  BY <1>10, ReadToEndKeeps
<1>11. CASE WriteSome
  BY <1>11, WriteSomeKeeps
<1>12. CASE ReadTooShort \/ EndRead \/ EndWrite \/ WriteRefused \/ WriteNothing \/ CallFails
  <2>1. pc' = "idle" /\ UNCHANGED handles /\ UNCHANGED content
    BY <1>12 DEF ReadTooShort, EndRead, EndWrite, WriteRefused, WriteNothing, CallFails, Return
  <2>. QED BY <2>1, ReturnKeeps
<1>. QED
  BY <1>1, <1>2, <1>3, <1>4, <1>5, <1>6, <1>7, <1>8, <1>9, <1>10, <1>11, <1>12
  DEF Next, CallStep

THEOREM InvariantHolds == Spec => []DataInv
BY InvariantInit, InvariantStep, PTL DEF Spec

\* FilesOwned: descriptors of the file and objects match one to one, whatever is
\* opened, moved and destroyed (file.cpp:268-304).
THEOREM OwnershipCorrect == Spec => []FilesOwned
<1>1. DataInv => FilesOwned
  BY DEF DataInv, HandlesInv
<1>. QED BY <1>1, InvariantHolds, PTL

-----------------------------------------------------------------------------
(* What the calls do. *)

\* A call returns only from read or write, and without an error only when its
\* buffer is done.
LEMMA WhoReturns ==
    ASSUME DataInv, [Next]_vars, pc \in {"read", "write"}, pc' = "idle", err' = "none"
    PROVE  /\ pc = "read" => EndRead
           /\ pc = "write" => EndWrite
<1>1. ~Start /\ ~ClearErr /\ ~OpenOther /\ ~CloseOther /\ ~OtherAppends
  BY DEF Start, ClearErr, OpenOther, CloseOther, OtherAppends
<1>2. ASSUME NEW o \in Objs
      PROVE  /\ ~Open(o) /\ ~OpenFails(o) /\ ~Destroy(o) /\ ~SetCursor(o)
             /\ \A ori \in Objs : ~Move(o, ori)
             /\ ~BeginRead(o) /\ ~BeginWrite(o)
  BY DEF Open, OpenFails, Destroy, SetCursor, Move, BeginRead, BeginWrite, Begin
<1>3. /\ ~ReadSome /\ ~ReadToEnd /\ ~ReadTooShort /\ ~WriteSome /\ ~WriteRefused
      /\ ~WriteNothing /\ ~CallFails
  BY DEF ReadSome, ReadToEnd, AtEnd, ReadTooShort, WriteSome, WriteRefused,
         WriteNothing, CallFails, Return
<1>4. UNCHANGED vars => FALSE
  BY DEF vars
<1>. QED BY <1>1, <1>2, <1>3, <1>4 DEF Next, CallStep, EndRead, EndWrite

\* ReadSees: a read that succeeds gives the bytes of the file from its cursor on,
\* in whatever pieces they came (file.cpp:324-368).
THEOREM ReadsCorrect == Spec => ReadSees
<1>1. ASSUME DataInv, [Next]_vars, pc = "read" /\ pc' = "idle" /\ err' = "none"
      PROVE  /\ Len(text) = i /\ Cursor = before.at + i
             /\ text = SubSeq(content, before.at + 1, before.at + i)
             /\ IF want = All THEN Cursor >= Len(before.content) ELSE i = want
  <2>1. i >= Len(text)
    BY <1>1, WhoReturns DEF EndRead
  <2>2. /\ text \in Seq(Bytes) /\ Len(text) \in Nat /\ i \in 0 .. Len(text)
        /\ before.at \in Nat /\ Cursor = before.at + i
        /\ i > 0 => before.at + i <= Len(content)
        /\ \A j \in 1 .. i : text[j] = content[before.at + j]
    BY <1>1 DEF DataInv, CallInv
  <2>3. content \in Seq(Bytes)
    BY <1>1, CallTypes
  <2>4. Len(text) = i /\ i \in Nat
    BY <2>1, <2>2
  <2>5. text = SubSeq(content, before.at + 1, before.at + i)
    <3>1. CASE i = 0
      <4>1. text = <<>>
        BY <3>1, <2>2, <2>4
      <4>2. SubSeq(content, before.at + 1, before.at + i) = <<>>
        <5>1. before.at + 1 \in Int /\ before.at + i \in Int /\ before.at + i < before.at + 1
          BY <3>1, <2>2
        <5>. QED BY <5>1, SubSeqEmpty
      <4>. QED BY <4>1, <4>2
    <3>2. CASE i > 0
      <4>1. before.at + i <= Len(content) /\ before.at \in Nat /\ i <= Len(text)
        BY <3>2, <2>2
      <4>2. SubSeq(content, before.at + 1, before.at + i) = SubSeq(text, 1, i)
        <5>1. \A j \in 1 .. i : content[before.at + j] = text[j]
          BY <2>2
        <5>. QED BY <4>1, <5>1, <2>2, <2>3, <2>4, PartIsPrefix
      <4>3. SubSeq(text, 1, i) = text
        BY <2>2, <2>4, SubSeqFull
      <4>. QED BY <4>2, <4>3
    <3>. QED BY <3>1, <3>2, <2>4
  <2>6. IF want = All THEN Cursor >= Len(before.content) ELSE i = want
    BY <1>1, <2>4 DEF DataInv, ReadInv
  <2>. QED BY <2>2, <2>4, <2>5, <2>6
<1>2. DataInv /\ [Next]_vars =>
         [pc = "read" /\ pc' = "idle" /\ err' = "none" =>
             /\ Len(text) = i /\ Cursor = before.at + i
             /\ text = SubSeq(content, before.at + 1, before.at + i)
             /\ IF want = All THEN Cursor >= Len(before.content) ELSE i = want]_vars
  BY <1>1
<1>. QED BY <1>2, InvariantHolds, PTL DEF Spec, ReadSees

\* WritesLand: what was written is in its place and nothing else has changed, at
\* every step of a write and when it fails (file.cpp:370-404).
THEOREM WritesCorrect == Spec => WritesLand
<1>1. ASSUME DataInv, [Next]_vars, pc = "write"
      PROVE  /\ Cursor = before.at + i
             /\ \A k \in 1 .. Len(before.content) \ before.at + 1 .. before.at + i :
                   content[k] = before.content[k]
             /\ SubSeq(content, before.at + 1, before.at + i) = SubSeq(text, 1, i)
             /\ pc' = "idle" /\ err' = "none" => i = want
  <2>1. /\ text \in Seq(Bytes) /\ Len(text) \in Nat /\ i \in 0 .. Len(text)
        /\ before.at \in Nat /\ Cursor = before.at + i
        /\ i > 0 => before.at + i <= Len(content)
        /\ \A j \in 1 .. i : text[j] = content[before.at + j]
    BY <1>1 DEF DataInv, CallInv
  <2>2. /\ want = Len(text)
        /\ \A k \in 1 .. Len(before.content) \ before.at + 1 .. before.at + i :
              content[k] = before.content[k]
    BY <1>1 DEF DataInv, WriteInv
  <2>3. content \in Seq(Bytes)
    BY <1>1, CallTypes
  <2>4. SubSeq(content, before.at + 1, before.at + i) = SubSeq(text, 1, i)
    <3>1. CASE i = 0
      <4>1. /\ before.at + 1 \in Int /\ before.at + i \in Int /\ before.at + i < before.at + 1
            /\ 1 \in Int /\ i \in Int /\ i < 1
        BY <3>1, <2>1
      <4>2. SubSeq(content, before.at + 1, before.at + i) = <<>>
        BY <4>1, SubSeqEmpty
      <4>3. SubSeq(text, 1, i) = <<>>
        BY <4>1, SubSeqEmpty
      <4>. QED BY <4>2, <4>3
    <3>2. CASE i > 0
      <4>1. i \in Nat /\ i <= Len(text) /\ before.at + i <= Len(content)
        BY <3>2, <2>1
      <4>2. \A j \in 1 .. i : content[before.at + j] = text[j]
        BY <2>1
      <4>. QED BY <4>1, <4>2, <2>1, <2>3, PartIsPrefix
    <3>. QED BY <3>1, <3>2, <2>1
  <2>5. ASSUME pc' = "idle" /\ err' = "none" PROVE i = want
    BY <1>1, <2>1, <2>2, <2>5, WhoReturns DEF EndWrite
  <2>. QED BY <2>1, <2>2, <2>4, <2>5
<1>2. DataInv /\ [Next]_vars =>
         [pc = "write" =>
             /\ Cursor = before.at + i
             /\ \A k \in 1 .. Len(before.content) \ before.at + 1 .. before.at + i :
                   content[k] = before.content[k]
             /\ SubSeq(content, before.at + 1, before.at + i) = SubSeq(text, 1, i)
             /\ pc' = "idle" /\ err' = "none" => i = want]_vars
  BY <1>1
<1>. QED BY <1>2, InvariantHolds, PTL DEF Spec, WritesLand

-----------------------------------------------------------------------------
(* A call comes to its end. *)

\* How many rounds a call may still have when it has k of l bytes: one a byte and
\* the one that ends it.  A read of all, with the cursor at c of n, has room for
\* more as long as there is more, and a round in which it gets nothing.
Rounds(l, k) == (l - k) + 1
RoundsOfAll(l, k, c, n) ==
    (IF c < n THEN (n - c) + (n - c) ELSE 0) + (IF k < l THEN 2 ELSE 1)

InCall == pc \in {"read", "write"}

RoundsLeft ==
    IF ~InCall THEN 0
    ELSE IF want = All THEN RoundsOfAll(Len(text), i, Cursor, Len(content))
    ELSE Rounds(Len(text), i)

\* A round of a read of all takes n bytes, or cuts the buffer to what it holds.
LEMMA RoundsOfAllAre ==
    ASSUME NEW l \in Nat, NEW k \in Nat, NEW c \in Nat, NEW n \in Nat
    PROVE  /\ RoundsOfAll(l, k, c, n) \in Nat /\ RoundsOfAll(l, k, c, n) >= 1
           /\ k < l /\ c >= n => RoundsOfAll(k, k, c, n) < RoundsOfAll(l, k, c, n)
           /\ \A m \in Nat, p \in Nat : p >= 1 /\ c + p <= n /\ k < l =>
                 RoundsOfAll(m, k + p, c + p, n) < RoundsOfAll(l, k, c, n)
<1>1. RoundsOfAll(l, k, c, n) \in Nat /\ RoundsOfAll(l, k, c, n) >= 1
  BY DEF RoundsOfAll
<1>2. k < l /\ c >= n => RoundsOfAll(k, k, c, n) < RoundsOfAll(l, k, c, n)
  BY DEF RoundsOfAll
<1>3. ASSUME NEW m \in Nat, NEW p \in Nat, p >= 1, c + p <= n, k < l
      PROVE  RoundsOfAll(m, k + p, c + p, n) < RoundsOfAll(l, k, c, n)
  <2>1. RoundsOfAll(l, k, c, n) = (n - c) + (n - c) + 2
    BY <1>3 DEF RoundsOfAll
  <2>2. /\ RoundsOfAll(m, k + p, c + p, n) <= (n - (c + p)) + (n - (c + p)) + 2
        /\ RoundsOfAll(m, k + p, c + p, n) \in Nat
    BY <1>3 DEF RoundsOfAll
  <2>. QED BY <1>3, <2>1, <2>2
<1>. QED BY <1>1, <1>2, <1>3

\* Each round of read() and write() brings it nearer to its end, and nobody takes
\* it back but one who appends to a file that is read to its end, who may keep
\* that read going (file.cpp:324-404).
CallAdvances ==
    [][InCall =>
          /\ RoundsLeft \in Nat /\ RoundsLeft >= 1
          /\ CallStep => RoundsLeft' < RoundsLeft
          /\ RoundsLeft' \in 0 .. RoundsLeft \/ (OtherAppends /\ want = All)]_vars

\* What happens while a call is under way.
LEMMA CallGoesOn ==
    ASSUME DataInv, [Next]_vars, pc \in {"read", "write"}
    PROVE  \/ pc' = "idle"
           \/ ReadSome \/ ReadToEnd \/ WriteSome
           \/ (OtherAppends \/ UNCHANGED vars) /\ ~CallStep
<1>1. ~Start /\ ~ClearErr /\ ~OpenOther /\ ~CloseOther
  BY DEF Start, ClearErr, OpenOther, CloseOther
<1>2. ASSUME NEW o \in Objs
      PROVE  /\ ~Open(o) /\ ~OpenFails(o) /\ ~Destroy(o) /\ ~SetCursor(o)
             /\ \A ori \in Objs : ~Move(o, ori)
             /\ ~BeginRead(o) /\ ~BeginWrite(o)
  BY DEF Open, OpenFails, Destroy, SetCursor, Move, BeginRead, BeginWrite, Begin
<1>3. ReadTooShort \/ EndRead \/ EndWrite \/ WriteRefused \/ WriteNothing \/ CallFails
         => pc' = "idle"
  BY DEF ReadTooShort, EndRead, EndWrite, WriteRefused, WriteNothing, CallFails, Return
<1>. QED BY <1>1, <1>2, <1>3 DEF Next, CallStep

\* A piece of a read, of n bytes.
LEMMA PieceIsRead ==
    ASSUME DataInv, ReadSome
    PROVE  \E n \in Nat :
              /\ n >= 1 /\ i + n <= Len(text) /\ Cursor + n <= Len(content)
              /\ i' = i + n /\ Cursor' = Cursor + n
<1>1. /\ pc = "read" /\ Cursor \in Nat /\ Len(content) \in Nat
      /\ Len(text) \in Nat /\ i \in Nat
  BY CallTypes DEF ReadSome
<1>2. Len(text) - i \in Int /\ Len(content) - Cursor \in Int
  BY <1>1
<1>. DEFINE most == Min({Len(text) - i, Len(content) - Cursor})
<1>3. most = IF Len(text) - i <= Len(content) - Cursor THEN Len(text) - i
             ELSE Len(content) - Cursor
  BY <1>2, MinOfTwo
<1>4. PICK n \in 1 .. most :
         i' = i + n /\ desc' = [desc EXCEPT ![opaq[obj]].at = @ + n]
  BY DEF ReadSome
<1>. HIDE DEF most
<1>5. most \in Int /\ most <= Len(text) - i /\ most <= Len(content) - Cursor
  BY <1>2, <1>3
<1>6. n \in Nat /\ n >= 1 /\ i + n <= Len(text) /\ Cursor + n <= Len(content)
  BY <1>5, <1>1
<1>7. Cursor' = Cursor + n
  BY <1>1, <1>4, <1>6, CursorMoves DEF ReadSome
<1>. QED BY <1>4, <1>6, <1>7

\* Each round leaves fewer.
LEMMA RoundsLessen ==
    ASSUME DataInv, ReadSome \/ ReadToEnd \/ WriteSome
    PROVE  RoundsLeft' \in Nat /\ RoundsLeft' < RoundsLeft
<1>1. pc \in {"read", "write"} /\ pc' = pc /\ want' = want
  BY DEF ReadSome, ReadToEnd, AtEnd, WriteSome
<1>2. /\ want = All =>
             /\ RoundsLeft = RoundsOfAll(Len(text), i, Cursor, Len(content))
             /\ RoundsLeft' = RoundsOfAll(Len(text'), i', Cursor', Len(content'))
      /\ want # All =>
             /\ RoundsLeft = Rounds(Len(text), i)
             /\ RoundsLeft' = Rounds(Len(text'), i')
  BY <1>1 DEF RoundsLeft, InCall
<1>3. /\ text \in Seq(Bytes) /\ Len(text) \in Nat /\ i \in Nat /\ Cursor \in Nat
      /\ Len(content) \in Nat
  BY <1>1, CallTypes
<1>4. DataInv'
  BY InvariantStep DEF Next, CallStep
<1>5. CASE ReadSome
  <2>1. PICK n \in Nat :
           /\ n >= 1 /\ i + n <= Len(text) /\ Cursor + n <= Len(content)
           /\ i' = i + n /\ Cursor' = Cursor + n
    BY <1>5, PieceIsRead
  <2>2. content' = content /\ pc = "read" /\ pc' = "read" /\ i < Len(text)
    BY <1>5 DEF ReadSome
  <2>3. Len(text') \in Nat
    BY <1>4, <2>2 DEF DataInv, CallInv
  <2>4. CASE want = All
    <3>1. RoundsOfAll(Len(text'), i + n, Cursor + n, Len(content))
             < RoundsOfAll(Len(text), i, Cursor, Len(content))
      BY <2>1, <2>2, <2>3, <1>3, RoundsOfAllAre
    <3>2. RoundsOfAll(Len(text'), i + n, Cursor + n, Len(content)) \in Nat
      <4>1. i + n \in Nat /\ Cursor + n \in Nat
        BY <2>1, <1>3
      <4>. QED BY <4>1, <2>3, <1>3, RoundsOfAllAre
    <3>. QED BY <3>1, <3>2, <2>1, <2>2, <2>4, <1>2
  <2>5. CASE want # All
    <3>1. Len(text) = want /\ Len(text') = want
      BY <1>1, <1>4, <2>2, <2>5 DEF DataInv, ReadInv
    <3>2. RoundsLeft = Rounds(Len(text), i) /\ RoundsLeft' = Rounds(Len(text), i + n)
      BY <3>1, <2>1, <2>5, <1>2
    <3>. QED BY <3>2, <2>1, <1>3 DEF Rounds
  <2>. QED BY <2>4, <2>5
<1>6. CASE ReadToEnd
  <2>1. /\ want = All /\ Cursor >= Len(content) /\ i < Len(text)
        /\ text' = SubSeq(text, 1, i) /\ i' = i /\ content' = content /\ Cursor' = Cursor
    BY <1>6 DEF ReadToEnd, AtEnd, handles, Cursor
  <2>2. Len(text') = i
    BY <2>1, <1>3, PrefixIs
  <2>3. RoundsOfAll(i, i, Cursor, Len(content))
           < RoundsOfAll(Len(text), i, Cursor, Len(content))
    BY <2>1, <1>3, RoundsOfAllAre
  <2>4. RoundsOfAll(i, i, Cursor, Len(content)) \in Nat
    BY <1>3, RoundsOfAllAre
  <2>. QED BY <2>1, <2>2, <2>3, <2>4, <1>2
<1>7. CASE WriteSome
  <2>1. PICK n \in 1 .. Len(text) - i : i' = i + n
    BY <1>7 DEF WriteSome
  <2>2. text' = text /\ pc = "write"
    BY <1>7 DEF WriteSome
  <2>3. want = Len(text) /\ want # All
    BY <2>2, <1>3, Numbers DEF DataInv, WriteInv
  <2>4. RoundsLeft = Rounds(Len(text), i) /\ RoundsLeft' = Rounds(Len(text), i + n)
    BY <2>1, <2>2, <2>3, <1>2
  <2>. QED BY <2>1, <2>4, <1>3 DEF Rounds
<1>. QED BY <1>5, <1>6, <1>7

\* A call under way has at least the round that ends it.
LEMMA RoundsAreNatural ==
    ASSUME DataInv, pc \in {"read", "write"}
    PROVE  RoundsLeft \in Nat /\ RoundsLeft >= 1
<1>1. /\ Len(text) \in Nat /\ i \in Nat /\ Cursor \in Nat /\ Len(content) \in Nat
      /\ i <= Len(text)
  BY CallTypes DEF DataInv, CallInv
<1>2. CASE want = All
  <2>1. RoundsLeft = RoundsOfAll(Len(text), i, Cursor, Len(content))
    BY <1>2 DEF RoundsLeft, InCall
  <2>. QED BY <2>1, <1>1, RoundsOfAllAre
<1>3. CASE want # All
  <2>1. RoundsLeft = Rounds(Len(text), i)
    BY <1>3 DEF RoundsLeft, InCall
  <2>. QED BY <2>1, <1>1 DEF Rounds
<1>. QED BY <1>2, <1>3

\* read() and write() have a natural number of rounds left, which each of theirs
\* lessens: what of CallReturns does not rest on fairness.  Only a read of all
\* that is left may be given more, by a process that appends meanwhile
\* (file.cpp:324-404).
THEOREM CallAdvancesAlways == Spec => CallAdvances
<1>1. ASSUME DataInv, [Next]_vars, InCall
      PROVE  /\ RoundsLeft \in Nat /\ RoundsLeft >= 1
             /\ CallStep => RoundsLeft' < RoundsLeft
             /\ RoundsLeft' \in 0 .. RoundsLeft \/ (OtherAppends /\ want = All)
  <2>1. RoundsLeft \in Nat /\ RoundsLeft >= 1
    BY <1>1, RoundsAreNatural DEF InCall
  <2>2. CASE pc' = "idle"
    <3>1. RoundsLeft' = 0
      BY <2>2 DEF RoundsLeft, InCall
    <3>. QED BY <2>1, <3>1
  <2>3. CASE ReadSome \/ ReadToEnd \/ WriteSome
    <3>1. RoundsLeft' \in Nat /\ RoundsLeft' < RoundsLeft
      BY <1>1, <2>3, RoundsLessen
    <3>. QED BY <2>1, <3>1
  <2>4. CASE OtherAppends /\ ~CallStep
    <3>1. pc' = pc /\ want' = want /\ text' = text /\ i' = i
      BY <2>4 DEF OtherAppends, call
    <3>2. CASE want # All
      <4>1. RoundsLeft' = RoundsLeft
        BY <1>1, <3>1, <3>2 DEF RoundsLeft, InCall, Rounds
      <4>. QED BY <2>1, <2>4, <4>1
    <3>. QED BY <2>1, <2>4, <3>2
  <2>5. CASE UNCHANGED vars /\ ~CallStep
    <3>1. RoundsLeft' = RoundsLeft
      BY <2>5 DEF vars, handles, call, RoundsLeft, InCall, Cursor
    <3>. QED BY <2>1, <2>5, <3>1
  <2>. QED BY <1>1, <2>2, <2>3, <2>4, <2>5, CallGoesOn DEF InCall
<1>2. DataInv /\ [Next]_vars =>
         [InCall =>
             /\ RoundsLeft \in Nat /\ RoundsLeft >= 1
             /\ CallStep => RoundsLeft' < RoundsLeft
             /\ RoundsLeft' \in 0 .. RoundsLeft \/ (OtherAppends /\ want = All)]_vars
  BY <1>1
<1>. QED BY <1>2, InvariantHolds, PTL DEF Spec, CallAdvances

-----------------------------------------------------------------------------
(* Paths: what join, get_dir and set_ext do, for names of any length. *)

Texts == Seq(Chars)

LEMMA GreatestIs ==
    ASSUME NEW n \in Nat, NEW S \in SUBSET (0 .. n), S # {}
    PROVE  Max(S) \in S /\ \A j \in S : j <= Max(S)
<1>. DEFINE away == {n - j : j \in S}
<1>0. \A j \in S : j \in Nat /\ n - j \in Nat
  <2>1. \A j \in S : j \in 0 .. n
    OBVIOUS
  <2>. QED BY <2>1
<1>1. away \in SUBSET Nat /\ away # {}
  BY <1>0
<1>. DEFINE R == OpToRel(<, Nat)
<1>2. \E x \in away : \A y \in away : ~ (<<y, x>> \in R)
  BY <1>1, NatLessThanWellFounded, WFMin
<1>3. \A a, b \in Nat : a < b => <<a, b>> \in R
  BY DEF OpToRel
<1>. HIDE DEF R
<1>4. PICK x \in away : \A y \in away : ~ (<<y, x>> \in R)
  BY <1>2
<1>5. PICK m \in S : x = n - m
  OBVIOUS
<1>6. ASSUME NEW j \in S PROVE j <= m
  <2>1. n - j \in away /\ n - j \in Nat /\ x \in Nat
    BY <1>1
  <2>2. ~(n - j < x)
    BY <2>1, <1>3, <1>4
  <2>. QED BY <2>2, <1>5
<1>7. \E p \in S : \A j \in S : p >= j
  BY <1>6
<1>8. Max(S) \in S /\ \A j \in S : Max(S) >= j
  BY <1>7 DEF Max
<1>9. \A j \in S : j \in Nat /\ Max(S) \in Nat
  BY <1>0, <1>8
<1>. QED BY <1>8, <1>9

\* A name's dot is its last one, or there is none.
LEMMA DotIs ==
    ASSUME NEW t \in Texts
    PROVE  /\ Dot(t) \in 0 .. Len(t)
           /\ Dot(t) # 0 => t[Dot(t)] = "."
           /\ \A j \in 1 .. Len(t) : t[j] = "." => j <= Dot(t)
<1>. DEFINE S == {0} \union {j \in DOMAIN t : t[j] = "."}
<1>1. Len(t) \in Nat /\ DOMAIN t = 1 .. Len(t)
  BY DEF Texts
<1>2. S \in SUBSET (0 .. Len(t)) /\ S # {}
  BY <1>1
<1>3. Max(S) \in S /\ \A j \in S : j <= Max(S)
  <2>. HIDE DEF S
  <2>. QED BY <1>1, <1>2, GreatestIs
<1>4. Dot(t) = Max(S)
  BY DEF Dot
<1>. QED BY <1>1, <1>3, <1>4

\* What is behind the last dot is the extension.
LEMMA ExtBehindDot ==
    ASSUME NEW b \in Texts, NEW ext \in Texts, b # <<>>, b[Len(b)] = ".", ~Has(ext, ".")
    PROVE  Dot(b \o ext) = Len(b) /\ SubSeq(b \o ext, Len(b) + 1, Len(b \o ext)) = ext
<1>. DEFINE t == b \o ext
<1>1. /\ t \in Texts /\ Len(t) = Len(b) + Len(ext)
      /\ \A j \in 1 .. Len(b) + Len(ext) :
            t[j] = IF j <= Len(b) THEN b[j] ELSE ext[j - Len(b)]
  BY ConcatProperties DEF Texts
<1>2. Len(b) \in Nat /\ Len(ext) \in Nat /\ Len(b) >= 1 /\ DOMAIN ext = 1 .. Len(ext)
  BY DEF Texts
<1>. HIDE DEF t
<1>3. \A j \in 1 .. Len(ext) : t[Len(b) + j] = ext[j]
  <2>1. ASSUME NEW j \in 1 .. Len(ext) PROVE t[Len(b) + j] = ext[j]
    <3>1. /\ Len(b) + j \in 1 .. Len(b) + Len(ext) /\ ~(Len(b) + j <= Len(b))
          /\ Len(b) + j - Len(b) = j
      BY <1>2
    <3>. QED BY <3>1, <1>1
  <2>. QED BY <2>1
<1>4. Dot(t) = Len(b)
  <2>1. t[Len(b)] = "." /\ Len(b) \in 1 .. Len(t)
    BY <1>1, <1>2
  <2>2. Len(b) <= Dot(t) /\ Dot(t) \in 0 .. Len(t) /\ t[Dot(t)] = "."
    <3>1. t \in Texts
      BY <1>1
    <3>2. /\ Dot(t) \in 0 .. Len(t)
          /\ Dot(t) # 0 => t[Dot(t)] = "."
          /\ \A j \in 1 .. Len(t) : t[j] = "." => j <= Dot(t)
      BY <3>1, DotIs
    <3>3. Len(b) <= Dot(t)
      BY <2>1, <3>2
    <3>. QED BY <3>2, <3>3, <1>1, <1>2
  <2>3. ASSUME Dot(t) > Len(b) PROVE FALSE
    <3>1. Dot(t) - Len(b) \in 1 .. Len(ext) /\ Len(b) + (Dot(t) - Len(b)) = Dot(t)
      BY <2>2, <2>3, <1>1, <1>2
    <3>2. ext[Dot(t) - Len(b)] = "."
      BY <3>1, <2>2, <1>3
    <3>. QED BY <3>1, <3>2, <1>2 DEF Has
  <2>. QED BY <2>2, <2>3, <1>1, <1>2
<1>5. SubSeq(t, Len(b) + 1, Len(t)) = ext
  <2>1. \A j \in Len(b) + 1 .. Len(t) : t[j] \in Chars
    <3>1. \A j \in 1 .. Len(t) : t[j] \in Chars
      BY <1>1, ElementOfSeq DEF Texts
    <3>. QED BY <3>1, <1>1, <1>2
  <2>2. Len(b) + 1 \in Int /\ Len(t) \in Int
    BY <1>1, <1>2
  <2>. DEFINE r == SubSeq(t, Len(b) + 1, Len(t))
  <2>3. /\ r \in Seq(Chars)
        /\ Len(r) = IF Len(b) + 1 <= Len(t) THEN Len(t) - (Len(b) + 1) + 1 ELSE 0
        /\ \A j \in 1 .. Len(t) - (Len(b) + 1) + 1 : r[j] = t[Len(b) + 1 + j - 1]
    BY <2>1, <2>2, SubSeqProperties
  <2>. HIDE DEF r
  <2>4. Len(r) = Len(ext)
    BY <2>3, <1>1, <1>2
  <2>5. \A j \in 1 .. Len(ext) : r[j] = ext[j]
    <3>1. ASSUME NEW j \in 1 .. Len(ext) PROVE r[j] = ext[j]
      <4>1. j \in 1 .. Len(t) - (Len(b) + 1) + 1 /\ Len(b) + 1 + j - 1 = Len(b) + j
        BY <1>1, <1>2
      <4>. QED BY <4>1, <2>3, <1>3
    <3>. QED BY <3>1
  <2>6. r = ext
    BY <2>3, <2>4, <2>5, SeqEqual DEF Texts
  <2>. QED BY <2>6 DEF r
<1>. QED BY <1>4, <1>5 DEF t

\* A path is the path of its directory with its last name.
LEMMA DirIs ==
    ASSUME NEW path \in Seq(Texts), path # <<>>
    PROVE  /\ GetDir(path) = Front(path) /\ Front(path) \in Seq(Texts)
           /\ Last(path) \in Texts
<1>1. Len(path) \in Nat /\ Len(path) >= 1 /\ Front(path) = SubSeq(path, 1, Len(path) - 1)
  BY DEF Front
<1>2. Last(path) \in Texts
  <2>1. Len(path) \in 1 .. Len(path)
    BY <1>1
  <2>. QED BY <2>1, ElementOfSeq DEF Last
<1>3. Front(path) \in Seq(Texts) /\ Len(Front(path)) = Len(path) - 1
  <2>1. \A j \in 1 .. Len(path) - 1 : path[j] \in Texts
    <3>1. \A j \in 1 .. Len(path) - 1 : j \in 1 .. Len(path)
      BY <1>1
    <3>. QED BY <3>1, ElementOfSeq
  <2>2. 1 \in Int /\ Len(path) - 1 \in Int
    BY <1>1
  <2>3. /\ SubSeq(path, 1, Len(path) - 1) \in Seq(Texts)
        /\ Len(SubSeq(path, 1, Len(path) - 1))
              = IF 1 <= Len(path) - 1 THEN Len(path) - 1 - 1 + 1 ELSE 0
    BY <2>1, <2>2, SubSeqProperties
  <2>. DEFINE f == SubSeq(path, 1, Len(path) - 1)
              l == Len(path)
  <2>4. /\ Len(f) = IF 1 <= l - 1 THEN l - 1 - 1 + 1 ELSE 0
        /\ f \in Seq(Texts) /\ Front(path) = f /\ l \in Nat /\ l >= 1
    BY <2>3, <1>1
  <2>. HIDE DEF f, l
  <2>5. Len(f) = l - 1
    BY <2>4
  <2>. QED BY <2>4, <2>5 DEF l
<1>4. Len(path) <= 1 => Front(path) = <<>>
  BY <1>1, <1>3
<1>. QED BY <1>2, <1>3, <1>4 DEF GetDir

LEMMA JoinedIs ==
    ASSUME NEW path \in Seq(Texts), NEW name \in Texts
    PROVE  /\ Append(path, name) \in Seq(Texts) /\ Append(path, name) # <<>>
           /\ Last(Append(path, name)) = name /\ GetDir(Append(path, name)) = path
<1>. DEFINE new == Append(path, name)
<1>1. /\ new \in Seq(Texts) /\ Len(new) = Len(path) + 1 /\ Len(path) \in Nat
      /\ \A j \in 1 .. Len(path) : new[j] = path[j]
      /\ new[Len(path) + 1] = name
  BY AppendProperties
<1>. HIDE DEF new
<1>2. new # <<>> /\ Last(new) = name
  BY <1>1 DEF Last
<1>3. Front(new) = path
  <2>1. \A j \in 1 .. Len(path) : new[j] \in Texts
    BY <1>1, ElementOfSeq
  <2>2. Len(new) - 1 = Len(path) /\ 1 \in Int /\ Len(path) \in Int
    BY <1>1
  <2>. DEFINE r == SubSeq(new, 1, Len(path))
  <2>3. /\ r \in Seq(Texts)
        /\ Len(r) = IF 1 <= Len(path) THEN Len(path) - 1 + 1 ELSE 0
        /\ \A j \in 1 .. Len(path) - 1 + 1 : r[j] = new[1 + j - 1]
    BY <2>1, <2>2, SubSeqProperties
  <2>. HIDE DEF r
  <2>4. Len(r) = Len(path) /\ \A j \in 1 .. Len(path) : r[j] = path[j]
    BY <2>3, <1>1
  <2>5. r = path
    BY <2>3, <2>4, SeqEqual
  <2>. QED BY <2>2, <2>5 DEF r, Front
<1>4. GetDir(new) = path
  BY <1>1, <1>2, <1>3, DirIs
<1>. QED BY <1>1, <1>2, <1>4 DEF new

\* set_ext() of a name is one of five.
LEMMA SetExtIs ==
    ASSUME NEW path \in Seq(Texts), path # <<>>, NEW ext \in Texts
    PROVE  LET leaf == Last(path)
               dot == Dot(leaf)
           IN  \/ ext = <<>> /\ dot = 0 /\ SetExt(path, ext) = path
               \/ ext = <<>> /\ dot = 1 /\ SetExt(path, ext) = GetDir(path)
               \/ /\ ext = <<>> /\ dot > 1
                  /\ SetExt(path, ext) = Append(Front(path), SubSeq(leaf, 1, dot - 1))
               \/ /\ ext # <<>> /\ dot = 0
                  /\ SetExt(path, ext) = Append(Front(path), leaf \o <<".">> \o ext)
               \/ /\ ext # <<>> /\ dot >= 1
                  /\ SetExt(path, ext) = Append(Front(path), SubSeq(leaf, 1, dot) \o ext)
<1>1. Dot(Last(path)) \in Nat
  <2>1. Last(path) \in Texts /\ Len(Last(path)) \in Nat
    BY DirIs DEF Texts
  <2>. QED BY <2>1, DotIs
<1>2. CASE ext = <<>> /\ Dot(Last(path)) = 0
  BY <1>2 DEF SetExt
<1>3. CASE ext = <<>> /\ Dot(Last(path)) = 1
  BY <1>3 DEF SetExt
<1>4. CASE ext = <<>> /\ Dot(Last(path)) > 1
  BY <1>4 DEF SetExt
<1>5. CASE ext # <<>> /\ Dot(Last(path)) = 0
  BY <1>5 DEF SetExt
<1>6. CASE ext # <<>> /\ Dot(Last(path)) >= 1
  BY <1>6 DEF SetExt
<1>. QED BY <1>1, <1>2, <1>3, <1>4, <1>5, <1>6

\* The part of a name before a place, and the part with it.
LEMMA HeadIs ==
    ASSUME NEW t \in Texts, NEW n \in 1 .. Len(t)
    PROVE  /\ SubSeq(t, 1, n) \in Texts /\ SubSeq(t, 1, n) # <<>>
           /\ Len(SubSeq(t, 1, n)) = n /\ SubSeq(t, 1, n)[n] = t[n]
<1>1. \A j \in 1 .. n : t[j] \in Chars
  <2>1. \A j \in 1 .. n : j \in 1 .. Len(t)
    OBVIOUS
  <2>. QED BY <2>1, ElementOfSeq DEF Texts
<1>2. n \in Nat /\ n >= 1 /\ 1 \in Int /\ n \in Int
  BY DEF Texts
<1>. DEFINE r == SubSeq(t, 1, n)
<1>3. /\ r \in Seq(Chars) /\ Len(r) = IF 1 <= n THEN n - 1 + 1 ELSE 0
      /\ \A j \in 1 .. n - 1 + 1 : r[j] = t[1 + j - 1]
  BY <1>1, <1>2, SubSeqProperties
<1>. HIDE DEF r
<1>4. Len(r) = n /\ r[n] = t[n]
  BY <1>2, <1>3
<1>. QED BY <1>2, <1>3, <1>4 DEF r, Texts

LEMMA DottedIs ==
    ASSUME NEW t \in Texts
    PROVE  /\ t \o <<".">> \in Texts /\ t \o <<".">> # <<>>
           /\ (t \o <<".">>)[Len(t \o <<".">>)] = "."
<1>. DEFINE d == <<".">>
            r == t \o d
<1>1. d \in Seq(Chars) /\ Len(d) = 1 /\ d[1] = "." /\ Len(t) \in Nat
  BY DEF Chars, Texts
<1>. HIDE DEF d
<1>2. /\ r \in Seq(Chars) /\ Len(r) = Len(t) + Len(d)
      /\ \A j \in 1 .. Len(t) + Len(d) : r[j] = IF j <= Len(t) THEN t[j] ELSE d[j - Len(t)]
  BY <1>1, ConcatProperties DEF Texts
<1>. HIDE DEF r
<1>3. /\ Len(t) + 1 \in 1 .. Len(t) + Len(d) /\ ~(Len(t) + 1 <= Len(t))
      /\ Len(t) + 1 - Len(t) = 1
  BY <1>1
<1>4. r[Len(t) + 1] = "." /\ Len(r) = Len(t) + 1
  BY <1>1, <1>2, <1>3
<1>5. r # <<>>
  BY <1>1, <1>4
<1>. QED BY <1>2, <1>4, <1>5 DEF r, d, Texts

\* A name made of one that ends in the dot and an extension has that extension.
LEMMA NamedAnew ==
    ASSUME NEW path \in Seq(Texts), NEW b \in Texts, b # <<>>, b[Len(b)] = ".",
           NEW ext \in Texts, ~Has(ext, ".")
    PROVE  /\ GetExt(Append(path, b \o ext)) = ext
           /\ GetDir(Append(path, b \o ext)) = path
<1>. DEFINE t == b \o ext
            new == Append(path, t)
<1>1. t \in Texts
  BY ConcatProperties DEF Texts
<1>2. Dot(t) = Len(b) /\ SubSeq(t, Len(b) + 1, Len(t)) = ext
  BY ExtBehindDot
<1>3. Len(b) # 0
  BY DEF Texts
<1>. HIDE DEF t
<1>4. new # <<>> /\ Last(new) = t /\ GetDir(new) = path
  BY <1>1, JoinedIs
<1>. HIDE DEF new
<1>5. GetExt(new) = ext
  BY <1>2, <1>3, <1>4 DEF GetExt
<1>. QED BY <1>4, <1>5 DEF new, t

\* There is a dot where Has finds one.
LEMMA DotMeansHas ==
    ASSUME NEW t \in Texts
    PROVE  Has(t, ".") <=> Dot(t) # 0
<1>1. DOMAIN t = 1 .. Len(t) /\ Len(t) \in Nat
  BY DEF Texts
<1>. QED BY <1>1, DotIs DEF Has

\* A name is what is before a dot, the dot and what is behind it.
LEMMA CutAtDot ==
    ASSUME NEW t \in Texts, NEW n \in 1 .. Len(t), t[n] = "."
    PROVE  LET last == <<".">> \o SubSeq(t, n + 1, Len(t))
           IN  /\ last = t <=> n = 1
               /\ n > 1 => SubSeq(t, 1, n - 1) \o last = t
<1>. DEFINE d == <<".">>
            r == SubSeq(t, n + 1, Len(t))
            last == d \o r
<1>1. Len(t) \in Nat /\ n \in Nat /\ n >= 1 /\ n <= Len(t) /\ t \in Seq(Chars)
  BY DEF Texts
<1>2. d \in Seq(Chars) /\ Len(d) = 1 /\ d[1] = "."
  BY DEF Chars
<1>3. /\ r \in Seq(Chars) /\ Len(r) = Len(t) - n
      /\ \A j \in 1 .. Len(t) - n : r[j] = t[n + j]
  <2>1. \A j \in n + 1 .. Len(t) : t[j] \in Chars
    <3>1. \A j \in n + 1 .. Len(t) : j \in 1 .. Len(t)
      BY <1>1
    <3>. QED BY <3>1, <1>1, ElementOfSeq
  <2>2. n + 1 \in Int /\ Len(t) \in Int
    BY <1>1
  <2>3. /\ r \in Seq(Chars)
        /\ Len(r) = IF n + 1 <= Len(t) THEN Len(t) - (n + 1) + 1 ELSE 0
        /\ \A j \in 1 .. Len(t) - (n + 1) + 1 : r[j] = t[n + 1 + j - 1]
    BY <2>1, <2>2, SubSeqProperties
  <2>. HIDE DEF r
  <2>. QED BY <2>3, <1>1
<1>. HIDE DEF d, r
<1>4. /\ last \in Seq(Chars) /\ Len(last) = Len(d) + Len(r)
      /\ \A j \in 1 .. Len(d) + Len(r) :
            last[j] = IF j <= Len(d) THEN d[j] ELSE r[j - Len(d)]
  BY <1>2, <1>3, ConcatProperties
<1>. HIDE DEF last
<1>5. Len(last) = Len(t) - n + 1
  BY <1>1, <1>2, <1>3, <1>4
<1>6. \A j \in 1 .. Len(last) : last[j] = t[n - 1 + j]
  <2>1. ASSUME NEW j \in 1 .. Len(last) PROVE last[j] = t[n - 1 + j]
    <3>1. CASE j = 1
      BY <3>1, <1>1, <1>2, <1>3, <1>4
    <3>2. CASE j # 1
      <4>1. j - 1 \in 1 .. Len(t) - n /\ n + (j - 1) = n - 1 + j
        BY <3>2, <1>1, <1>5
      <4>2. last[j] = r[j - 1]
        BY <3>2, <1>1, <1>2, <1>3, <1>4, <1>5
      <4>. QED BY <4>1, <4>2, <1>3
    <3>. QED BY <3>1, <3>2
  <2>. QED BY <2>1
<1>7. last = t <=> n = 1
  <2>1. ASSUME n = 1 PROVE last = t
    <3>1. Len(last) = Len(t)
      BY <1>1, <1>5, <2>1
    <3>2. \A j \in 1 .. Len(last) : last[j] = t[j]
      BY <1>1, <1>5, <1>6, <2>1
    <3>. QED BY <3>1, <3>2, <1>1, <1>4, SeqEqual
  <2>2. ASSUME last = t PROVE n = 1
    BY <2>2, <1>1, <1>5
  <2>. QED BY <2>1, <2>2
<1>8. ASSUME n > 1 PROVE SubSeq(t, 1, n - 1) \o last = t
  <2>. DEFINE h == SubSeq(t, 1, n - 1)
              w == h \o last
  <2>1. h \in Seq(Chars) /\ Len(h) = n - 1 /\ \A j \in 1 .. n - 1 : h[j] = t[j]
    <3>1. \A j \in 1 .. n - 1 : t[j] \in Chars
      <4>1. \A j \in 1 .. n - 1 : j \in 1 .. Len(t)
        BY <1>1
      <4>. QED BY <4>1, <1>1, ElementOfSeq
    <3>2. 1 \in Int /\ n - 1 \in Int /\ n - 1 >= 1
      BY <1>1, <1>8
    <3>3. /\ h \in Seq(Chars) /\ Len(h) = IF 1 <= n - 1 THEN n - 1 - 1 + 1 ELSE 0
          /\ \A j \in 1 .. n - 1 - 1 + 1 : h[j] = t[1 + j - 1]
      BY <3>1, <3>2, SubSeqProperties
    <3>. HIDE DEF h
    <3>. QED BY <3>2, <3>3, <1>1
  <2>. HIDE DEF h
  <2>2. /\ w \in Seq(Chars) /\ Len(w) = Len(h) + Len(last)
        /\ \A j \in 1 .. Len(h) + Len(last) :
              w[j] = IF j <= Len(h) THEN h[j] ELSE last[j - Len(h)]
    <3>1. h \in Seq(Chars) /\ last \in Seq(Chars)
      BY <2>1, <1>4
    <3>. QED BY <3>1, ConcatProperties
  <2>. HIDE DEF w
  <2>3. Len(w) = Len(t)
    BY <2>1, <2>2, <1>1, <1>5
  <2>4. \A j \in 1 .. Len(w) : w[j] = t[j]
    <3>1. ASSUME NEW j \in 1 .. Len(w) PROVE w[j] = t[j]
      <4>1. CASE j <= n - 1
        BY <4>1, <2>1, <2>2, <2>3, <1>1, <1>5
      <4>2. CASE j > n - 1
        <5>1. j - (n - 1) \in 1 .. Len(last) /\ n - 1 + (j - (n - 1)) = j
          BY <4>2, <2>3, <1>1, <1>5
        <5>2. w[j] = last[j - (n - 1)]
          BY <4>2, <2>1, <2>2, <2>3, <1>1, <1>5
        <5>. QED BY <5>1, <5>2, <1>6
      <4>. QED BY <4>1, <4>2, <1>1
    <3>. QED BY <3>1
  <2>5. w = t
    BY <2>2, <2>3, <2>4, <1>1, SeqEqual
  <2>. QED BY <2>5 DEF w, h
<1>. QED BY <1>7, <1>8 DEF last, d, r

\* The begin of a begin of a name, and a name with a dot less the dot.
LEMMA HeadOfHead ==
    ASSUME NEW t \in Texts, NEW n \in 1 .. Len(t), n > 1
    PROVE  SubSeq(SubSeq(t, 1, n), 1, n - 1) = SubSeq(t, 1, n - 1)
<1>. DEFINE h == SubSeq(t, 1, n)
<1>1. n \in Nat /\ Len(t) \in Nat /\ t \in Seq(Chars)
  BY DEF Texts
<1>2. \A j \in 1 .. n : h[j] = t[j]
  <2>1. \A j \in 1 .. n : t[j] \in Chars
    <3>1. \A j \in 1 .. n : j \in 1 .. Len(t)
      BY <1>1
    <3>. QED BY <3>1, <1>1, ElementOfSeq
  <2>2. 1 \in Int /\ n \in Int
    BY <1>1
  <2>3. \A j \in 1 .. n - 1 + 1 : h[j] = t[1 + j - 1]
    BY <2>1, <2>2, SubSeqProperties
  <2>. HIDE DEF h
  <2>. QED BY <2>3, <1>1
<1>. HIDE DEF h
<1>3. \A j \in 1 .. n - 1 : h[j] = t[j]
  BY <1>1, <1>2
<1>4. SubSeq(h, 1, n - 1) = SubSeq(t, 1, n - 1)
  BY <1>1, <1>3
<1>. QED BY <1>4 DEF h

LEMMA BeforeLast ==
    ASSUME NEW t \in Texts
    PROVE  LET b == t \o <<".">>
           IN  Len(b) = Len(t) + 1 /\ SubSeq(b, 1, Len(b) - 1) = t
<1>. DEFINE d == <<".">>
            b == t \o d
            r == SubSeq(b, 1, Len(b) - 1)
<1>1. d \in Seq(Chars) /\ Len(d) = 1 /\ t \in Seq(Chars) /\ Len(t) \in Nat
  BY DEF Chars, Texts
<1>. HIDE DEF d
<1>2. /\ b \in Seq(Chars) /\ Len(b) = Len(t) + Len(d)
      /\ \A j \in 1 .. Len(t) + Len(d) : b[j] = IF j <= Len(t) THEN t[j] ELSE d[j - Len(t)]
  BY <1>1, ConcatProperties
<1>. HIDE DEF b
<1>3. Len(b) = Len(t) + 1 /\ \A j \in 1 .. Len(t) : b[j] = t[j] /\ b[j] \in Chars
  <2>1. \A j \in 1 .. Len(t) : b[j] = t[j]
    BY <1>1, <1>2
  <2>. QED BY <2>1, <1>1, <1>2, ElementOfSeq
<1>4. r = t
  <2>1. Len(b) - 1 = Len(t) /\ 1 \in Int /\ Len(t) \in Int
    BY <1>1, <1>3
  <2>. DEFINE q == SubSeq(b, 1, Len(t))
  <2>2. /\ q \in Seq(Chars)
        /\ Len(q) = IF 1 <= Len(t) THEN Len(t) - 1 + 1 ELSE 0
        /\ \A j \in 1 .. Len(t) - 1 + 1 : q[j] = b[1 + j - 1]
    BY <2>1, <1>3, SubSeqProperties
  <2>. HIDE DEF q
  <2>3. Len(q) = Len(t) /\ \A j \in 1 .. Len(q) : q[j] = t[j]
    BY <2>2, <1>1, <1>3
  <2>4. q = t
    BY <2>2, <2>3, <1>1, SeqEqual
  <2>. QED BY <2>1, <2>4 DEF q
<1>. HIDE DEF r
<1>. QED BY <1>3, <1>4 DEF r, b, d

\* What is left of a name when the extension behind the dot that ends b is removed.
LEMMA RemovedAgain ==
    ASSUME NEW path \in Seq(Texts), NEW b \in Texts, b # <<>>, b[Len(b)] = ".",
           NEW ext \in Texts, ~Has(ext, ".")
    PROVE  SetExt(Append(path, b \o ext), <<>>)
              = IF Len(b) > 1 THEN Append(path, SubSeq(b, 1, Len(b) - 1)) ELSE path
<1>. DEFINE t == b \o ext
            new == Append(path, t)
            none == <<>>
<1>1. t \in Texts /\ none \in Texts
  BY ConcatProperties DEF Texts
<1>2. Dot(t) = Len(b) /\ Len(b) \in Nat /\ Len(b) >= 1
  BY ExtBehindDot DEF Texts
<1>3. SubSeq(t, 1, Len(b) - 1) = SubSeq(b, 1, Len(b) - 1)
  <2>1. \A j \in 1 .. Len(b) - 1 : t[j] = b[j]
    <3>1. \A j \in 1 .. Len(b) + Len(ext) : t[j] = IF j <= Len(b) THEN b[j] ELSE ext[j - Len(b)]
      BY ConcatProperties DEF Texts
    <3>2. Len(ext) \in Nat
      BY DEF Texts
    <3>. HIDE DEF t
    <3>. QED BY <3>1, <3>2, <1>2
  <2>. HIDE DEF t
  <2>. QED BY <2>1, <1>2
<1>. HIDE DEF t
<1>4. /\ new \in Seq(Texts) /\ new # <<>> /\ Last(new) = t /\ GetDir(new) = path
      /\ Front(new) = path
  BY <1>1, JoinedIs, DirIs
<1>. HIDE DEF new
<1>5. SetExt(new, none) = IF Len(b) > 1 THEN Append(path, SubSeq(t, 1, Len(b) - 1)) ELSE path
  <2>1. \/ Dot(Last(new)) = 0
        \/ Dot(Last(new)) = 1 /\ SetExt(new, none) = GetDir(new)
        \/ /\ Dot(Last(new)) > 1
           /\ SetExt(new, none)
                 = Append(Front(new), SubSeq(Last(new), 1, Dot(Last(new)) - 1))
    BY <1>1, <1>4, SetExtIs
  <2>2. Last(new) = t /\ Dot(Last(new)) = Len(b)
    BY <1>2, <1>4
  <2>3. CASE Dot(Last(new)) = 1 /\ SetExt(new, none) = GetDir(new)
    BY <1>2, <1>4, <2>2, <2>3
  <2>4. CASE /\ Dot(Last(new)) > 1
             /\ SetExt(new, none)
                   = Append(Front(new), SubSeq(Last(new), 1, Dot(Last(new)) - 1))
    <3>1. Len(b) > 1 /\ SetExt(new, none) = Append(path, SubSeq(t, 1, Len(b) - 1))
      BY <1>4, <2>2, <2>4
    <3>. QED BY <3>1
  <2>. QED BY <1>2, <2>1, <2>2, <2>3, <2>4
<1>. QED BY <1>3, <1>5 DEF new, t

\* Paths and names of any length: taking the directory undoes joining; an
\* extension without a dot that is set is there, in the place of the one before;
\* setting one leaves the directory alone, and makes of the root a file that is
\* named only by an extension; removing one takes it and its dot off the name and
\* nothing else, leaves a name without a dot alone, and drops a name that was only
\* an extension (file.cpp:84-92, 207-256).  These are the parts of PathRoundTrips
\* that do not read a text.
THEOREM PathOperations ==
    ASSUME NEW path \in Seq(Texts), path # <<>>, NEW right \in Texts
    PROVE  LET leaf == Last(path)
               new == SetExt(path, right)
           IN  /\ right # <<>> =>
                     /\ GetDir(Join(path, right)) = path
                     /\ ~Has(right, ".") => GetExt(new) = right
                     /\ ~Has(right, ".") /\ leaf # <<>> =>
                           SetExt(new, <<>>) = SetExt(path, <<>>)
                     /\ GetDir(new) = GetDir(path)
                     /\ path = << <<>> >> => new = << <<".">> \o right >>
               /\ right = <<>> =>
                     /\ ~Has(leaf, ".") => new = path
                     /\ Has(leaf, ".") =>
                           LET last == <<".">> \o GetExt(path)
                           IN  IF leaf = last THEN new = GetDir(path)
                               ELSE GetDir(new) = GetDir(path) /\ Last(new) \o last = leaf
<1>. DEFINE new == SetExt(path, right)
            leaf == Last(path)
            dot == Dot(leaf)
            last == <<".">> \o GetExt(path)
<1>1. right # <<>> => GetDir(Join(path, right)) = path
  BY JoinedIs DEF Join
<1>2. GetDir(path) = Front(path) /\ Front(path) \in Seq(Texts) /\ leaf \in Texts
  BY DirIs
<1>3. /\ dot \in 0 .. Len(leaf) /\ Len(leaf) \in Nat
      /\ dot # 0 => leaf[dot] = "."
      /\ Has(leaf, ".") <=> dot # 0
  BY <1>2, DotIs, DotMeansHas DEF Texts
<1>4. \/ right = <<>> /\ dot = 0 /\ new = path
      \/ right = <<>> /\ dot = 1 /\ new = GetDir(path)
      \/ /\ right = <<>> /\ dot > 1
         /\ new = Append(Front(path), SubSeq(leaf, 1, dot - 1))
      \/ /\ right # <<>> /\ dot = 0
         /\ new = Append(Front(path), leaf \o <<".">> \o right)
      \/ /\ right # <<>> /\ dot >= 1
         /\ new = Append(Front(path), SubSeq(leaf, 1, dot) \o right)
  BY SetExtIs
\* What removing from the path itself leaves.
<1>5. /\ dot = 0 => SetExt(path, <<>>) = path
      /\ dot = 1 => SetExt(path, <<>>) = Front(path)
      /\ dot > 1 => SetExt(path, <<>>) = Append(Front(path), SubSeq(leaf, 1, dot - 1))
  <2>. DEFINE none == <<>>
  <2>1. none \in Texts
    BY DEF Texts
  <2>. QED BY <2>1, <1>2, SetExtIs
<1>6. ASSUME dot # 0
      PROVE  /\ last = leaf <=> dot = 1
             /\ dot > 1 => SubSeq(leaf, 1, dot - 1) \o last = leaf
  <2>1. last = <<".">> \o SubSeq(leaf, dot + 1, Len(leaf))
    BY <1>6 DEF GetExt
  <2>2. dot \in 1 .. Len(leaf) /\ leaf[dot] = "."
    BY <1>3, <1>6
  <2>. HIDE DEF last, leaf, dot
  <2>. QED BY <2>1, <2>2, <1>2, CutAtDot
<1>7. path = Append(Front(path), leaf)
  BY DEF Front, Last
<1>. HIDE DEF new, leaf, dot, last
<1>8. CASE right = <<>> /\ dot = 0 /\ new = path
  BY <1>3, <1>8 DEF new, leaf
<1>9. CASE right = <<>> /\ dot = 1 /\ new = GetDir(path)
  BY <1>3, <1>6, <1>9 DEF new, leaf, last
<1>10. CASE /\ right = <<>> /\ dot > 1
            /\ new = Append(Front(path), SubSeq(leaf, 1, dot - 1))
  <2>1. dot - 1 \in 1 .. Len(leaf)
    BY <1>3, <1>10
  <2>2. SubSeq(leaf, 1, dot - 1) \in Texts
    BY <1>2, <2>1, HeadIs
  <2>3. GetDir(new) = GetDir(path) /\ Last(new) = SubSeq(leaf, 1, dot - 1)
    BY <1>2, <1>10, <2>2, JoinedIs
  <2>4. leaf # last /\ Last(new) \o last = leaf
    <3>1. dot # 0 /\ dot # 1 /\ dot > 1
      BY <1>3, <1>10
    <3>2. leaf # last
      BY <1>6, <3>1, Zenon
    <3>3. SubSeq(leaf, 1, dot - 1) \o last = leaf
      BY <1>6, <3>1, Zenon
    <3>. QED BY <2>3, <3>2, <3>3, Zenon
  <2>5. right = <<>> /\ Has(leaf, ".")
    BY <1>3, <1>10
  <2>. QED BY <2>3, <2>4, <2>5, Zenon DEF new, leaf, last
\* The extension is set behind the dot that ends b.
<1>11. ASSUME right # <<>>, NEW b \in Texts, b # <<>>, b[Len(b)] = ".",
              new = Append(Front(path), b \o right)
       PROVE  /\ GetDir(new) = GetDir(path)
              /\ ~Has(right, ".") =>
                    /\ GetExt(new) = right
                    /\ SetExt(new, <<>>) = IF Len(b) > 1
                                           THEN Append(Front(path), SubSeq(b, 1, Len(b) - 1))
                                           ELSE Front(path)
  <2>1. b \o right \in Texts
    BY <1>11, ConcatProperties DEF Texts
  <2>2. GetDir(new) = GetDir(path)
    BY <1>2, <1>11, <2>1, JoinedIs
  <2>3. ASSUME ~Has(right, ".")
        PROVE  /\ GetExt(new) = right
               /\ SetExt(new, <<>>) = IF Len(b) > 1
                                      THEN Append(Front(path), SubSeq(b, 1, Len(b) - 1))
                                      ELSE Front(path)
    BY <1>2, <1>11, <2>3, NamedAnew, RemovedAgain
  <2>. QED BY <2>2, <2>3
<1>12. CASE /\ right # <<>> /\ dot = 0
            /\ new = Append(Front(path), leaf \o <<".">> \o right)
  <2>. DEFINE b == leaf \o <<".">>
  <2>1. b \in Texts /\ b # <<>> /\ b[Len(b)] = "."
    BY <1>2, DottedIs
  <2>2. new = Append(Front(path), b \o right)
    BY <1>12
  <2>3. Len(b) = Len(leaf) + 1 /\ SubSeq(b, 1, Len(b) - 1) = leaf
    BY <1>2, BeforeLast
  <2>. HIDE DEF b
  <2>4. /\ GetDir(new) = GetDir(path)
        /\ ~Has(right, ".") =>
              /\ GetExt(new) = right
              /\ SetExt(new, <<>>) = IF Len(b) > 1
                                     THEN Append(Front(path), SubSeq(b, 1, Len(b) - 1))
                                     ELSE Front(path)
    BY <1>11, <1>12, <2>1, <2>2
  <2>5. ASSUME ~Has(right, "."), leaf # <<>> PROVE SetExt(new, <<>>) = SetExt(path, <<>>)
    <3>1. Len(leaf) # 0
      BY <1>2, <2>5 DEF Texts
    <3>2. Len(b) > 1
      BY <1>3, <2>3, <3>1
    <3>3. SetExt(new, <<>>) = path
      BY <1>7, <2>3, <2>4, <2>5, <3>2
    <3>. QED BY <1>5, <1>12, <3>3
  <2>6. ASSUME path = << <<>> >> PROVE new = << <<".">> \o right >>
    <3>1. leaf = <<>> /\ Front(path) = <<>>
      BY <2>6 DEF leaf, Last, Front
    <3>2. leaf \o <<".">> = <<".">>
      BY <3>1
    <3>. QED BY <1>12, <3>1, <3>2
  <2>. QED BY <1>1, <1>12, <2>4, <2>5, <2>6 DEF new, leaf
<1>13. CASE /\ right # <<>> /\ dot >= 1
            /\ new = Append(Front(path), SubSeq(leaf, 1, dot) \o right)
  <2>. DEFINE b == SubSeq(leaf, 1, dot)
  <2>1. dot \in 1 .. Len(leaf)
    BY <1>3, <1>13
  <2>2. b \in Texts /\ b # <<>> /\ Len(b) = dot /\ b[Len(b)] = "."
    <3>1. b \in Texts /\ b # <<>> /\ Len(b) = dot /\ b[dot] = leaf[dot]
      BY <1>2, <2>1, HeadIs
    <3>2. leaf[dot] = "."
      BY <1>3, <1>13
    <3>. QED BY <3>1, <3>2
  <2>3. new = Append(Front(path), b \o right)
    BY <1>13
  <2>4. dot > 1 => SubSeq(b, 1, dot - 1) = SubSeq(leaf, 1, dot - 1)
    BY <1>2, <2>1, HeadOfHead
  <2>. HIDE DEF b
  <2>5. /\ GetDir(new) = GetDir(path)
        /\ ~Has(right, ".") =>
              /\ GetExt(new) = right
              /\ SetExt(new, <<>>) = IF Len(b) > 1
                                     THEN Append(Front(path), SubSeq(b, 1, Len(b) - 1))
                                     ELSE Front(path)
    BY <1>11, <1>13, <2>2, <2>3
  <2>6. ASSUME ~Has(right, ".") PROVE SetExt(new, <<>>) = SetExt(path, <<>>)
    <3>1. CASE dot = 1
      BY <1>5, <2>2, <2>5, <2>6, <3>1
    <3>2. CASE dot > 1
      BY <1>5, <2>2, <2>4, <2>5, <2>6, <3>2
    <3>. QED BY <3>1, <3>2, <1>3, <1>13
  <2>7. path # << <<>> >>
    <3>1. Len(leaf) # 0
      BY <2>1
    <3>2. path = << <<>> >> => leaf = <<>>
      BY DEF leaf, Last
    <3>. QED BY <3>1, <3>2
  <2>. QED BY <1>1, <1>13, <2>5, <2>6, <2>7 DEF new, leaf
<1>. QED BY <1>4, <1>8, <1>9, <1>10, <1>12, <1>13

\* Intervals, for every word and every lengths of the units: their sums and
\* differences are exact or wrap as a whole, their numbers of units are rounded
\* (time.cpp:35-109).
THEOREM IntervalsCorrect == Spec => []IntervalsExact
<1>1. IntervalsExact
  BY InterExactHolds DEF IntervalsExact
<1>. QED BY <1>1, PTL

\* Times of the OS come back as they were but for the second that the Unix build
\* adds, and no tick takes no time (time.cpp:160-240).
THEOREM StampsCorrect == Spec => []StampsSurvive
<1>1. StampsSurvive
  BY StampsKeptHolds DEF StampsSurvive
<1>. QED BY <1>1, PTL
=============================================================================
