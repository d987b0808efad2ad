----------------------------- MODULE QueueProofs ----------------------------
(***************************************************************************)
(* Proofs about Queue for any number of threads, any messages, any initial *)
(* growth of at least two cells and any bound on the messages under way.   *)
(*                                                                         *)
(* The invariant is built in layers.  Locks says who holds the mutexes,    *)
(* from the program counters alone.  TokensMatch relates the indices, the  *)
(* semaphore and the program counters; RoomAhead is what a sender learned  *)
(* when it looked at read_at.  The last two need each other: a receiver    *)
(* moves read_at only over a message its token stands for, so it never     *)
(* comes to the cell a sender is about to advance to, and a sender that    *)
(* advances leaves one cell free, so the count of messages is exact.       *)
(* CellsMatch, which cells those messages are in, follows from all of it.  *)
(* Then the refinement of Fifo, and what is left after the queue's test.   *)
(***************************************************************************)
EXTENDS QueueTest, TLAPS, FiniteSetTheorems, SequenceTheorems

HoldsRead == {"s_grow", "r_take", "r_advance"}
HoldsWrite == {"s_check", "s_full", "s_grow", "s_put", "s_advance"}

Locks ==
    /\ readMut = {t \in Threads : pc[t] \in HoldsRead}
    /\ writeMut = {t \in Threads : pc[t] \in HoldsWrite}
    /\ \A t, u \in readMut : t = u
    /\ \A t, u \in writeMut : t = u

IInv == TypeOK /\ Locks /\ TokensMatch /\ RoomAhead

\* The definitions that only name program counters and tuples of variables.
USE DEF Steps, SendSteps, RecvSteps, Cell, GoTo, ring, locks, locals

-----------------------------------------------------------------------------
(* Type correctness rests on the other layers: an index stays inside the     *)
(* ring because a sender found room, and what a receiver takes is a message   *)
(* because the ring is not empty.                                            *)

\* grow() returns an array of the new length.
LEMMA GrownType ==
    ASSUME NEW cells, NEW size \in Nat, NEW at \in Nat, NEW n \in Nat,
           cells \in [0 .. size - 1 -> Cell], at <= size
    PROVE  Grown(cells, size, at, n) \in [0 .. size + n - 1 -> Cell]
BY DEF Grown

LEMMA TypeInit == Init => TypeOK
BY QueueAssumption DEF Init, TypeOK

LEMMA TypeStep == TypeOK /\ RoomAhead /\ AssertsHold /\ [Next]_vars => TypeOK'
<1>. SUFFICES ASSUME TypeOK, RoomAhead, AssertsHold, [Next]_vars PROVE TypeOK'
  OBVIOUS
<1>. USE QueueAssumption DEF TypeOK
<1>1. ASSUME NEW t \in Senders, NEW m \in Messages, BeginSend(t, m)
      PROVE  TypeOK'
  BY <1>1 DEF BeginSend
<1>2. ASSUME NEW t \in Receivers, BeginRecv(t) PROVE TypeOK'
  BY <1>2 DEF BeginRecv
<1>3. ASSUME NEW t \in Threads, LockWrite(t) PROVE TypeOK'
  BY <1>3 DEF LockWrite, WriteMut!Acquire
<1>4. ASSUME NEW t \in Threads, CheckRoom(t) PROVE TypeOK'
  BY <1>4 DEF CheckRoom, Succ
<1>5. ASSUME NEW t \in Threads, LockReadToGrow(t) PROVE TypeOK'
  BY <1>5 DEF LockReadToGrow, ReadMut!Acquire
<1>6. ASSUME NEW t \in Threads, Grow(t) PROVE TypeOK'
  <2>1. Growth \in Nat /\ Growth >= 2
    BY DEF Growth
  <2>2. buf' \in [0 .. len' - 1 -> Cell]
    BY <1>6, <2>1, GrownType, SMTT(30) DEF Grow
  <2>. QED BY <1>6, <2>1, <2>2 DEF Grow, ReadMut!Release
<1>7. ASSUME NEW t \in Threads, Put(t) PROVE TypeOK'
  BY <1>7 DEF Put
<1>8. ASSUME NEW t \in Threads, AdvanceWrite(t) PROVE TypeOK'
  BY <1>8 DEF AdvanceWrite, WriteMut!Release, RoomAhead, At, Succ
<1>9. ASSUME NEW t \in Threads, SignalSent(t) PROVE TypeOK'
  BY <1>9 DEF SignalSent, Tokens!Signal
<1>10. ASSUME NEW t \in Threads, AwaitMessage(t) PROVE TypeOK'
  BY <1>10 DEF AwaitMessage, Tokens!Wait
<1>11. ASSUME NEW t \in Threads, LockRead(t) PROVE TypeOK'
  BY <1>11 DEF LockRead, ReadMut!Acquire
<1>12. ASSUME NEW t \in Threads, Take(t) PROVE TypeOK'
  BY <1>12 DEF Take, AssertsHold, At
<1>13. ASSUME NEW t \in Threads, AdvanceRead(t) PROVE TypeOK'
  BY <1>13 DEF AdvanceRead, ReadMut!Release, Succ
<1>14. CASE UNCHANGED vars
  BY <1>14 DEF vars
<1>. QED
  BY <1>1, <1>2, <1>3, <1>4, <1>5, <1>6, <1>7, <1>8, <1>9, <1>10, <1>11,
     <1>12, <1>13, <1>14 DEF Next, SendStep, RecvStep

-----------------------------------------------------------------------------
(* The mutexes. *)

LEMMA LocksInit == Init => Locks
BY DEF Init, Locks, HoldsRead, HoldsWrite

LEMMA LocksStep == TypeOK /\ Locks /\ [Next]_vars => Locks'
<1>. SUFFICES ASSUME TypeOK, Locks, [Next]_vars PROVE Locks'
  OBVIOUS
<1>. pc \in [Threads -> Steps] /\ Senders \subseteq Threads
     /\ Receivers \subseteq Threads
  BY QueueAssumption DEF TypeOK
<1>. USE DEF Locks, HoldsRead, HoldsWrite
<1>1. ASSUME NEW t \in Senders, NEW m \in Messages, BeginSend(t, m)
      PROVE  Locks'
  BY <1>1 DEF BeginSend
<1>2. ASSUME NEW t \in Receivers, BeginRecv(t) PROVE Locks'
  BY <1>2 DEF BeginRecv
<1>3. ASSUME NEW t \in Threads, LockWrite(t) PROVE Locks'
  BY <1>3 DEF LockWrite, WriteMut!Acquire
<1>4. ASSUME NEW t \in Threads, CheckRoom(t) PROVE Locks'
  BY <1>4 DEF CheckRoom
<1>5. ASSUME NEW t \in Threads, LockReadToGrow(t) PROVE Locks'
  BY <1>5 DEF LockReadToGrow, ReadMut!Acquire
<1>6. ASSUME NEW t \in Threads, Grow(t) PROVE Locks'
  BY <1>6 DEF Grow, ReadMut!Release
<1>7. ASSUME NEW t \in Threads, Put(t) PROVE Locks'
  BY <1>7 DEF Put
<1>8. ASSUME NEW t \in Threads, AdvanceWrite(t) PROVE Locks'
  BY <1>8 DEF AdvanceWrite, WriteMut!Release
<1>9. ASSUME NEW t \in Threads, SignalSent(t) PROVE Locks'
  BY <1>9 DEF SignalSent
<1>10. ASSUME NEW t \in Threads, AwaitMessage(t) PROVE Locks'
  BY <1>10 DEF AwaitMessage
<1>11. ASSUME NEW t \in Threads, LockRead(t) PROVE Locks'
  BY <1>11 DEF LockRead, ReadMut!Acquire
<1>12. ASSUME NEW t \in Threads, Take(t) PROVE Locks'
  BY <1>12 DEF Take
<1>13. ASSUME NEW t \in Threads, AdvanceRead(t) PROVE Locks'
  BY <1>13 DEF AdvanceRead, ReadMut!Release
<1>14. CASE UNCHANGED vars
  BY <1>14 DEF vars
<1>. QED
  BY <1>1, <1>2, <1>3, <1>4, <1>5, <1>6, <1>7, <1>8, <1>9, <1>10, <1>11,
     <1>12, <1>13, <1>14 DEF Next, SendStep, RecvStep

-----------------------------------------------------------------------------
(* The count of messages. *)

LEMMA CountsFinite ==
    /\ IsFiniteSet(Claimed) /\ Cardinality(Claimed) \in Nat
    /\ \A step : IsFiniteSet(At(step)) /\ Cardinality(At(step)) \in Nat
BY QueueAssumption, FS_Subset, FS_CardinalityType DEF Claimed, At

\* A claimed token stands for a message, so the ring is not empty.
LEMMA ClaimedNotEmpty ==
    ASSUME TypeOK, TokensMatch, NEW t \in Claimed
    PROVE  Occupancy >= 1 /\ readAt # writeAt /\ len > 0
<1>1. Cardinality(Claimed) \in Nat /\ Cardinality(Claimed) # 0
  BY CountsFinite, FS_EmptySet
<1>2. Occupancy \in Int /\ Occupancy >= 1
  BY <1>1, CountsFinite DEF TokensMatch, TypeOK, Occupancy
<1>. QED BY <1>2 DEF TypeOK, Occupancy

LEMMA AssertionsFollow == TypeOK /\ TokensMatch => AssertsHold
BY ClaimedNotEmpty DEF AssertsHold, At, Claimed

LEMMA TokensInit == Init => TokensMatch
<1>. SUFFICES ASSUME Init PROVE TokensMatch
  OBVIOUS
<1>1. Claimed = {} /\ At("s_signal") = {}
  BY DEF Init, Claimed, At
<1>2. Occupancy = 0 /\ sem = 0
  BY DEF Init, Occupancy
<1>. QED BY <1>1, <1>2, FS_EmptySet DEF TokensMatch

\* A step that leaves the indices and the semaphore alone, and does not move a
\* thread into or out of the counted stages, keeps the count.
LEMMA QuietStep ==
    ASSUME TokensMatch, UNCHANGED <<readAt, writeAt, len, sem>>,
           Claimed' = Claimed, At("s_signal")' = At("s_signal")
    PROVE  TokensMatch'
BY DEF TokensMatch, Occupancy

LEMMA TokensStep ==
    TypeOK /\ TokensMatch /\ RoomAhead /\ [Next]_vars => TokensMatch'
<1>. SUFFICES ASSUME TypeOK, TokensMatch, RoomAhead, [Next]_vars
              PROVE  TokensMatch'
  OBVIOUS
<1>. Senders \subseteq Threads /\ Receivers \subseteq Threads
  BY QueueAssumption
<1>1. ASSUME NEW t \in Senders, NEW m \in Messages, BeginSend(t, m)
      PROVE  TokensMatch'
  <2>1. Claimed' = Claimed /\ At("s_signal")' = At("s_signal")
    BY <1>1 DEF BeginSend, TypeOK, Claimed, At
  <2>. QED BY <1>1, <2>1, QuietStep DEF BeginSend
<1>2. ASSUME NEW t \in Receivers, BeginRecv(t) PROVE TokensMatch'
  <2>1. Claimed' = Claimed /\ At("s_signal")' = At("s_signal")
    BY <1>2 DEF BeginRecv, TypeOK, Claimed, At
  <2>. QED BY <1>2, <2>1, QuietStep DEF BeginRecv
<1>3. ASSUME NEW t \in Threads, LockWrite(t) PROVE TokensMatch'
  <2>1. Claimed' = Claimed /\ At("s_signal")' = At("s_signal")
    BY <1>3 DEF LockWrite, TypeOK, Claimed, At
  <2>. QED BY <1>3, <2>1, QuietStep DEF LockWrite
<1>4. ASSUME NEW t \in Threads, CheckRoom(t) PROVE TokensMatch'
  <2>1. Claimed' = Claimed /\ At("s_signal")' = At("s_signal")
    BY <1>4 DEF CheckRoom, TypeOK, Claimed, At
  <2>. QED BY <1>4, <2>1, QuietStep DEF CheckRoom
<1>5. ASSUME NEW t \in Threads, LockReadToGrow(t) PROVE TokensMatch'
  <2>1. Claimed' = Claimed /\ At("s_signal")' = At("s_signal")
    BY <1>5 DEF LockReadToGrow, TypeOK, Claimed, At
  <2>. QED BY <1>5, <2>1, QuietStep DEF LockReadToGrow
<1>6. ASSUME NEW t \in Threads, Grow(t) PROVE TokensMatch'
  <2>1. Claimed' = Claimed /\ At("s_signal")' = At("s_signal") /\ sem' = sem
    BY <1>6 DEF Grow, TypeOK, Claimed, At
  <2>2. Growth \in Nat
    BY QueueAssumption DEF Growth, TypeOK
  <2>3. Occupancy' = Occupancy
    BY <1>6, <2>2 DEF Grow, Occupancy, TypeOK
  <2>. QED BY <2>1, <2>3 DEF TokensMatch
<1>7. ASSUME NEW t \in Threads, Put(t) PROVE TokensMatch'
  <2>1. Claimed' = Claimed /\ At("s_signal")' = At("s_signal")
    BY <1>7 DEF Put, TypeOK, Claimed, At
  <2>. QED BY <1>7, <2>1, QuietStep DEF Put
<1>8. ASSUME NEW t \in Threads, AdvanceWrite(t) PROVE TokensMatch'
  <2>1. /\ Claimed' = Claimed /\ sem' = sem
        /\ At("s_signal")' = At("s_signal") \union {t}
        /\ t \notin At("s_signal")
    BY <1>8 DEF AdvanceWrite, TypeOK, Claimed, At
  <2>2. Cardinality(At("s_signal")') = Cardinality(At("s_signal")) + 1
    BY <2>1, CountsFinite, FS_AddElement
  <2>3. Occupancy' = Occupancy + 1
    BY <1>8, SMTT(30) DEF AdvanceWrite, Occupancy, TypeOK, RoomAhead, At, Succ
  <2>. QED BY <2>1, <2>2, <2>3, CountsFinite DEF TokensMatch, TypeOK
<1>9. ASSUME NEW t \in Threads, SignalSent(t) PROVE TokensMatch'
  <2>1. /\ Claimed' = Claimed /\ sem' = sem + 1 /\ Occupancy' = Occupancy
        /\ At("s_signal")' = At("s_signal") \ {t} /\ t \in At("s_signal")
    BY <1>9 DEF SignalSent, Tokens!Signal, TypeOK, Claimed, At, Occupancy
  <2>2. Cardinality(At("s_signal")') = Cardinality(At("s_signal")) - 1
    BY <2>1, CountsFinite, FS_RemoveElement
  <2>. QED BY <2>1, <2>2, CountsFinite DEF TokensMatch, TypeOK
<1>10. ASSUME NEW t \in Threads, AwaitMessage(t) PROVE TokensMatch'
  <2>1. /\ At("s_signal")' = At("s_signal") /\ sem' = sem - 1
        /\ Occupancy' = Occupancy
        /\ Claimed' = Claimed \union {t} /\ t \notin Claimed
    BY <1>10 DEF AwaitMessage, Tokens!Wait, TypeOK, Claimed, At, Occupancy
  <2>2. Cardinality(Claimed') = Cardinality(Claimed) + 1
    BY <2>1, CountsFinite, FS_AddElement
  <2>. QED BY <2>1, <2>2, CountsFinite DEF TokensMatch, TypeOK
<1>11. ASSUME NEW t \in Threads, LockRead(t) PROVE TokensMatch'
  <2>1. Claimed' = Claimed /\ At("s_signal")' = At("s_signal")
    BY <1>11 DEF LockRead, TypeOK, Claimed, At
  <2>. QED BY <1>11, <2>1, QuietStep DEF LockRead
<1>12. ASSUME NEW t \in Threads, Take(t) PROVE TokensMatch'
  <2>1. Claimed' = Claimed /\ At("s_signal")' = At("s_signal")
    BY <1>12 DEF Take, TypeOK, Claimed, At
  <2>. QED BY <1>12, <2>1, QuietStep DEF Take
<1>13. ASSUME NEW t \in Threads, AdvanceRead(t) PROVE TokensMatch'
  <2>1. /\ At("s_signal")' = At("s_signal") /\ sem' = sem
        /\ Claimed' = Claimed \ {t} /\ t \in Claimed
    BY <1>13 DEF AdvanceRead, TypeOK, Claimed, At
  <2>2. Cardinality(Claimed') = Cardinality(Claimed) - 1
    BY <2>1, CountsFinite, FS_RemoveElement
  <2>3. Occupancy' = Occupancy - 1
    BY <1>13, <2>1, ClaimedNotEmpty DEF AdvanceRead, Occupancy, TypeOK, Succ
  <2>. QED BY <2>1, <2>2, <2>3, CountsFinite DEF TokensMatch, TypeOK
<1>14. CASE UNCHANGED vars
  BY <1>14, QuietStep DEF vars, Claimed, At
<1>. QED
  BY <1>1, <1>2, <1>3, <1>4, <1>5, <1>6, <1>7, <1>8, <1>9, <1>10, <1>11,
     <1>12, <1>13, <1>14 DEF Next, SendStep, RecvStep

-----------------------------------------------------------------------------
(* The room a sender found. *)

LEMMA RoomInit == Init => RoomAhead
BY DEF Init, RoomAhead, At

\* No thread but the holder of write_mut is between its check and its advance.
LEMMA OneWriter ==
    ASSUME TypeOK, Locks, NEW t \in Threads, NEW u \in Threads,
           pc[t] \in HoldsWrite, pc[u] \in HoldsWrite
    PROVE  t = u
BY DEF Locks

LEMMA RoomStep ==
    TypeOK /\ Locks /\ TokensMatch /\ RoomAhead /\ [Next]_vars => RoomAhead'
<1>. SUFFICES ASSUME TypeOK, Locks, TokensMatch, RoomAhead, [Next]_vars,
                     NEW u \in Threads, pc'[u] \in {"s_put", "s_advance"}
              PROVE  len' > 0 /\ next'[u] = Succ(writeAt)' /\ next'[u] # readAt'
  BY DEF RoomAhead, At
<1>. DEFINE Goal == len' > 0 /\ next'[u] = Succ(writeAt)' /\ next'[u] # readAt'
<1>. Senders \subseteq Threads /\ Receivers \subseteq Threads
  BY QueueAssumption
<1>a. ASSUME pc[u] = pc'[u] \/ (pc[u] = "s_put" /\ pc'[u] = "s_advance"),
             next'[u] = next[u], UNCHANGED <<len, readAt, writeAt>>
      PROVE  Goal
  BY <1>a DEF RoomAhead, At, Succ
<1>1. ASSUME NEW t \in Senders, NEW m \in Messages, BeginSend(t, m) PROVE Goal
  BY <1>1, <1>a DEF BeginSend, TypeOK
<1>2. ASSUME NEW t \in Receivers, BeginRecv(t) PROVE Goal
  BY <1>2, <1>a DEF BeginRecv, TypeOK
<1>3. ASSUME NEW t \in Threads, LockWrite(t) PROVE Goal
  BY <1>3, <1>a DEF LockWrite, TypeOK
<1>4. ASSUME NEW t \in Threads, CheckRoom(t) PROVE Goal
  <2>1. CASE u = t
    BY <1>4, <2>1 DEF CheckRoom, TypeOK, Succ
  <2>2. CASE u # t
    BY <1>4, <2>2, <1>a DEF CheckRoom, TypeOK
  <2>. QED BY <2>1, <2>2
<1>5. ASSUME NEW t \in Threads, LockReadToGrow(t) PROVE Goal
  BY <1>5, <1>a DEF LockReadToGrow, TypeOK
<1>6. ASSUME NEW t \in Threads, Grow(t) PROVE Goal
  <2>1. u = t
    BY <1>6, OneWriter DEF Grow, TypeOK, HoldsWrite
  <2>2. Growth \in Nat /\ Growth >= 2
    BY QueueAssumption DEF Growth, TypeOK
  <2>. QED BY <1>6, <2>1, <2>2 DEF Grow, TypeOK, Succ
<1>7. ASSUME NEW t \in Threads, Put(t) PROVE Goal
  <2>1. CASE u = t
    BY <1>7, <2>1, <1>a DEF Put, TypeOK
  <2>2. CASE u # t
    BY <1>7, <2>2, <1>a DEF Put, TypeOK
  <2>. QED BY <2>1, <2>2
<1>8. ASSUME NEW t \in Threads, AdvanceWrite(t) PROVE Goal
  BY <1>8, OneWriter DEF AdvanceWrite, TypeOK, HoldsWrite
<1>9. ASSUME NEW t \in Threads, SignalSent(t) PROVE Goal
  BY <1>9, <1>a DEF SignalSent, TypeOK
<1>10. ASSUME NEW t \in Threads, AwaitMessage(t) PROVE Goal
  BY <1>10, <1>a DEF AwaitMessage, TypeOK
<1>11. ASSUME NEW t \in Threads, LockRead(t) PROVE Goal
  BY <1>11, <1>a DEF LockRead, TypeOK
<1>12. ASSUME NEW t \in Threads, Take(t) PROVE Goal
  BY <1>12, <1>a DEF Take, TypeOK
<1>13. ASSUME NEW t \in Threads, AdvanceRead(t) PROVE Goal
  <2>1. readAt # writeAt
    BY <1>13, ClaimedNotEmpty DEF AdvanceRead, Claimed
  <2>2. /\ u # t /\ pc[u] = pc'[u] /\ next'[u] = next[u]
        /\ UNCHANGED <<len, writeAt>> /\ readAt' = Succ(readAt)
    BY <1>13 DEF AdvanceRead, TypeOK
  <2>3. len > 0 /\ next[u] = Succ(writeAt)
    BY <2>2 DEF RoomAhead, At
  <2>. QED BY <2>1, <2>2, <2>3 DEF TypeOK, Succ
<1>14. CASE UNCHANGED vars
  BY <1>14, <1>a DEF vars
<1>. QED
  BY <1>1, <1>2, <1>3, <1>4, <1>5, <1>6, <1>7, <1>8, <1>9, <1>10, <1>11,
     <1>12, <1>13, <1>14 DEF Next, SendStep, RecvStep

-----------------------------------------------------------------------------
(* Which cells hold a message. *)

\* A sender carries its message until it puts it into the ring.
Carries ==
    \A t \in Threads :
        pc[t] \in SendSteps \ {"s_advance"} => msg[t] \in Messages

LEMMA CarriesStep == TypeOK /\ Carries /\ [Next]_vars => Carries'
<1>. SUFFICES ASSUME TypeOK, Carries, [Next]_vars PROVE Carries'
  OBVIOUS
<1>. /\ Senders \subseteq Threads /\ Receivers \subseteq Threads
     /\ pc \in [Threads -> Steps] /\ msg \in [Threads -> Cell]
  BY QueueAssumption DEF TypeOK
<1>. USE DEF Carries
<1>1. ASSUME NEW t \in Senders, NEW m \in Messages, BeginSend(t, m)
      PROVE  Carries'
  BY <1>1 DEF BeginSend
<1>2. ASSUME NEW t \in Receivers, BeginRecv(t) PROVE Carries'
  BY <1>2 DEF BeginRecv
<1>3. ASSUME NEW t \in Threads, LockWrite(t) PROVE Carries'
  BY <1>3 DEF LockWrite
<1>4. ASSUME NEW t \in Threads, CheckRoom(t) PROVE Carries'
  BY <1>4 DEF CheckRoom
<1>5. ASSUME NEW t \in Threads, LockReadToGrow(t) PROVE Carries'
  BY <1>5 DEF LockReadToGrow
<1>6. ASSUME NEW t \in Threads, Grow(t) PROVE Carries'
  BY <1>6 DEF Grow
<1>7. ASSUME NEW t \in Threads, Put(t) PROVE Carries'
  BY <1>7 DEF Put
<1>8. ASSUME NEW t \in Threads, AdvanceWrite(t) PROVE Carries'
  BY <1>8 DEF AdvanceWrite
<1>9. ASSUME NEW t \in Threads, SignalSent(t) PROVE Carries'
  BY <1>9 DEF SignalSent
<1>10. ASSUME NEW t \in Threads, AwaitMessage(t) PROVE Carries'
  BY <1>10 DEF AwaitMessage
<1>11. ASSUME NEW t \in Threads, LockRead(t) PROVE Carries'
  BY <1>11 DEF LockRead
<1>12. ASSUME NEW t \in Threads, Take(t) PROVE Carries'
  BY <1>12 DEF Take
<1>13. ASSUME NEW t \in Threads, AdvanceRead(t) PROVE Carries'
  BY <1>13 DEF AdvanceRead
<1>14. CASE UNCHANGED vars
  BY <1>14 DEF vars
<1>. QED
  BY <1>1, <1>2, <1>3, <1>4, <1>5, <1>6, <1>7, <1>8, <1>9, <1>10, <1>11,
     <1>12, <1>13, <1>14 DEF Next, SendStep, RecvStep

LEMMA CellsInit == Init => CellsMatch /\ Carries
BY DEF Init, CellsMatch, Carries

\* A step that leaves the ring alone, and does not move a thread into or out
\* of the stages between emptying or filling a cell and moving the index.
LEMMA QuietCells ==
    ASSUME CellsMatch, UNCHANGED ring, At("r_advance")' = At("r_advance"),
           At("s_advance")' = At("s_advance")
    PROVE  CellsMatch'
BY DEF CellsMatch, Occupied

LEMMA CellsStep ==
    TypeOK /\ Locks /\ TokensMatch /\ RoomAhead /\ Carries /\ CellsMatch
      /\ [Next]_vars => CellsMatch'
<1>. SUFFICES ASSUME TypeOK, Locks, TokensMatch, RoomAhead, Carries,
                     CellsMatch, [Next]_vars
              PROVE  CellsMatch'
  OBVIOUS
<1>. /\ Senders \subseteq Threads /\ Receivers \subseteq Threads
     /\ pc \in [Threads -> Steps]
  BY QueueAssumption DEF TypeOK
<1>. DEFINE Quiet == /\ At("r_advance")' = At("r_advance")
                     /\ At("s_advance")' = At("s_advance")
<1>1. ASSUME NEW t \in Senders, NEW m \in Messages, BeginSend(t, m)
      PROVE  CellsMatch'
  <2>1. Quiet
    BY <1>1 DEF BeginSend, At
  <2>. QED BY <1>1, <2>1, QuietCells DEF BeginSend
<1>2. ASSUME NEW t \in Receivers, BeginRecv(t) PROVE CellsMatch'
  <2>1. Quiet
    BY <1>2 DEF BeginRecv, At
  <2>. QED BY <1>2, <2>1, QuietCells DEF BeginRecv
<1>3. ASSUME NEW t \in Threads, LockWrite(t) PROVE CellsMatch'
  <2>1. Quiet
    BY <1>3 DEF LockWrite, At
  <2>. QED BY <1>3, <2>1, QuietCells DEF LockWrite
<1>4. ASSUME NEW t \in Threads, CheckRoom(t) PROVE CellsMatch'
  <2>1. Quiet
    BY <1>4 DEF CheckRoom, At
  <2>. QED BY <1>4, <2>1, QuietCells DEF CheckRoom
<1>5. ASSUME NEW t \in Threads, LockReadToGrow(t) PROVE CellsMatch'
  <2>1. Quiet
    BY <1>5 DEF LockReadToGrow, At
  <2>. QED BY <1>5, <2>1, QuietCells DEF LockReadToGrow
<1>6. ASSUME NEW t \in Threads, Grow(t) PROVE CellsMatch'
  <2>1. /\ At("r_advance") = {} /\ At("r_advance")' = {}
        /\ At("s_advance") = {} /\ At("s_advance")' = {}
    BY <1>6 DEF Grow, At, Locks, HoldsRead, HoldsWrite
  <2>2. Growth \in Nat /\ Growth >= 2
    BY QueueAssumption DEF Growth, TypeOK
  <2>3. ASSUME NEW i \in 0 .. len' - 1
        PROVE  buf'[i] # NoMessage <=> Occupied(i)'
    <3>1. /\ len' = len + Growth /\ writeAt' = writeAt
          /\ readAt' = IF readAt > writeAt THEN readAt + Growth ELSE readAt
          /\ buf'[i] = IF i < writeAt THEN buf[i]
                       ELSE IF i < writeAt + Growth THEN NoMessage
                       ELSE buf[i - Growth]
      BY <1>6, <2>2 DEF Grow, Grown, TypeOK
    <3>2. \A j \in 0 .. len - 1 : buf[j] # NoMessage <=> Occupied(j)
      BY <2>1 DEF CellsMatch
    <3>3. CASE i < writeAt
      <4>1. i \in 0 .. len - 1
        BY <3>3 DEF TypeOK
      <4>. QED BY <2>2, <3>1, <3>2, <3>3, <4>1 DEF Occupied, TypeOK
    <3>4. CASE writeAt <= i /\ i < writeAt + Growth
      BY <2>2, <3>1, <3>4 DEF Occupied, TypeOK
    <3>5. CASE writeAt + Growth <= i
      <4>1. i - Growth \in 0 .. len - 1
        BY <2>2, <3>1, <3>5 DEF TypeOK
      <4>2. buf'[i] = buf[i - Growth]
        BY <2>2, <3>1, <3>5 DEF TypeOK
      <4>3. buf[i - Growth] # NoMessage <=> Occupied(i - Growth)
        BY <3>2, <4>1
      <4>4. Occupied(i - Growth) <=> Occupied(i)'
        BY <2>2, <3>1, <3>5 DEF Occupied, TypeOK
      <4>. QED BY <4>2, <4>3, <4>4
    <3>. QED BY <2>2, <3>1, <3>3, <3>4, <3>5 DEF TypeOK
  <2>. QED BY <2>1, <2>3 DEF CellsMatch
<1>7. ASSUME NEW t \in Threads, Put(t) PROVE CellsMatch'
  <2>1. /\ At("r_advance")' = At("r_advance") /\ At("s_advance")' # {}
        /\ At("s_advance") = {}
    BY <1>7 DEF Put, At, Locks, HoldsWrite
  <2>2. msg[t] # NoMessage
    BY <1>7, QueueAssumption DEF Put, Carries
  <2>3. /\ buf' = [buf EXCEPT ![writeAt] = msg[t]]
        /\ UNCHANGED <<len, readAt, writeAt>>
    BY <1>7 DEF Put
  <2>. QED BY <2>1, <2>2, <2>3 DEF CellsMatch, Occupied, TypeOK
<1>8. ASSUME NEW t \in Threads, AdvanceWrite(t) PROVE CellsMatch'
  <2>1. /\ At("r_advance")' = At("r_advance") /\ At("s_advance")' = {}
        /\ At("s_advance") # {}
    BY <1>8 DEF AdvanceWrite, At, Locks, HoldsWrite
  <2>2. /\ UNCHANGED <<buf, len, readAt>> /\ len > 0
        /\ writeAt' = Succ(writeAt) /\ writeAt' # readAt
    BY <1>8 DEF AdvanceWrite, RoomAhead, At
  <2>3. At("r_advance") # {} => readAt # writeAt
    BY ClaimedNotEmpty DEF At, Claimed
  <2>4. ASSUME NEW i \in 0 .. len - 1
        PROVE  Occupied(i)' <=> Occupied(i) \/ i = writeAt
    BY <2>2 DEF Occupied, TypeOK, Succ
  <2>. QED BY <2>1, <2>2, <2>3, <2>4 DEF CellsMatch
<1>9. ASSUME NEW t \in Threads, SignalSent(t) PROVE CellsMatch'
  <2>1. Quiet
    BY <1>9 DEF SignalSent, At
  <2>. QED BY <1>9, <2>1, QuietCells DEF SignalSent
<1>10. ASSUME NEW t \in Threads, AwaitMessage(t) PROVE CellsMatch'
  <2>1. Quiet
    BY <1>10 DEF AwaitMessage, At
  <2>. QED BY <1>10, <2>1, QuietCells DEF AwaitMessage
<1>11. ASSUME NEW t \in Threads, LockRead(t) PROVE CellsMatch'
  <2>1. Quiet
    BY <1>11 DEF LockRead, At
  <2>. QED BY <1>11, <2>1, QuietCells DEF LockRead
<1>12. ASSUME NEW t \in Threads, Take(t) PROVE CellsMatch'
  <2>1. /\ At("r_advance")' # {} /\ At("r_advance") = {}
        /\ At("s_advance")' = At("s_advance")
    BY <1>12 DEF Take, At, Locks, HoldsRead
  <2>2. readAt # writeAt
    BY <1>12, ClaimedNotEmpty DEF Take, Claimed
  <2>3. /\ buf' = [buf EXCEPT ![readAt] = NoMessage]
        /\ UNCHANGED <<len, readAt, writeAt>>
    BY <1>12 DEF Take
  <2>. QED BY <2>1, <2>2, <2>3 DEF CellsMatch, Occupied, TypeOK
<1>13. ASSUME NEW t \in Threads, AdvanceRead(t) PROVE CellsMatch'
  <2>1. /\ At("r_advance")' = {} /\ At("r_advance") # {}
        /\ At("s_advance")' = At("s_advance")
    BY <1>13 DEF AdvanceRead, At, Locks, HoldsRead
  <2>2. readAt # writeAt
    BY <1>13, ClaimedNotEmpty DEF AdvanceRead, Claimed
  <2>3. UNCHANGED <<buf, len, writeAt>> /\ readAt' = Succ(readAt)
    BY <1>13 DEF AdvanceRead
  <2>. QED BY <2>1, <2>2, <2>3 DEF CellsMatch, Occupied, TypeOK, Succ
<1>14. CASE UNCHANGED vars
  <2>1. Quiet /\ UNCHANGED ring
    BY <1>14 DEF vars, At
  <2>. QED BY <2>1, QuietCells
<1>. QED
  BY <1>1, <1>2, <1>3, <1>4, <1>5, <1>6, <1>7, <1>8, <1>9, <1>10, <1>11,
     <1>12, <1>13, <1>14 DEF Next, SendStep, RecvStep

-----------------------------------------------------------------------------
(* The inductive invariant and what follows from it. *)

LEMMA InvariantInit == Init => IInv
BY TypeInit, LocksInit, TokensInit, RoomInit DEF IInv

LEMMA InvariantStep == IInv /\ [Next]_vars => IInv'
BY TypeStep, LocksStep, TokensStep, RoomStep, AssertionsFollow DEF IInv

LEMMA Invariant == Spec => []IInv
BY InvariantInit, InvariantStep, PTL DEF Spec

\* Every variable keeps its type; in particular both indices stay inside the
\* ring (queue.cpp:10-12, 35-36).
THEOREM TypeCorrect == Spec => []TypeOK
BY Invariant, PTL DEF IInv

\* The tokens count the messages exactly, for any number of threads.
THEOREM TokensCorrect == Spec => []TokensMatch
BY Invariant, PTL DEF IInv

\* The assertions of recv_waited never fail (queue.cpp:8-9).
THEOREM AssertionsCorrect == Spec => []AssertsHold
BY Invariant, AssertionsFollow, PTL DEF IInv

\* The room a sender found by an unlocked read is still there when it advances
\* (queue.cpp:26, 36).
THEOREM RoomCorrect == Spec => []RoomAhead
BY Invariant, PTL DEF IInv

\* No message is overwritten, and none is left behind in a cell the ring has
\* passed (queue.cpp:11, 35).
THEOREM CellsCorrect == Spec => []CellsMatch
<1>1. Init => CellsMatch /\ Carries
  BY CellsInit
<1>2. IInv /\ CellsMatch /\ Carries /\ [Next]_vars => (CellsMatch /\ Carries)'
  BY CellsStep, CarriesStep DEF IInv
<1>. QED BY <1>1, <1>2, Invariant, PTL DEF Spec
-----------------------------------------------------------------------------
(***************************************************************************)
(* Queue implements Fifo, for every value of the constants: each step of   *)
(* the detailed queue is a step of the abstract one or leaves its state    *)
(* alone.  The steps that take effect are AdvanceWrite, which appends the  *)
(* message of the cell before the new write_at, and Take, which removes    *)
(* the head; growing the ring moves the cells and changes nothing.         *)
(***************************************************************************)

\* A thread that carries no message has an empty local.
NoMessageHeld ==
    \A t \in Threads :
        pc[t] \in {"idle", "s_advance", "s_signal",
                    "r_wait", "r_lock", "r_take"}
            => msg[t] = NoMessage

-----------------------------------------------------------------------------
(* Slices of a ring. *)

\* Kept folded in the statements below, which the provers then match by name.
IsRing(cells, size) == cells \in [0 .. size - 1 -> Cell]

LEMMA WrapInside ==
    ASSUME NEW size \in Nat, NEW i \in Nat, i < size + size
    PROVE  Wrap(size, i) \in 0 .. size - 1
BY DEF Wrap

\* A slice no longer than the ring is a sequence of its cells.
SliceIs(cells, size, from, n) ==
    /\ Slice(cells, size, from, n) \in Seq(Cell)
    /\ Len(Slice(cells, size, from, n)) = n
    /\ \A i \in 1 .. n :
         Slice(cells, size, from, n)[i] = cells[Wrap(size, from + i - 1)]

LEMMA SliceType ==
    ASSUME NEW size \in Nat, NEW cells, IsRing(cells, size),
           NEW from \in Nat, NEW n \in Nat, from <= size, n <= size
    PROVE  SliceIs(cells, size, from, n)
<1>1. \A i \in 1 .. n : from + i - 1 \in Nat /\ from + i - 1 < size + size
  OBVIOUS
<1>2. \A i \in 1 .. n : cells[Wrap(size, from + i - 1)] \in Cell
  BY <1>1, WrapInside DEF IsRing
<1>3. Slice(cells, size, from, n) \in [1 .. n -> Cell]
  BY <1>2 DEF Slice
<1>4. \A i \in 1 .. n :
        Slice(cells, size, from, n)[i] = cells[Wrap(size, from + i - 1)]
  BY DEF Slice
<1>. QED BY <1>3, <1>4 DEF SliceIs

LEMMA SliceAppend ==
    ASSUME NEW size \in Nat, NEW cells, IsRing(cells, size),
           NEW from \in Nat, NEW n \in Nat, NEW m \in Nat,
           from <= size, m = n + 1, m <= size
    PROVE  Slice(cells, size, from, m) =
             Append(Slice(cells, size, from, n), cells[Wrap(size, from + n)])
<1>. DEFINE short == Slice(cells, size, from, n)
            long == Slice(cells, size, from, m)
            last == cells[Wrap(size, from + n)]
<1>1. /\ short \in Seq(Cell) /\ Len(short) = n
      /\ \A i \in 1 .. n : short[i] = cells[Wrap(size, from + i - 1)]
  <2>1. n <= size
    OBVIOUS
  <2>2. SliceIs(cells, size, from, n)
    BY <2>1, SliceType
  <2>. QED BY <2>2 DEF SliceIs
<1>2. /\ long \in Seq(Cell) /\ Len(long) = m
      /\ \A i \in 1 .. m : long[i] = cells[Wrap(size, from + i - 1)]
  <2>1. SliceIs(cells, size, from, m)
    BY SliceType
  <2>. QED BY <2>1 DEF SliceIs
<1>3. last \in Cell
  <2>1. from + n \in Nat /\ from + n < size + size
    OBVIOUS
  <2>. QED BY <2>1, WrapInside DEF IsRing
<1>4. \A i \in 1 .. n : long[i] = short[i]
  <2>1. \A i \in 1 .. n : i \in 1 .. m
    OBVIOUS
  <2>. QED BY <2>1, <1>1, <1>2
<1>5. long[m] = last
  <2>1. m \in 1 .. m /\ from + m - 1 = from + n
    OBVIOUS
  <2>. QED BY <2>1, <1>2
<1>. HIDE DEF short, long, last
<1>6. /\ Append(short, last) \in Seq(Cell)
      /\ Len(Append(short, last)) = m
      /\ \A i \in 1 .. n : Append(short, last)[i] = short[i]
      /\ Append(short, last)[m] = last
  BY <1>1, <1>3
<1>7. long = Append(short, last)
  BY <1>2, <1>4, <1>5, <1>6, SeqEqual
<1>. QED BY <1>7 DEF short, long, last

LEMMA SliceHead ==
    ASSUME NEW size \in Nat, NEW cells, IsRing(cells, size),
           NEW from \in Nat, NEW m \in Nat, from < size, m >= 1, m <= size
    PROVE  /\ Slice(cells, size, from, m) # <<>>
           /\ Head(Slice(cells, size, from, m)) = cells[from]
<1>. DEFINE long == Slice(cells, size, from, m)
<1>1. /\ long \in Seq(Cell) /\ Len(long) = m
      /\ \A i \in 1 .. m : long[i] = cells[Wrap(size, from + i - 1)]
  <2>1. from <= size
    OBVIOUS
  <2>2. SliceIs(cells, size, from, m)
    BY <2>1, SliceType
  <2>. QED BY <2>2 DEF SliceIs
<1>2. 1 \in 1 .. m /\ Wrap(size, from + 1 - 1) = from
  BY DEF Wrap
<1>3. long[1] = cells[from]
  BY <1>1, <1>2
<1>. HIDE DEF long
<1>4. long # <<>> /\ Head(long) = long[1]
  BY <1>1
<1>. QED BY <1>3, <1>4 DEF long

LEMMA SliceTail ==
    ASSUME NEW size \in Nat, NEW cells, IsRing(cells, size),
           NEW from \in Nat, NEW n \in Nat, NEW m \in Nat, NEW after \in Nat,
           from < size, after = from + 1, m = n + 1, m <= size
    PROVE  Tail(Slice(cells, size, from, m)) = Slice(cells, size, after, n)
<1>. DEFINE long == Slice(cells, size, from, m)
            rest == Slice(cells, size, after, n)
<1>1. /\ long \in Seq(Cell) /\ Len(long) = m
      /\ \A i \in 1 .. m : long[i] = cells[Wrap(size, from + i - 1)]
  <2>1. from <= size
    OBVIOUS
  <2>2. SliceIs(cells, size, from, m)
    BY <2>1, SliceType
  <2>. QED BY <2>2 DEF SliceIs
<1>2. /\ rest \in Seq(Cell) /\ Len(rest) = n
      /\ \A i \in 1 .. n : rest[i] = cells[Wrap(size, after + i - 1)]
  <2>1. after <= size /\ n <= size
    OBVIOUS
  <2>2. SliceIs(cells, size, after, n)
    BY <2>1, SliceType
  <2>. QED BY <2>2 DEF SliceIs
<1>3. ASSUME NEW i \in 1 .. n PROVE rest[i] = long[i + 1]
  <2>1. i + 1 \in 1 .. m /\ after + i - 1 = from + (i + 1) - 1
    OBVIOUS
  <2>2. long[i + 1] = cells[Wrap(size, from + (i + 1) - 1)]
    BY <2>1, <1>1
  <2>. QED BY <2>1, <2>2, <1>2
<1>. HIDE DEF long, rest
<1>4. long # <<>>
  BY <1>1
<1>5. /\ Tail(long) \in Seq(Cell) /\ Len(Tail(long)) = n
      /\ \A i \in 1 .. n : Tail(long)[i] = long[i + 1]
  BY <1>1, <1>4, HeadTailProperties
<1>6. Tail(long) = rest
  BY <1>2, <1>3, <1>5, SeqEqual
<1>. QED BY <1>6 DEF long, rest

-----------------------------------------------------------------------------
(* Which messages the queue holds. *)

\* The window of messages fits the ring, and one cell stays free.
LEMMA Window ==
    ASSUME IInv
    PROVE  /\ Occupancy \in Nat /\ Taken \in {0, 1} /\ Taken <= Occupancy
           /\ Occupancy < len \/ (len = 0 /\ Occupancy = 0)
           /\ Occupancy - Taken \in Nat /\ readAt + Taken \in Nat
           /\ readAt + Taken <= len
           /\ IsRing(buf, len)
<1>1. Occupancy \in Nat /\ (Occupancy < len \/ (len = 0 /\ Occupancy = 0))
  BY DEF IInv, TypeOK, Occupancy
<1>2. Taken = 1 => Occupancy >= 1 /\ len > 0
  <2>1. SUFFICES ASSUME NEW t \in At("r_advance")
                 PROVE  Occupancy >= 1 /\ len > 0
    BY DEF Taken
  <2>2. t \in Claimed
    BY DEF At, Claimed
  <2>. QED BY <2>2, ClaimedNotEmpty DEF IInv
<1>3. Taken \in {0, 1}
  BY DEF Taken
<1>. QED BY <1>1, <1>2, <1>3 DEF IInv, TypeOK, IsRing

LEMMA QuietContents ==
    ASSUME UNCHANGED ring, At("r_advance")' = At("r_advance")
    PROVE  Contents' = Contents
BY DEF ring, Contents, Occupancy, Taken

\* The cell being filled is outside the window.
LEMMA PutContents ==
    ASSUME IInv, NEW t \in Threads, Put(t)
    PROVE  Contents' = Contents
<1>1. At("r_advance")' = At("r_advance")
  BY DEF Put, GoTo, At, IInv, TypeOK
<1>2. Occupancy' = Occupancy /\ Taken' = Taken
  BY <1>1 DEF Put, Occupancy, Taken
<1>3. ASSUME NEW i \in 1 .. Occupancy - Taken
      PROVE  /\ Wrap(len, readAt + Taken + i - 1) # writeAt
             /\ Wrap(len, readAt + Taken + i - 1) \in 0 .. len - 1
  <2>1. /\ Taken \in Nat /\ Taken <= 1 /\ i \in Nat /\ i >= 1
        /\ Occupancy \in Nat /\ i <= Occupancy - Taken
    BY Window
  <2>2. readAt \in Nat /\ writeAt \in Nat /\ readAt < len /\ writeAt < len
        /\ len \in Nat
    BY <2>1 DEF Occupancy, IInv, TypeOK
  <2>. QED BY <2>1, <2>2 DEF Wrap, Occupancy
<1>4. \A i \in 1 .. Occupancy - Taken :
        buf'[Wrap(len, readAt + Taken + i - 1)]
          = buf[Wrap(len, readAt + Taken + i - 1)]
  BY <1>3 DEF Put, IInv, TypeOK
<1>5. len' = len /\ readAt' = readAt
  BY DEF Put
<1>. QED BY <1>2, <1>4, <1>5 DEF Contents, Slice

\* Growing moves the messages behind the insertion together with read_at.
LEMMA GrowContents ==
    ASSUME IInv, NEW t \in Threads, Grow(t)
    PROVE  Contents' = Contents
<1>1. At("r_advance") = {} /\ At("r_advance")' = {}
  BY DEF Grow, GoTo, At, IInv, TypeOK, Locks, HoldsRead
<1>2. Taken = 0 /\ Taken' = 0
  BY <1>1 DEF Taken
<1>3. Growth \in Nat /\ Growth >= 2
  BY QueueAssumption DEF Growth, IInv, TypeOK
<1>4. Occupancy' = Occupancy
  BY <1>3 DEF Grow, Occupancy, IInv, TypeOK
<1>5. ASSUME NEW i \in 1 .. Occupancy
      PROVE  buf'[Wrap(len', readAt' + i - 1)] = buf[Wrap(len, readAt + i - 1)]
  <2>1. Occupancy \in Nat /\ i \in Nat /\ i >= 1 /\ i <= Occupancy
    BY Window
  <2>2. /\ len \in Nat /\ readAt \in Nat /\ writeAt \in Nat
        /\ buf' = Grown(buf, len, writeAt, Growth) /\ len' = len + Growth
        /\ readAt < len /\ writeAt < len
        /\ readAt' = IF readAt > writeAt THEN readAt + Growth ELSE readAt
    BY <2>1 DEF Grow, IInv, TypeOK, Occupancy
  <2>3. CASE readAt <= writeAt
    <3>1. /\ Wrap(len', readAt' + i - 1) = readAt + i - 1
          /\ Wrap(len, readAt + i - 1) = readAt + i - 1
          /\ readAt + i - 1 < writeAt
          /\ readAt + i - 1 \in 0 .. len + Growth - 1
      BY <1>3, <2>1, <2>2, <2>3 DEF Wrap, Occupancy
    <3>. QED BY <2>2, <3>1 DEF Grown
  <2>4. CASE readAt > writeAt /\ readAt + i - 1 < len
    <3>1. /\ Wrap(len', readAt' + i - 1) = readAt + i - 1 + Growth
          /\ Wrap(len, readAt + i - 1) = readAt + i - 1
      BY <1>3, <2>1, <2>2, <2>4 DEF Wrap, Occupancy
    <3>2. /\ readAt + i - 1 + Growth \in 0 .. len + Growth - 1
          /\ ~(readAt + i - 1 + Growth < writeAt + Growth)
          /\ ~(readAt + i - 1 + Growth < writeAt)
          /\ readAt + i - 1 + Growth - Growth = readAt + i - 1
      BY <1>3, <2>1, <2>2, <2>4
    <3>3. \A j \in 0 .. len + Growth - 1 :
            ~(j < writeAt + Growth) /\ ~(j < writeAt)
              => buf'[j] = buf[j - Growth]
      BY <2>2 DEF Grown
    <3>4. buf'[readAt + i - 1 + Growth] = buf[readAt + i - 1 + Growth - Growth]
      BY <1>3, <2>1, <2>2, <3>2, <3>3
    <3>. QED BY <3>1, <3>2, <3>4
  <2>5. CASE readAt > writeAt /\ ~(readAt + i - 1 < len)
    <3>1. /\ Wrap(len', readAt' + i - 1) = readAt + i - 1 - len
          /\ Wrap(len, readAt + i - 1) = readAt + i - 1 - len
          /\ readAt + i - 1 - len < writeAt
          /\ readAt + i - 1 - len \in 0 .. len + Growth - 1
      BY <1>3, <2>1, <2>2, <2>5 DEF Wrap, Occupancy
    <3>. QED BY <2>2, <3>1 DEF Grown
  <2>. QED BY <2>2, <2>3, <2>4, <2>5
<1>6. Contents = Slice(buf, len, readAt, Occupancy)
      /\ Contents' = Slice(buf', len', readAt', Occupancy)
  BY <1>2, <1>4, Window DEF Contents, IInv, TypeOK, Grow
<1>. QED BY <1>5, <1>6 DEF Slice

\* Moving write_at appends the message of the cell it leaves.
LEMMA AdvanceWriteContents ==
    ASSUME IInv, NEW t \in Threads, AdvanceWrite(t)
    PROVE  Contents' = Append(Contents, buf[writeAt])
<1>1. At("r_advance")' = At("r_advance")
  BY DEF AdvanceWrite, GoTo, At, IInv, TypeOK
<1>2. Occupancy' = Occupancy + 1 /\ Occupancy + 1 <= len
  BY DEF AdvanceWrite, Occupancy, IInv, TypeOK, RoomAhead, At, Succ
<1>3. Wrap(len, readAt + Taken + (Occupancy - Taken)) = writeAt
  <2>1. Taken \in Nat /\ Taken <= 1 /\ Occupancy \in Nat
    BY Window
  <2>2. readAt + Taken + (Occupancy - Taken) = readAt + Occupancy
    BY <2>1 DEF IInv, TypeOK
  <2>3. Wrap(len, readAt + Occupancy) = writeAt
    BY <1>2 DEF Wrap, Occupancy, IInv, TypeOK
  <2>. QED BY <2>2, <2>3
<1>4. Contents' = Slice(buf, len, readAt + Taken, Occupancy + 1 - Taken)
  <2>1. Taken' = Taken
    BY <1>1 DEF Taken
  <2>2. buf' = buf /\ len' = len /\ readAt' = readAt
    BY DEF AdvanceWrite
  <2>3. Contents' = Slice(buf', len', readAt' + Taken', Occupancy' - Taken')
    BY DEF Contents
  <2>4. /\ readAt' + Taken' = readAt + Taken
        /\ Occupancy' - Taken' = Occupancy + 1 - Taken
    BY <1>2, <2>1, <2>2, Window DEF IInv, TypeOK
  <2>. QED BY <2>2, <2>3, <2>4
<1>5. /\ Occupancy + 1 - Taken \in Nat /\ Occupancy - Taken \in Nat
      /\ Occupancy + 1 - Taken = (Occupancy - Taken) + 1
      /\ Occupancy + 1 - Taken <= len
      /\ len \in Nat /\ readAt + Taken \in Nat /\ readAt + Taken <= len
      /\ IsRing(buf, len)
  BY <1>2, Window DEF IInv, TypeOK
<1>6. Slice(buf, len, readAt + Taken, Occupancy + 1 - Taken) =
        Append(Slice(buf, len, readAt + Taken, Occupancy - Taken),
               buf[Wrap(len, readAt + Taken + (Occupancy - Taken))])
  BY <1>5, SliceAppend
<1>. QED BY <1>3, <1>4, <1>6 DEF Contents

\* Emptying the cell at read_at takes the oldest message.
LEMMA TakeContents ==
    ASSUME IInv, NEW t \in Threads, Take(t)
    PROVE  /\ Contents # <<>> /\ Head(Contents) = buf[readAt]
           /\ Contents' = Tail(Contents)
<1>1. At("r_advance") = {} /\ t \in At("r_advance")'
  BY DEF Take, GoTo, At, IInv, TypeOK, Locks, HoldsRead
<1>2. Taken = 0 /\ Taken' = 1
  BY <1>1 DEF Taken
<1>3. Occupancy' = Occupancy /\ len' = len /\ readAt' = readAt
  BY DEF Take, Occupancy
<1>4. Occupancy >= 1 /\ readAt < len
  <2>1. t \in Claimed
    BY DEF Take, Claimed
  <2>. QED BY <2>1, ClaimedNotEmpty DEF IInv, TypeOK
<1>5. /\ Occupancy \in Nat /\ Occupancy <= len /\ Occupancy - 1 \in Nat
      /\ Occupancy = (Occupancy - 1) + 1 /\ readAt \in Nat /\ len \in Nat
      /\ readAt + 1 \in Nat /\ IsRing(buf, len) /\ readAt + 0 = readAt
      /\ Occupancy - 0 = Occupancy
  BY <1>4, Window DEF IInv, TypeOK
<1>6. Contents = Slice(buf, len, readAt, Occupancy)
  BY <1>2, <1>5 DEF Contents
<1>7. Contents' = Slice(buf', len, readAt + 1, Occupancy - 1)
  BY <1>2, <1>3 DEF Contents
<1>8. /\ Slice(buf, len, readAt, Occupancy) # <<>>
      /\ Head(Slice(buf, len, readAt, Occupancy)) = buf[readAt]
      /\ Tail(Slice(buf, len, readAt, Occupancy)) =
           Slice(buf, len, readAt + 1, Occupancy - 1)
  <2>a. /\ Slice(buf, len, readAt, Occupancy) # <<>>
        /\ Head(Slice(buf, len, readAt, Occupancy)) = buf[readAt]
    BY <1>4, <1>5, SliceHead
  <2>. DEFINE n == Occupancy - 1
              after == readAt + 1
  <2>1. /\ n \in Nat /\ after \in Nat /\ Occupancy = n + 1
        /\ after = readAt + 1
    BY <1>5
  <2>. HIDE DEF n, after
  <2>2. Tail(Slice(buf, len, readAt, Occupancy)) = Slice(buf, len, after, n)
    BY <1>4, <1>5, <2>1, SliceTail
  <2>. QED BY <2>a, <2>2 DEF n, after
<1>9. Slice(buf', len, readAt + 1, Occupancy - 1) =
        Slice(buf, len, readAt + 1, Occupancy - 1)
  <2>1. ASSUME NEW i \in 1 .. Occupancy - 1
        PROVE  /\ Wrap(len, readAt + 1 + i - 1) # readAt
               /\ Wrap(len, readAt + 1 + i - 1) \in 0 .. len - 1
    BY <1>4, <1>5, Window DEF Wrap, Occupancy, IInv, TypeOK
  <2>2. \A i \in 1 .. Occupancy - 1 :
          buf'[Wrap(len, readAt + 1 + i - 1)]
            = buf[Wrap(len, readAt + 1 + i - 1)]
    BY <2>1 DEF Take, IInv, TypeOK
  <2>. QED BY <2>2 DEF Slice
<1>. QED BY <1>6, <1>7, <1>8, <1>9

\* Moving read_at over the emptied cell changes nothing more.
LEMMA AdvanceReadContents ==
    ASSUME IInv, NEW t \in Threads, AdvanceRead(t)
    PROVE  Contents' = Contents
<1>1. t \in At("r_advance") /\ At("r_advance")' = {}
  BY DEF AdvanceRead, GoTo, At, IInv, TypeOK, Locks, HoldsRead
<1>2. Taken = 1 /\ Taken' = 0
  BY <1>1 DEF Taken
<1>3. readAt # writeAt /\ Occupancy >= 1
  <2>1. t \in Claimed
    BY DEF AdvanceRead, Claimed
  <2>. QED BY <2>1, ClaimedNotEmpty DEF IInv
<1>4. Occupancy' = Occupancy - 1
  BY <1>3 DEF AdvanceRead, Occupancy, IInv, TypeOK, Succ
<1>5. /\ Contents = Slice(buf, len, readAt + 1, Occupancy - 1)
      /\ Contents' = Slice(buf, len, Succ(readAt), Occupancy - 1)
  <2>1. Succ(readAt) + 0 = Succ(readAt) /\ Occupancy - 1 - 0 = Occupancy - 1
    BY Window DEF Succ, IInv, TypeOK
  <2>. QED BY <1>2, <1>4, <2>1 DEF Contents, AdvanceRead
<1>6. ASSUME NEW i \in 1 .. Occupancy - 1
      PROVE  Wrap(len, readAt + 1 + i - 1) = Wrap(len, Succ(readAt) + i - 1)
  BY <1>3, Window DEF Wrap, Succ, IInv, TypeOK
<1>. QED BY <1>5, <1>6 DEF Slice

-----------------------------------------------------------------------------
(* Which call each thread is in. *)

LEMMA HeldInit == Init => NoMessageHeld
BY DEF Init, NoMessageHeld

LEMMA HeldStep == TypeOK /\ NoMessageHeld /\ [Next]_vars => NoMessageHeld'
<1>. SUFFICES ASSUME TypeOK, NoMessageHeld, [Next]_vars PROVE NoMessageHeld'
  OBVIOUS
<1>. /\ Senders \subseteq Threads /\ Receivers \subseteq Threads
     /\ pc \in [Threads -> Steps] /\ msg \in [Threads -> Cell]
  BY QueueAssumption DEF TypeOK
<1>. USE DEF NoMessageHeld, GoTo
<1>1. ASSUME NEW t \in Senders, NEW m \in Messages, BeginSend(t, m)
      PROVE  NoMessageHeld'
  BY <1>1 DEF BeginSend
<1>2. ASSUME NEW t \in Receivers, BeginRecv(t) PROVE NoMessageHeld'
  BY <1>2 DEF BeginRecv
<1>3. ASSUME NEW t \in Threads, LockWrite(t) PROVE NoMessageHeld'
  BY <1>3 DEF LockWrite
<1>4. ASSUME NEW t \in Threads, CheckRoom(t) PROVE NoMessageHeld'
  BY <1>4 DEF CheckRoom
<1>5. ASSUME NEW t \in Threads, LockReadToGrow(t) PROVE NoMessageHeld'
  BY <1>5 DEF LockReadToGrow
<1>6. ASSUME NEW t \in Threads, Grow(t) PROVE NoMessageHeld'
  BY <1>6 DEF Grow
<1>7. ASSUME NEW t \in Threads, Put(t) PROVE NoMessageHeld'
  BY <1>7 DEF Put
<1>8. ASSUME NEW t \in Threads, AdvanceWrite(t) PROVE NoMessageHeld'
  BY <1>8 DEF AdvanceWrite
<1>9. ASSUME NEW t \in Threads, SignalSent(t) PROVE NoMessageHeld'
  BY <1>9 DEF SignalSent
<1>10. ASSUME NEW t \in Threads, AwaitMessage(t) PROVE NoMessageHeld'
  BY <1>10 DEF AwaitMessage
<1>11. ASSUME NEW t \in Threads, LockRead(t) PROVE NoMessageHeld'
  BY <1>11 DEF LockRead
<1>12. ASSUME NEW t \in Threads, Take(t) PROVE NoMessageHeld'
  BY <1>12 DEF Take
<1>13. ASSUME NEW t \in Threads, AdvanceRead(t) PROVE NoMessageHeld'
  BY <1>13 DEF AdvanceRead
<1>14. CASE UNCHANGED vars
  BY <1>14 DEF vars, locals
<1>. QED
  BY <1>1, <1>2, <1>3, <1>4, <1>5, <1>6, <1>7, <1>8, <1>9, <1>10, <1>11,
     <1>12, <1>13, <1>14 DEF Next, SendStep, RecvStep

\* The other threads' calls are as they were, if the step leaves alone their
\* locals and the cell a sender is filling.
LEMMA OneCall ==
    ASSUME TypeOK, NEW t \in Threads,
           \A u \in Threads \ {t} :
               /\ pc'[u] = pc[u] /\ msg'[u] = msg[u]
               /\ pc[u] = "s_advance" => buf'[writeAt'] = buf[writeAt]
    PROVE  AllCalls' = [AllCalls EXCEPT ![t] = CallOf(t)']
<1>1. \A u \in Threads \ {t} : CallOf(u)' = CallOf(u)
  BY DEF CallOf
<1>. QED BY <1>1 DEF AllCalls

\* A step of t that leaves the cells and write_at alone moves only t's call.
LEMMA LocalStep ==
    ASSUME TypeOK, NEW t \in Threads, UNCHANGED <<buf, writeAt>>,
           \A u \in Threads \ {t} : pc'[u] = pc[u] /\ msg'[u] = msg[u]
    PROVE  AllCalls' = [AllCalls EXCEPT ![t] = CallOf(t)']
BY OneCall

\* If t's own call has not moved either, none has.
LEMMA NoCallMoves ==
    ASSUME NEW t \in Threads, CallOf(t)' = CallOf(t),
           AllCalls' = [AllCalls EXCEPT ![t] = CallOf(t)']
    PROVE  AllCalls' = AllCalls
BY DEF AllCalls

-----------------------------------------------------------------------------
(* The refinement.  Only AdvanceWrite and Take change what the queue holds;   *)
(* a call begins and ends with BeginSend, BeginRecv, SignalSent and           *)
(* AdvanceRead; the other steps are invisible from outside.                   *)

LEMMA RefinementInit == Init => Abstract!Init
<1>. SUFFICES ASSUME Init PROVE Abstract!Init
  OBVIOUS
<1>1. Occupancy = 0 /\ At("r_advance") = {}
  BY DEF Init, Occupancy, At
<1>2. Contents = Slice(buf, len, readAt + 0, 0)
  BY <1>1 DEF Contents, Taken
<1>3. Contents = <<>>
  BY <1>2 DEF Slice
<1>4. AllCalls = [t \in Threads |-> [op |-> "none", msg |-> NoMessage]]
  BY DEF Init, AllCalls, CallOf, SendSteps
<1>. QED BY <1>3, <1>4 DEF Abstract!Init, Abstract!Idle

LEMMA RefinementStep ==
    IInv /\ NoMessageHeld /\ [Next]_vars
      => [Abstract!Next]_<<Contents, AllCalls>>
<1>. SUFFICES ASSUME IInv, NoMessageHeld, [Next]_vars
              PROVE  [Abstract!Next]_<<Contents, AllCalls>>
  OBVIOUS
<1>. DEFINE Step == [Abstract!Next]_<<Contents, AllCalls>>
<1>. /\ Senders \subseteq Threads /\ Receivers \subseteq Threads
     /\ pc \in [Threads -> Steps] /\ msg \in [Threads -> Cell] /\ TypeOK
  BY QueueAssumption DEF IInv, TypeOK
<1>. USE DEF GoTo
<1>1. ASSUME NEW t \in Senders, NEW m \in Messages, BeginSend(t, m) PROVE Step
  <2>1. /\ CallOf(t) = [op |-> "none", msg |-> NoMessage]
        /\ CallOf(t)' = [op |-> "send", msg |-> m]
    BY <1>1 DEF BeginSend, CallOf, SendSteps, NoMessageHeld
  <2>2. AllCalls' = [AllCalls EXCEPT ![t] = CallOf(t)']
    BY <1>1, LocalStep DEF BeginSend, ring
  <2>3. At("r_advance")' = At("r_advance")
    BY <1>1 DEF BeginSend, At
  <2>4. Contents' = Contents
    BY <1>1, <2>3, QuietContents DEF BeginSend
  <2>5. AllCalls[t] = CallOf(t)
    BY DEF AllCalls
  <2>6. Abstract!BeginSend(t, m)
    BY <2>1, <2>2, <2>4, <2>5
       DEF Abstract!BeginSend, Abstract!Idle, Abstract!Stage
  <2>. QED BY <2>6 DEF Abstract!Next
<1>2. ASSUME NEW t \in Receivers, BeginRecv(t) PROVE Step
  <2>1. /\ CallOf(t) = [op |-> "none", msg |-> NoMessage]
        /\ CallOf(t)' = [op |-> "recv", msg |-> NoMessage]
    BY <1>2 DEF BeginRecv, CallOf, SendSteps, NoMessageHeld
  <2>2. AllCalls' = [AllCalls EXCEPT ![t] = CallOf(t)']
    BY <1>2, LocalStep DEF BeginRecv, ring
  <2>3. At("r_advance")' = At("r_advance")
    BY <1>2 DEF BeginRecv, At
  <2>4. Contents' = Contents
    BY <1>2, <2>3, QuietContents DEF BeginRecv
  <2>5. AllCalls[t] = CallOf(t)
    BY DEF AllCalls
  <2>6. Abstract!BeginRecv(t)
    BY <2>1, <2>2, <2>4, <2>5
       DEF Abstract!BeginRecv, Abstract!Idle, Abstract!Stage
  <2>. QED BY <2>6 DEF Abstract!Next
<1>3. ASSUME NEW t \in Threads, LockWrite(t) PROVE Step
  <2>1. CallOf(t)' = CallOf(t)
    BY <1>3 DEF LockWrite, CallOf, SendSteps
  <2>2. AllCalls' = [AllCalls EXCEPT ![t] = CallOf(t)']
    BY <1>3, LocalStep DEF LockWrite, ring
  <2>3. At("r_advance")' = At("r_advance")
    BY <1>3 DEF LockWrite, At
  <2>. QED
    BY <1>3, <2>1, <2>2, <2>3, NoCallMoves, QuietContents DEF LockWrite
<1>4. ASSUME NEW t \in Threads, CheckRoom(t) PROVE Step
  <2>1. CallOf(t)' = CallOf(t)
    BY <1>4 DEF CheckRoom, CallOf, SendSteps
  <2>2. AllCalls' = [AllCalls EXCEPT ![t] = CallOf(t)']
    BY <1>4, LocalStep DEF CheckRoom, ring
  <2>3. At("r_advance")' = At("r_advance")
    BY <1>4 DEF CheckRoom, At
  <2>. QED
    BY <1>4, <2>1, <2>2, <2>3, NoCallMoves, QuietContents DEF CheckRoom
<1>5. ASSUME NEW t \in Threads, LockReadToGrow(t) PROVE Step
  <2>1. CallOf(t)' = CallOf(t)
    BY <1>5 DEF LockReadToGrow, CallOf, SendSteps
  <2>2. AllCalls' = [AllCalls EXCEPT ![t] = CallOf(t)']
    BY <1>5, LocalStep DEF LockReadToGrow, ring
  <2>3. At("r_advance")' = At("r_advance")
    BY <1>5 DEF LockReadToGrow, At
  <2>. QED
    BY <1>5, <2>1, <2>2, <2>3, NoCallMoves, QuietContents DEF LockReadToGrow
<1>6. ASSUME NEW t \in Threads, Grow(t) PROVE Step
  <2>1. CallOf(t)' = CallOf(t)
    BY <1>6 DEF Grow, CallOf, SendSteps
  <2>2. \A u \in Threads \ {t} :
          pc'[u] = pc[u] /\ msg'[u] = msg[u] /\ pc[u] # "s_advance"
    BY <1>6, OneWriter DEF Grow, IInv, HoldsWrite
  <2>3. AllCalls' = [AllCalls EXCEPT ![t] = CallOf(t)']
    BY <2>2, OneCall
  <2>. QED BY <1>6, <2>1, <2>3, NoCallMoves, GrowContents
<1>7. ASSUME NEW t \in Threads, Put(t) PROVE Step
  <2>1. writeAt \in 0 .. len - 1
    BY <1>7 DEF Put, IInv, RoomAhead, At, TypeOK
  <2>2. buf'[writeAt] = msg[t]
    BY <1>7, <2>1 DEF Put, TypeOK
  <2>3. CallOf(t)' = CallOf(t)
    BY <1>7, <2>2 DEF Put, CallOf, SendSteps
  <2>4. \A u \in Threads \ {t} :
          pc'[u] = pc[u] /\ msg'[u] = msg[u] /\ pc[u] # "s_advance"
    BY <1>7, OneWriter DEF Put, IInv, HoldsWrite
  <2>5. AllCalls' = [AllCalls EXCEPT ![t] = CallOf(t)']
    BY <2>4, OneCall
  <2>. QED BY <1>7, <2>3, <2>5, NoCallMoves, PutContents
<1>8. ASSUME NEW t \in Threads, AdvanceWrite(t) PROVE Step
  <2>1. /\ CallOf(t) = [op |-> "send", msg |-> buf[writeAt]]
        /\ CallOf(t)' = [op |-> "sent", msg |-> NoMessage]
    BY <1>8 DEF AdvanceWrite, CallOf, SendSteps, NoMessageHeld
  <2>2. \A u \in Threads \ {t} :
          pc'[u] = pc[u] /\ msg'[u] = msg[u] /\ pc[u] # "s_advance"
    BY <1>8, OneWriter DEF AdvanceWrite, IInv, HoldsWrite
  <2>3. AllCalls' = [AllCalls EXCEPT ![t] = CallOf(t)']
    BY <2>2, OneCall
  <2>4. Contents' = Append(Contents, buf[writeAt])
    BY <1>8, AdvanceWriteContents
  <2>5. AllCalls[t] = CallOf(t)
    BY DEF AllCalls
  <2>6. Abstract!Enqueue(t)
    BY <2>1, <2>3, <2>4, <2>5 DEF Abstract!Enqueue, Abstract!Stage
  <2>. QED BY <2>6 DEF Abstract!Next
<1>9. ASSUME NEW t \in Threads, SignalSent(t) PROVE Step
  <2>1. /\ CallOf(t) = [op |-> "sent", msg |-> NoMessage]
        /\ CallOf(t)' = [op |-> "none", msg |-> NoMessage]
    BY <1>9 DEF SignalSent, CallOf, SendSteps, NoMessageHeld
  <2>2. AllCalls' = [AllCalls EXCEPT ![t] = CallOf(t)']
    BY <1>9, LocalStep DEF SignalSent, ring
  <2>3. At("r_advance")' = At("r_advance")
    BY <1>9 DEF SignalSent, At
  <2>4. Contents' = Contents
    BY <1>9, <2>3, QuietContents DEF SignalSent
  <2>5. AllCalls[t] = CallOf(t)
    BY DEF AllCalls
  <2>6. Abstract!Return(t)
    BY <2>1, <2>2, <2>4, <2>5 DEF Abstract!Return, Abstract!Stage
  <2>. QED BY <2>6 DEF Abstract!Next
<1>10. ASSUME NEW t \in Threads, AwaitMessage(t) PROVE Step
  <2>1. CallOf(t)' = CallOf(t)
    BY <1>10 DEF AwaitMessage, CallOf, SendSteps
  <2>2. AllCalls' = [AllCalls EXCEPT ![t] = CallOf(t)']
    BY <1>10, LocalStep DEF AwaitMessage, ring
  <2>3. At("r_advance")' = At("r_advance")
    BY <1>10 DEF AwaitMessage, At
  <2>. QED
    BY <1>10, <2>1, <2>2, <2>3, NoCallMoves, QuietContents DEF AwaitMessage
<1>11. ASSUME NEW t \in Threads, LockRead(t) PROVE Step
  <2>1. CallOf(t)' = CallOf(t)
    BY <1>11 DEF LockRead, CallOf, SendSteps
  <2>2. AllCalls' = [AllCalls EXCEPT ![t] = CallOf(t)']
    BY <1>11, LocalStep DEF LockRead, ring
  <2>3. At("r_advance")' = At("r_advance")
    BY <1>11 DEF LockRead, At
  <2>. QED
    BY <1>11, <2>1, <2>2, <2>3, NoCallMoves, QuietContents DEF LockRead
<1>12. ASSUME NEW t \in Threads, Take(t) PROVE Step
  <2>1. readAt \in 0 .. len - 1 /\ readAt # writeAt
    <3>1. t \in Claimed
      BY <1>12 DEF Take, Claimed
    <3>. QED BY <3>1, ClaimedNotEmpty DEF IInv, TypeOK
  <2>2. buf'[writeAt] = buf[writeAt]
    <3>1. CASE writeAt \in DOMAIN buf
      BY <1>12, <2>1, <3>1 DEF Take
    <3>2. CASE writeAt \notin DOMAIN buf
      BY <2>1, <3>2 DEF TypeOK
    <3>. QED BY <3>1, <3>2
  <2>3. /\ CallOf(t) = [op |-> "recv", msg |-> NoMessage]
        /\ CallOf(t)' = [op |-> "received", msg |-> buf[readAt]]
    BY <1>12 DEF Take, CallOf, SendSteps, NoMessageHeld
  <2>4. AllCalls' = [AllCalls EXCEPT ![t] = CallOf(t)']
    BY <1>12, <2>2, OneCall DEF Take
  <2>5. /\ Contents # <<>> /\ Head(Contents) = buf[readAt]
        /\ Contents' = Tail(Contents)
    BY <1>12, TakeContents
  <2>6. AllCalls[t] = CallOf(t)
    BY DEF AllCalls
  <2>7. Abstract!Dequeue(t)
    <3>1. AllCalls[t].op = "recv"
      BY <2>3, <2>6
    <3>2. AllCalls' = [AllCalls EXCEPT
                          ![t] = [op |-> "received", msg |-> Head(Contents)]]
      BY <2>3, <2>4, <2>5
    <3>. QED BY <2>5, <3>1, <3>2 DEF Abstract!Dequeue, Abstract!Stage
  <2>. QED BY <2>7 DEF Abstract!Next
<1>13. ASSUME NEW t \in Threads, AdvanceRead(t) PROVE Step
  <2>1. /\ CallOf(t).op = "received"
        /\ CallOf(t)' = [op |-> "none", msg |-> NoMessage]
    BY <1>13 DEF AdvanceRead, CallOf, SendSteps
  <2>2. AllCalls' = [AllCalls EXCEPT ![t] = CallOf(t)']
    BY <1>13, LocalStep DEF AdvanceRead
  <2>3. Contents' = Contents
    BY <1>13, AdvanceReadContents
  <2>4. AllCalls[t] = CallOf(t)
    BY DEF AllCalls
  <2>5. Abstract!Return(t)
    BY <2>1, <2>2, <2>3, <2>4 DEF Abstract!Return, Abstract!Stage
  <2>. QED BY <2>5 DEF Abstract!Next
<1>14. CASE UNCHANGED vars
  BY <1>14 DEF vars, ring, locals, Contents, Occupancy, Taken, At, AllCalls,
     CallOf
<1>. QED
  BY <1>1, <1>2, <1>3, <1>4, <1>5, <1>6, <1>7, <1>8, <1>9, <1>10, <1>11,
     <1>12, <1>13, <1>14 DEF Next, SendStep, RecvStep

LEMMA Held == Spec => []NoMessageHeld
<1>1. IInv /\ NoMessageHeld /\ [Next]_vars => NoMessageHeld'
  BY HeldStep DEF IInv
<1>. QED BY <1>1, HeldInit, Invariant, PTL DEF Spec

\* queue_t is a linearisable FIFO (queue.cpp:5-39): whatever its senders and
\* receivers do, there is an order of their calls, each between its start and
\* its end, in which every recv returns the oldest message sent and not yet
\* received, and the ring may grow at any time without disturbing it.
THEOREM QueueImplementsFifo == Spec => FifoSpec
BY RefinementInit, RefinementStep, Invariant, Held, PTL
   DEF Spec, FifoSpec, Abstract!Spec
-----------------------------------------------------------------------------
(* The client of the test.  The semaphore's count is the number of calls of  *)
(* send that signalled less the number of calls of recv that passed the      *)
(* wait; as sets of calls both are finite, and when the test has ended one   *)
(* is the mirror image of the other.                                         *)

Numbers == 0 .. Total - 1

\* The calls, by thread and number, that have taken their effect on the
\* semaphore: sends that signalled and receives that passed the wait.
Signalled ==
    {c \in Threads \X Numbers :
        /\ Sends(c[2])
        /\ \/ c[2] + 1 < calls[c[1]]
           \/ c[2] + 1 = calls[c[1]] /\ pc[c[1]] = "idle"}

Awaited ==
    {c \in Threads \X Numbers :
        /\ ~Sends(c[2])
        /\ \/ c[2] + 1 < calls[c[1]]
           \/ c[2] + 1 = calls[c[1]] /\ pc[c[1]] # "r_wait"}

\* A thread inside a call is in the one it began last.
InCall ==
    /\ calls \in [Threads -> 0 .. Total]
    /\ \A t \in Threads : pc[t] # "idle" =>
          /\ calls[t] > 0
          /\ pc[t] \in {"s_signal"} \union SendSteps <=> Sends(calls[t] - 1)

Balanced == sem + Cardinality(Awaited) = Cardinality(Signalled)

TestInv == TypeOK /\ InCall /\ Balanced

LEMMA TotalNat == Total \in Nat /\ Preload \in Nat /\ Rounds \in Nat
BY TestAssumption DEF Total

LEMMA CallsFinite ==
    /\ IsFiniteSet(Threads \X Numbers)
    /\ IsFiniteSet(Signalled) /\ Cardinality(Signalled) \in Nat
    /\ IsFiniteSet(Awaited) /\ Cardinality(Awaited) \in Nat
<1>1. 0 \in Int /\ Total - 1 \in Int
  BY TotalNat
<1>2. IsFiniteSet(Numbers)
  BY <1>1, FS_Interval DEF Numbers
<1>3. IsFiniteSet(Threads \X Numbers)
  BY <1>2, FS_Product, QueueAssumption
<1>4. /\ Signalled \in SUBSET (Threads \X Numbers)
      /\ Awaited \in SUBSET (Threads \X Numbers)
  BY DEF Signalled, Awaited
<1>5. IsFiniteSet(Signalled) /\ IsFiniteSet(Awaited)
  BY <1>3, <1>4, FS_Subset
<1>. QED BY <1>3, <1>5, FS_CardinalityType

LEMMA TestInvInit == TestInit => TestInv
<1>. SUFFICES ASSUME TestInit PROVE TestInv
  OBVIOUS
<1>1. TypeOK
  BY TypeInit DEF TestInit
<1>2. InCall
  BY TotalNat DEF TestInit, Init, InCall
<1>3. Signalled = {} /\ Awaited = {}
  BY TotalNat DEF TestInit, Signalled, Awaited, Numbers
<1>4. Balanced
  BY <1>3, FS_EmptySet DEF Balanced, TestInit, Init
<1>. QED BY <1>1, <1>2, <1>4 DEF TestInv

\* A step that leaves the semaphore alone signals and awaits nothing.
LEMMA BeginCallKeeps ==
    ASSUME TestInv, NEW t \in Threads, BeginCall(t)
    PROVE  InCall' /\ Balanced'
<1>1. /\ calls[t] < Total /\ calls' = [calls EXCEPT ![t] = @ + 1]
      /\ pc[t] = "idle" /\ sem' = sem
      /\ pc' = [pc EXCEPT ![t] = IF Sends(calls[t]) THEN "s_lock" ELSE "r_wait"]
      /\ calls \in [Threads -> 0 .. Total] /\ pc \in [Threads -> Steps]
  <2>1. calls \in [Threads -> 0 .. Total] /\ pc \in [Threads -> Steps]
    BY DEF TestInv, InCall, TypeOK
  <2>2. calls[t] < Total /\ calls' = [calls EXCEPT ![t] = @ + 1]
    BY DEF BeginCall
  <2>3. CASE Sends(calls[t])
    BY <2>1, <2>2, <2>3 DEF BeginCall, BeginSend
  <2>4. CASE ~Sends(calls[t])
    BY <2>1, <2>2, <2>4 DEF BeginCall, BeginRecv
  <2>. QED BY <2>3, <2>4
<1>2. calls[t] \in Nat /\ Total \in Nat
  BY <1>1, TotalNat
<1>3. \A u \in Threads :
         /\ calls'[u] = IF u = t THEN calls[u] + 1 ELSE calls[u]
         /\ pc'[u] = IF u = t THEN IF Sends(calls[t]) THEN "s_lock" ELSE "r_wait"
                     ELSE pc[u]
  BY <1>1
<1>4. calls' \in [Threads -> 0 .. Total]
  BY <1>1, <1>2
<1>5. InCall'
  <2>1. ASSUME NEW u \in Threads, pc'[u] # "idle"
        PROVE  /\ calls'[u] > 0
               /\ pc'[u] \in {"s_signal"} \union SendSteps <=> Sends(calls'[u] - 1)
    <3>1. CASE u = t
      <4>1. calls'[u] - 1 = calls[t] /\ calls'[u] > 0
        BY <3>1, <1>2, <1>3
      <4>2. pc'[u] \in {"s_signal"} \union SendSteps <=> Sends(calls[t])
        <5>1. CASE Sends(calls[t])
          BY <3>1, <1>3, <5>1
        <5>2. CASE ~Sends(calls[t])
          BY <3>1, <1>3, <5>2
        <5>. QED BY <5>1, <5>2
      <4>. QED BY <4>1, <4>2
    <3>2. CASE u # t
      BY <3>2, <2>1, <1>3 DEF TestInv, InCall
    <3>. QED BY <3>1, <3>2
  <2>. QED BY <1>4, <2>1 DEF InCall
<1>6. Signalled' = Signalled /\ Awaited' = Awaited
  <2>1. ASSUME NEW u \in Threads, NEW n \in Numbers
        PROVE  /\ Sends(n) => (n + 1 < calls'[u] \/ (n + 1 = calls'[u] /\ pc'[u] = "idle")
                               <=> n + 1 < calls[u] \/ (n + 1 = calls[u] /\ pc[u] = "idle"))
               /\ ~Sends(n) => (n + 1 < calls'[u] \/ (n + 1 = calls'[u] /\ pc'[u] # "r_wait")
                               <=> n + 1 < calls[u] \/ (n + 1 = calls[u] /\ pc[u] # "r_wait"))
    <3>1. CASE u = t
      <4>1. n \in Nat /\ calls'[u] = calls[t] + 1 /\ pc'[u] # "idle" /\ pc[u] = "idle"
        BY <3>1, <1>1, <1>3, TotalNat DEF Numbers
      <4>2. n + 1 = calls'[u] => n = calls[t]
        BY <4>1, <1>2
      <4>3. n + 1 < calls'[u] <=> n + 1 <= calls[u]
        BY <4>1, <1>2, <3>1
      <4>. QED BY <4>1, <4>2, <4>3, <3>1, <1>2, <1>3
    <3>2. CASE u # t
      BY <3>2, <1>3
    <3>. QED BY <3>1, <3>2
  <2>. QED BY <2>1 DEF Signalled, Awaited, Numbers, Total, Sends
<1>7. Balanced'
  BY <1>1, <1>6 DEF TestInv, Balanced
<1>. QED BY <1>5, <1>7

\* The other steps of a call, and the point it has got to.
LEMMA LaterStep ==
    ASSUME TestInv, NEW t \in Threads, SendStep(t) \/ RecvStep(t), UNCHANGED calls
    PROVE  /\ pc[t] # "idle" /\ pc' = [pc EXCEPT ![t] = pc'[t]]
           /\ \/ pc'[t] = "idle"
              \/ pc'[t] \in {"s_signal"} \union SendSteps
                    <=> pc[t] \in {"s_signal"} \union SendSteps
           /\ pc[t] = "s_signal" => SignalSent(t) /\ pc'[t] = "idle"
           /\ pc[t] = "r_wait" => AwaitMessage(t) /\ pc'[t] = "r_lock"
           /\ pc[t] \notin {"s_signal", "r_wait"} => sem' = sem
           /\ pc[t] \in SendSteps => pc'[t] # "idle"
           /\ pc'[t] # "r_wait"
<1>. pc \in [Threads -> Steps]
  BY DEF TestInv, TypeOK
<1>1. CASE SendStep(t)
  BY <1>1 DEF SendStep, LockWrite, CheckRoom, LockReadToGrow, Grow, Put, AdvanceWrite,
     SignalSent
<1>2. CASE RecvStep(t)
  BY <1>2 DEF RecvStep, AwaitMessage, LockRead, Take, AdvanceRead
<1>. QED BY <1>1, <1>2

LEMMA LaterKeeps ==
    ASSUME TestInv, NEW t \in Threads, SendStep(t) \/ RecvStep(t), UNCHANGED calls
    PROVE  InCall' /\ Balanced'
<1>1. /\ calls \in [Threads -> 0 .. Total] /\ pc \in [Threads -> Steps]
      /\ calls[t] \in Nat /\ calls[t] > 0 /\ Total \in Nat /\ calls[t] <= Total
      /\ pc[t] \in {"s_signal"} \union SendSteps <=> Sends(calls[t] - 1)
  BY LaterStep, TotalNat DEF TestInv, TypeOK, InCall
<1>2. \A u \in Threads : u # t => pc'[u] = pc[u]
  BY LaterStep, <1>1
<1>3. InCall'
  BY LaterStep, <1>1, <1>2 DEF TestInv, InCall
<1>. DEFINE c == <<t, calls[t] - 1>>
<1>4. /\ c \in Threads \X Numbers /\ c[1] = t /\ c[2] = calls[t] - 1
      /\ c[2] + 1 = calls[t] /\ ~(c[2] + 1 < calls[t])
  BY <1>1 DEF Numbers
<1>5. \A d \in Threads \X Numbers :
         d = c \/ d[1] # t \/ d[2] + 1 # calls[t]
  BY <1>1 DEF Numbers
<1>6. \A d \in (Threads \X Numbers) \ {c} :
         /\ d \in Signalled' <=> d \in Signalled
         /\ d \in Awaited' <=> d \in Awaited
  <2>1. ASSUME NEW d \in (Threads \X Numbers) \ {c}
        PROVE  /\ d \in Signalled' <=> d \in Signalled
               /\ d \in Awaited' <=> d \in Awaited
    <3>1. CASE d[1] = t
      <4>1. d[2] + 1 # calls[t]
        BY <3>1, <1>5
      <4>. QED BY <4>1, <3>1 DEF Signalled, Awaited, Sends, Numbers, Total
    <3>2. CASE d[1] # t
      <4>1. pc'[d[1]] = pc[d[1]]
        BY <3>2, <1>2
      <4>. QED BY <4>1 DEF Signalled, Awaited, Sends, Numbers, Total
    <3>. QED BY <3>1, <3>2
  <2>. QED BY <2>1
<1>7. /\ Signalled \subseteq Threads \X Numbers /\ Awaited \subseteq Threads \X Numbers
      /\ Signalled' \subseteq Threads \X Numbers /\ Awaited' \subseteq Threads \X Numbers
  BY DEF Signalled, Awaited, Numbers, Total
<1>8. /\ c \in Signalled <=> Sends(calls[t] - 1) /\ pc[t] = "idle"
      /\ c \in Awaited <=> ~Sends(calls[t] - 1) /\ pc[t] # "r_wait"
  BY <1>4 DEF Signalled, Awaited
<1>9. /\ c \in Signalled' <=> Sends(calls[t] - 1) /\ pc'[t] = "idle"
      /\ c \in Awaited' <=> ~Sends(calls[t] - 1) /\ pc'[t] # "r_wait"
  BY <1>4 DEF Signalled, Awaited, Sends, Numbers, Total
<1>. HIDE DEF c
<1>a. /\ sem \in Nat /\ sem + Cardinality(Awaited) = Cardinality(Signalled)
      /\ IsFiniteSet(Signalled) /\ Cardinality(Signalled) \in Nat
      /\ IsFiniteSet(Awaited) /\ Cardinality(Awaited) \in Nat
  BY CallsFinite DEF TestInv, Balanced, TypeOK
<1>b. Cardinality(Signalled \union {c}) = IF c \in Signalled THEN Cardinality(Signalled)
                                          ELSE Cardinality(Signalled) + 1
  BY <1>a, FS_AddElement
<1>c. Cardinality(Awaited \union {c}) = IF c \in Awaited THEN Cardinality(Awaited)
                                        ELSE Cardinality(Awaited) + 1
  BY <1>a, FS_AddElement
<1>d. CASE pc[t] = "s_signal"
  <2>1. SignalSent(t) /\ pc'[t] = "idle" /\ sem' = sem + 1
    BY <1>d, LaterStep DEF SignalSent, Tokens!Signal
  <2>2. c \notin Signalled /\ c \in Signalled' /\ c \notin Awaited /\ c \notin Awaited'
    BY <1>d, <2>1, <1>1, <1>8, <1>9
  <2>3. Signalled' = Signalled \union {c} /\ Awaited' = Awaited
    BY <2>2, <1>6, <1>7
  <2>. QED BY <2>1, <2>2, <2>3, <1>3, <1>a, <1>b DEF Balanced
<1>e. CASE pc[t] = "r_wait"
  <2>1. AwaitMessage(t) /\ pc'[t] = "r_lock" /\ sem > 0 /\ sem' = sem - 1
    BY <1>e, LaterStep DEF AwaitMessage, Tokens!Wait
  <2>2. c \notin Signalled /\ c \notin Signalled' /\ c \notin Awaited /\ c \in Awaited'
    BY <1>e, <2>1, <1>1, <1>8, <1>9
  <2>3. Awaited' = Awaited \union {c}
    BY <2>2, <1>6, <1>7
  <2>4. Signalled' = Signalled
    <3>1. c \notin Signalled /\ c \notin Signalled'
      BY <2>2
    <3>2. \A d \in (Threads \X Numbers) \ {c} : d \in Signalled' <=> d \in Signalled
      BY <1>6
    <3>3. \A d : d \in Signalled' <=> d \in Signalled
      BY <3>1, <3>2, <1>7
    <3>. QED BY <3>3, Zenon
  <2>. QED BY <2>1, <2>2, <2>3, <2>4, <1>3, <1>a, <1>c DEF Balanced
<1>f. CASE pc[t] \notin {"s_signal", "r_wait"}
  <2>1. sem' = sem
    BY <1>f, LaterStep
  <2>2. (c \in Signalled' <=> c \in Signalled) /\ (c \in Awaited' <=> c \in Awaited)
    <3>1. pc[t] # "idle" /\ pc[t] # "r_wait" /\ pc'[t] # "r_wait"
      BY <1>f, LaterStep
    <3>2. ~Sends(calls[t] - 1) \/ pc'[t] # "idle"
      BY <1>f, <1>1, LaterStep
    <3>. QED BY <3>1, <3>2, <1>8, <1>9
  <2>3. Signalled' = Signalled /\ Awaited' = Awaited
    BY <2>2, <1>6, <1>7
  <2>. QED BY <2>1, <2>3, <1>3, <1>a DEF Balanced
<1>. QED BY <1>d, <1>e, <1>f

\* The client's steps are steps of the queue, if it may send and receive.
LEMMA TestStepIsStep ==
    ASSUME Senders = Threads, Receivers = Threads, [TestNext]_testVars
    PROVE  [Next]_vars
<1>1. Pineapple \in Messages /\ Cherry \in Messages
  BY TestAssumption
<1>2. ASSUME NEW t \in Threads, BeginCall(t) PROVE Next
  BY <1>1, <1>2 DEF BeginCall, Next
<1>3. ASSUME NEW t \in Threads, SendStep(t) \/ RecvStep(t) PROVE Next
  BY <1>3 DEF Next
<1>4. CASE UNCHANGED testVars
  BY <1>4 DEF testVars, vars
<1>. QED BY <1>2, <1>3, <1>4 DEF TestNext, TestStep, TestEnd

LEMMA TestInvStep ==
    ASSUME Senders = Threads, Receivers = Threads, IInv, TestInv, [TestNext]_testVars
    PROVE  TestInv'
<1>1. TypeOK'
  BY TestStepIsStep, InvariantStep DEF IInv
<1>2. CASE UNCHANGED testVars
  BY <1>1, <1>2 DEF testVars, vars, TestInv, InCall, Balanced, Signalled, Awaited,
     Sends, Numbers, Total
<1>3. ASSUME NEW t \in Threads, TestStep(t) PROVE InCall' /\ Balanced'
  BY <1>3, BeginCallKeeps, LaterKeeps DEF TestStep
<1>. QED BY <1>1, <1>2, <1>3 DEF TestNext, TestEnd, TestInv

\* A thread's first call is a send, its last a receive, and so on towards the
\* middle: there are as many of both.
LEMMA Mirror ==
    ASSUME NEW n \in Numbers
    PROVE  Total - 1 - n \in Numbers /\ (Sends(Total - 1 - n) <=> ~Sends(n))
<1>1. n \in Nat /\ n < Total
  BY TotalNat DEF Numbers
<1>2. Total = Preload + 2 * Rounds + Preload
  BY DEF Total
<1>3. CASE n < Preload
  BY <1>1, <1>2, <1>3, TotalNat DEF Sends, Numbers
<1>4. CASE n >= Preload + 2 * Rounds
  BY <1>1, <1>2, <1>4, TotalNat DEF Sends, Numbers
<1>5. CASE n >= Preload /\ n < Preload + 2 * Rounds
  <2>1. PICK k \in Nat : k = n - Preload
    BY <1>1, <1>5, TotalNat
  <2>2. Total - 1 - n - Preload = 2 * Rounds - 1 - k
    BY <1>1, <1>2, <2>1, TotalNat
  <2>3. (2 * Rounds - 1 - k) % 2 = 0 <=> k % 2 # 0
    BY <2>1, TotalNat
  <2>. QED BY <1>1, <1>2, <1>5, <2>1, <2>2, <2>3, TotalNat DEF Sends, Numbers
<1>. QED BY <1>1, <1>3, <1>4, <1>5, TotalNat

LEMMA AsManyReceived ==
    ASSUME InCall, \A t \in Threads : Finished(t)
    PROVE  Cardinality(Signalled) = Cardinality(Awaited)
<1>1. Signalled = {c \in Threads \X Numbers : Sends(c[2])}
  BY TotalNat DEF Signalled, Finished, Numbers
<1>2. Awaited = {c \in Threads \X Numbers : ~Sends(c[2])}
  BY TotalNat DEF Awaited, Finished, Numbers
<1>. DEFINE f == [c \in Signalled |-> <<c[1], Total - 1 - c[2]>>]
<1>3. \A c \in Signalled : f[c] \in Awaited
  BY <1>1, <1>2, Mirror
<1>4. \A c, d \in Signalled : f[c] = f[d] => c = d
  BY <1>1, TotalNat DEF Numbers
<1>5. \A d \in Awaited : \E c \in Signalled : f[c] = d
  <2>1. ASSUME NEW d \in Awaited PROVE \E c \in Signalled : f[c] = d
    <3>1. d \in Threads \X Numbers /\ ~Sends(d[2]) /\ d = <<d[1], d[2]>>
      BY <1>2
    <3>2. <<d[1], Total - 1 - d[2]>> \in Signalled
      BY <1>1, <3>1, Mirror
    <3>3. Total - 1 - (Total - 1 - d[2]) = d[2]
      BY <3>1, TotalNat DEF Numbers
    <3>. QED BY <3>1, <3>2, <3>3
  <2>. QED BY <2>1
<1>6. f \in [Signalled -> Awaited]
  BY <1>3
<1>. HIDE DEF f
<1>7. f \in Bijection(Signalled, Awaited)
  BY <1>4, <1>5, <1>6 DEF Bijection, Injection, Surjection, IsInjective
<1>8. ExistsBijection(Signalled, Awaited)
  BY <1>7 DEF ExistsBijection
<1>. QED BY <1>8, CallsFinite, FS_Bijection

LEMMA EmptyAtEnd ==
    ASSUME TypeOK, InCall, Balanced, TokensMatch, CellsMatch,
           \A t \in Threads : Finished(t)
    PROVE  Occupancy = 0 /\ sem = 0 /\ \A i \in 0 .. len - 1 : buf[i] = NoMessage
<1>1. sem \in Nat /\ sem = 0
  BY AsManyReceived, CallsFinite DEF Balanced, TypeOK
<1>2. Claimed = {} /\ \A step \in Steps : step # "idle" => At(step) = {}
  BY DEF Finished, Claimed, At
<1>3. Occupancy = 0
  BY <1>1, <1>2, FS_EmptySet DEF TokensMatch
<1>4. readAt = writeAt
  BY <1>3 DEF Occupancy, TypeOK
<1>5. \A i \in 0 .. len - 1 : ~Occupied(i)
  BY <1>4 DEF Occupied, TypeOK
<1>. QED BY <1>1, <1>2, <1>3, <1>5 DEF CellsMatch

\* NothingLeft: when the test has ended every message was received and every
\* token consumed, for any number of threads and rounds (queue.cpp:44-74).
THEOREM NothingLeftCorrect ==
    ASSUME Senders = Threads, Receivers = Threads
    PROVE  TestSpec => []NothingLeft
<1>1. TestInit => Init
  BY DEF TestInit
<1>2. [TestNext]_testVars => [Next]_vars
  BY TestStepIsStep
<1>3. TestSpec => Spec
  BY <1>1, <1>2, PTL DEF TestSpec, Spec
<1>4. IInv /\ TestInv /\ [TestNext]_testVars => TestInv'
  BY TestInvStep
<1>5. IInv /\ TestInv /\ CellsMatch => NothingLeft
  BY EmptyAtEnd DEF IInv, TestInv, NothingLeft
<1>. QED BY <1>3, <1>4, <1>5, TestInvInit, Invariant, CellsCorrect, PTL DEF TestSpec

-----------------------------------------------------------------------------
(* The test never stops before its end.  Whoever holds a mutex can go on, at *)
(* the latest when read_mut is free, so all would have to wait for messages; *)
(* but every receive of a thread has a send of its own before it, and the    *)
(* sends are more than the receives that have got a token.                   *)

\* What keeps a thread inside the library: a mutex that another one holds, or
\* a semaphore without tokens.
Waits(t) ==
    \/ pc[t] = "s_lock" /\ writeMut # {}
    \/ pc[t] \in {"s_full", "r_lock"} /\ readMut # {}
    \/ pc[t] = "r_wait" /\ sem = 0

\* No deadlock, however many threads and rounds: until all have finished, some
\* thread waits for nothing (queue.cpp:5-39 under the client of 44-74).
NotStuck ==
    (\A t \in Threads : Finished(t)) \/ \E t \in Threads : ~Finished(t) /\ ~Waits(t)

\* The send that comes with a thread's receive.
Sent(n) == IF n < Preload + 2 * Rounds THEN n - 1 ELSE Total - 1 - n

LEMMA SentBefore ==
    ASSUME NEW n \in Numbers, ~Sends(n)
    PROVE  Sent(n) \in Numbers /\ Sent(n) < n /\ Sends(Sent(n))
<1>1. n \in Nat /\ n < Total /\ n >= Preload /\ Total = Preload + 2 * Rounds + Preload
  BY TotalNat DEF Numbers, Sends, Total
<1>2. CASE n < Preload + 2 * Rounds
  <2>1. PICK k \in Nat : k = n - Preload
    BY <1>1, TotalNat
  <2>2. k % 2 # 0
    BY <2>1, <1>2 DEF Sends
  <2>3. k > 0 /\ (k - 1) % 2 = 0
    BY <2>1, <2>2
  <2>4. n - 1 - Preload = k - 1 /\ n - 1 \in Nat /\ n - 1 < Preload + 2 * Rounds
    BY <2>1, <2>3, <1>1, <1>2, TotalNat
  <2>5. Sends(n - 1)
    BY <2>3, <2>4 DEF Sends
  <2>. QED BY <2>4, <2>5, <1>1, <1>2, TotalNat DEF Sent, Numbers
<1>3. CASE n >= Preload + 2 * Rounds
  <2>1. Sent(n) = Total - 1 - n
    BY <1>1, <1>3, TotalNat DEF Sent
  <2>2. Sent(n) \in Nat /\ Sent(n) < Preload
    BY <2>1, <1>1, <1>3, TotalNat
  <2>. QED BY <2>2, <1>1, TotalNat DEF Sends, Numbers
<1>. QED BY <1>1, <1>2, <1>3, TotalNat

LEMMA SentDiffers ==
    ASSUME NEW n \in Numbers, NEW o \in Numbers, ~Sends(n), ~Sends(o),
           Sent(n) = Sent(o)
    PROVE  n = o
<1>1. /\ n \in Nat /\ n < Total /\ n >= Preload
      /\ o \in Nat /\ o < Total /\ o >= Preload
      /\ Total = Preload + 2 * Rounds + Preload
  BY TotalNat DEF Numbers, Sends, Total
<1>2. (n # Preload /\ o # Preload) \/ Rounds = 0
  BY <1>1, TotalNat DEF Sends
<1>. QED BY <1>1, <1>2, TotalNat DEF Sent

\* Threads that wait for messages lack more than there are.
LEMMA SomeTokenLeft ==
    ASSUME TypeOK, InCall, Balanced, \A t \in Threads : Finished(t) \/ pc[t] = "r_wait",
           NEW w \in Threads, pc[w] = "r_wait"
    PROVE  sem # 0
<1>. SUFFICES ASSUME sem = 0 PROVE FALSE
  OBVIOUS
<1>1. \A t \in Threads :
         /\ calls[t] \in Nat /\ calls[t] <= Total
         /\ pc[t] = "idle" \/ pc[t] = "r_wait"
         /\ pc[t] = "r_wait" => calls[t] > 0 /\ ~Sends(calls[t] - 1)
  BY TotalNat DEF InCall, Finished
<1>2. \A c \in Signalled : c \in Threads \X Numbers /\ Sends(c[2])
  BY DEF Signalled
<1>3. \A c \in Threads \X Numbers : Sends(c[2]) /\ c[2] + 1 < calls[c[1]] => c \in Signalled
  BY DEF Signalled
<1>4. \A c \in Awaited :
         /\ c \in Threads \X Numbers /\ ~Sends(c[2]) /\ c[2] + 1 <= calls[c[1]]
         /\ c[2] + 1 = calls[c[1]] => pc[c[1]] # "r_wait"
  BY <1>1 DEF Awaited, Numbers
<1>. DEFINE f == [c \in Awaited |-> <<c[1], Sent(c[2])>>]
<1>5. ASSUME NEW c \in Awaited PROVE f[c] \in Signalled
  <2>1. c[1] \in Threads /\ c[2] \in Numbers /\ ~Sends(c[2]) /\ c[2] + 1 <= calls[c[1]]
    BY <1>4
  <2>2. Sent(c[2]) \in Numbers /\ Sent(c[2]) < c[2] /\ Sends(Sent(c[2]))
    BY <2>1, SentBefore
  <2>3. Sent(c[2]) + 1 < calls[c[1]]
    BY <2>1, <2>2, <1>1, TotalNat DEF Numbers
  <2>. QED BY <2>1, <2>2, <2>3, <1>3
<1>6. \A c, d \in Awaited : f[c] = f[d] => c = d
  <2>1. ASSUME NEW c \in Awaited, NEW d \in Awaited, f[c] = f[d] PROVE c = d
    <3>1. /\ c = <<c[1], c[2]>> /\ c[2] \in Numbers /\ ~Sends(c[2])
          /\ d = <<d[1], d[2]>> /\ d[2] \in Numbers /\ ~Sends(d[2])
      BY <1>4
    <3>2. c[1] = d[1] /\ Sent(c[2]) = Sent(d[2])
      BY <2>1
    <3>. QED BY <3>1, <3>2, SentDiffers
  <2>. QED BY <2>1
<1>. DEFINE n == calls[w] - 1
<1>7. n \in Numbers /\ ~Sends(n) /\ n + 1 = calls[w]
  BY <1>1, TotalNat DEF Numbers
<1>8. Sent(n) \in Numbers /\ Sent(n) < n /\ Sends(Sent(n))
  BY <1>7, SentBefore
<1>9. <<w, Sent(n)>> \in Signalled
  BY <1>1, <1>3, <1>7, <1>8, TotalNat DEF Numbers
<1>10. \A c \in Awaited : f[c] # <<w, Sent(n)>>
  <2>1. ASSUME NEW c \in Awaited, f[c] = <<w, Sent(n)>> PROVE FALSE
    <3>1. c[1] = w /\ Sent(c[2]) = Sent(n)
      BY <2>1
    <3>2. c[2] = n
      BY <3>1, <1>4, <1>7, SentDiffers
    <3>. QED BY <3>1, <3>2, <1>4, <1>7
  <2>. QED BY <2>1
<1>11. f \in [Awaited -> Signalled]
  BY <1>5
<1>. HIDE DEF f
<1>12. f \in Injection(Awaited, Signalled)
  BY <1>6, <1>11 DEF Injection, IsInjective
<1>13. Cardinality(Awaited) = Cardinality(Signalled)
  BY CallsFinite DEF Balanced
<1>14. f \in Surjection(Awaited, Signalled)
  BY <1>12, <1>13, CallsFinite, FS_Injection
<1>. QED BY <1>9, <1>10, <1>14 DEF Surjection

LEMMA SomeoneGoesOn ==
    ASSUME TypeOK, Locks, InCall, Balanced
    PROVE  NotStuck
<1>. SUFFICES ASSUME \A t \in Threads : Finished(t) \/ Waits(t) PROVE \A t \in Threads : Finished(t)
  BY DEF NotStuck
<1>1. readMut = {}
  <2>1. ASSUME NEW t \in readMut PROVE FALSE
    <3>1. t \in Threads /\ pc[t] \in HoldsRead
      BY DEF Locks
    <3>. QED BY <3>1 DEF HoldsRead, Finished, Waits
  <2>. QED BY <2>1
<1>2. writeMut = {}
  <2>1. ASSUME NEW t \in writeMut PROVE FALSE
    <3>1. t \in Threads /\ pc[t] \in HoldsWrite
      BY DEF Locks
    <3>. QED BY <3>1, <1>1 DEF HoldsWrite, Finished, Waits
  <2>. QED BY <2>1
<1>3. \A t \in Threads : Finished(t) \/ (pc[t] = "r_wait" /\ sem = 0)
  BY <1>1, <1>2 DEF Waits
<1>. QED BY <1>3, SomeTokenLeft

\* NotStuck for any number of threads that send and receive as the test's do
\* (queue.cpp:44-74): the absence of deadlock, which TLC looks for in the run
\* queue_test.
THEOREM NeverStuck ==
    ASSUME Senders = Threads, Receivers = Threads
    PROVE  TestSpec => []NotStuck
<1>1. TestInit => Init
  BY DEF TestInit
<1>2. [TestNext]_testVars => [Next]_vars
  BY TestStepIsStep
<1>3. TestSpec => Spec
  BY <1>1, <1>2, PTL DEF TestSpec, Spec
<1>4. IInv /\ TestInv /\ [TestNext]_testVars => TestInv'
  BY TestInvStep
<1>5. IInv /\ TestInv => NotStuck
  BY SomeoneGoesOn DEF IInv, TestInv
<1>. QED BY <1>3, <1>4, <1>5, TestInvInit, Invariant, PTL DEF TestSpec

-----------------------------------------------------------------------------
(* A call has no loop, so what a thread has still to do lessens with every   *)
(* step it takes: with NeverStuck this is TestEnds but for the fairness.     *)

StepsLeft(step) ==
    CASE step = "s_lock" -> 7
      [] step = "s_check" -> 6
      [] step = "s_full" -> 5
      [] step = "s_grow" -> 4
      [] step = "s_put" -> 3
      [] step = "s_advance" -> 2
      [] step = "s_signal" -> 1
      [] step = "r_wait" -> 4
      [] step = "r_lock" -> 3
      [] step = "r_take" -> 2
      [] step = "r_advance" -> 1
      [] step = "idle" -> 0

\* The calls t has not begun, each of at most 7 steps and its beginning, and
\* what is left of the one it is in.
Rest(t) == 8 * (Total - calls[t]) + StepsLeft(pc[t])

\* The thread that takes a step has less to do after it; the others have as
\* much as before.
Lessens ==
    \E t \in Threads :
        /\ Rest(t) \in Nat /\ Rest(t)' \in Nat /\ Rest(t)' < Rest(t)
        /\ \A u \in Threads \ {t} : Rest(u)' = Rest(u)

Progress == [][Lessens]_testVars

LEMMA StepsLeftType ==
    ASSUME NEW step \in Steps
    PROVE  StepsLeft(step) \in 0 .. 7
BY DEF StepsLeft

\* A step inside a call brings it nearer to its end.
LEMMA LaterShortens ==
    ASSUME TypeOK, NEW t \in Threads, SendStep(t) \/ RecvStep(t)
    PROVE  /\ StepsLeft(pc'[t]) < StepsLeft(pc[t])
           /\ \A u \in Threads \ {t} : pc'[u] = pc[u]
<1>. pc \in [Threads -> Steps]
  BY DEF TypeOK
<1>. USE DEF StepsLeft
<1>1. CASE LockWrite(t) BY <1>1 DEF LockWrite
<1>2. CASE CheckRoom(t) BY <1>2 DEF CheckRoom
<1>3. CASE LockReadToGrow(t) BY <1>3 DEF LockReadToGrow
<1>4. CASE Grow(t) BY <1>4 DEF Grow
<1>5. CASE Put(t) BY <1>5 DEF Put
<1>6. CASE AdvanceWrite(t) BY <1>6 DEF AdvanceWrite
<1>7. CASE SignalSent(t) BY <1>7 DEF SignalSent
<1>8. CASE AwaitMessage(t) BY <1>8 DEF AwaitMessage
<1>9. CASE LockRead(t) BY <1>9 DEF LockRead
<1>10. CASE Take(t) BY <1>10 DEF Take
<1>11. CASE AdvanceRead(t) BY <1>11 DEF AdvanceRead
<1>. QED
  BY <1>1, <1>2, <1>3, <1>4, <1>5, <1>6, <1>7, <1>8, <1>9, <1>10, <1>11
  DEF SendStep, RecvStep

LEMMA TestStepLessens ==
    ASSUME TestInv, TestInv', NEW t \in Threads, TestStep(t)
    PROVE  Lessens
<1>1. /\ pc \in [Threads -> Steps] /\ pc' \in [Threads -> Steps]
      /\ \A u \in Threads : /\ calls[u] \in Nat /\ calls'[u] \in Nat
                            /\ calls[u] <= Total /\ calls'[u] <= Total
  BY TotalNat DEF TestInv, TypeOK, InCall
<1>2. /\ StepsLeft(pc[t]) \in 0 .. 7 /\ StepsLeft(pc'[t]) \in 0 .. 7
  BY <1>1, StepsLeftType
<1>3. \/ calls'[t] = calls[t] + 1
      \/ calls'[t] = calls[t] /\ StepsLeft(pc'[t]) < StepsLeft(pc[t])
  BY LaterShortens DEF TestInv, TestStep, BeginCall, InCall
<1>4. \A u \in Threads \ {t} : pc'[u] = pc[u] /\ calls'[u] = calls[u]
  BY <1>1, LaterShortens DEF TestInv, InCall, TestStep, BeginCall, BeginSend, BeginRecv
<1>5. Total \in Nat /\ Total' = Total
  BY TotalNat DEF Total
<1>6. \A u \in Threads \ {t} : Rest(u)' = Rest(u)
  BY <1>4, <1>5 DEF Rest, StepsLeft
<1>7. /\ Rest(t) = 8 * (Total - calls[t]) + StepsLeft(pc[t])
      /\ Rest(t)' = 8 * (Total - calls'[t]) + StepsLeft(pc'[t])
  BY <1>5 DEF Rest, StepsLeft
<1>8. Rest(t) \in Nat /\ Rest(t)' \in Nat /\ Rest(t)' < Rest(t)
  BY <1>1, <1>2, <1>3, <1>5, <1>7
<1>. QED BY <1>6, <1>8 DEF Lessens

\* However many threads and rounds, the test takes finitely many steps
\* (queue.cpp:5-39, 44-74): no thread goes round in a call, and a step of one
\* does not make another begin again.
THEOREM ProgressCorrect ==
    ASSUME Senders = Threads, Receivers = Threads
    PROVE  TestSpec => Progress
<1>1. TestInit => Init
  BY DEF TestInit
<1>2. [TestNext]_testVars => [Next]_vars
  BY TestStepIsStep
<1>3. TestSpec => Spec
  BY <1>1, <1>2, PTL DEF TestSpec, Spec
<1>4. IInv /\ TestInv /\ [TestNext]_testVars => TestInv'
  BY TestInvStep
<1>5. TestInv /\ TestInv' /\ [TestNext]_testVars => [Lessens]_testVars
  BY TestStepLessens DEF TestNext, TestEnd
<1>. QED BY <1>3, <1>4, <1>5, TestInvInit, Invariant, PTL DEF TestSpec, Progress
=============================================================================
