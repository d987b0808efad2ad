------------------------------- MODULE Queue --------------------------------
(***************************************************************************)
(* queue_t (queue.cpp): a growing ring buffer of messages shared by any    *)
(* number of sending and receiving threads.  Senders are serialised by     *)
(* write_mut, receivers by read_mut, and the semaphore counts the messages *)
(* that are completely in the buffer.  A sender that finds the ring full   *)
(* takes read_mut as well and inserts empty cells at write_at.             *)
(*                                                                         *)
(* There is one action per access to shared state.  An unlock is part of   *)
(* the last access it protects (it commutes with every step of the other   *)
(* threads that could come between).  Two reads are not protected by the   *)
(* lock of the field: send() compares with read_at (queue.cpp:26) and      *)
(* recv_waited() asserts on write_at (queue.cpp:9); on the program's       *)
(* targets an aligned 8-byte access is atomic, so they see the old or the  *)
(* new value and interleaving says all that can happen.                    *)
(***************************************************************************)
EXTENDS Naturals, FiniteSets

CONSTANTS
    Threads,
    Senders,        \* threads that may call send()
    Receivers,      \* threads that may call recv()
    Messages,
    NoMessage,      \* the empty str_t of a cell without a message
    MinGrow,        \* smallest growth of the ring; 4 in the code
    MaxInFlight     \* bound of the checked instances: messages under way

ASSUME QueueAssumption ==
    /\ IsFiniteSet(Threads)
    /\ Senders \subseteq Threads
    /\ Receivers \subseteq Threads
    /\ NoMessage \notin Messages
    /\ MinGrow \in Nat /\ MinGrow >= 2
    /\ MaxInFlight \in Nat

VARIABLES
    sem,        \* the semaphore's count
    readMut,    \* the threads that hold read_mut
    writeMut,   \* the threads that hold write_mut
    len,        \* buf.len
    buf,        \* buf.ptr[0 .. len - 1]
    readAt,     \* cell the next recv() takes
    writeAt,    \* cell the next send() fills
    pc,         \* pc[t]: where t is in send() or recv()
    msg,        \* msg[t]: send()'s parameter, or the val recv() returns
    next        \* next[t]: send()'s local of that name

ring == <<len, buf, readAt, writeAt>>
locks == <<sem, readMut, writeMut>>
locals == <<pc, msg, next>>
vars == <<ring, locks, locals>>

ReadMut == INSTANCE Lock WITH holders <- readMut
WriteMut == INSTANCE Lock WITH holders <- writeMut
Tokens == INSTANCE Sem WITH count <- sem

Cell == Messages \union {NoMessage}

SendSteps == {"s_lock", "s_check", "s_full", "s_grow", "s_put", "s_advance"}
RecvSteps == {"r_wait", "r_lock", "r_take", "r_advance"}
Steps == {"idle", "s_signal"} \union SendSteps \union RecvSteps

TypeOK ==
    /\ sem \in Nat
    /\ readMut \subseteq Threads /\ writeMut \subseteq Threads
    /\ len \in Nat /\ readAt \in Nat /\ writeAt \in Nat
    /\ buf \in [0 .. len - 1 -> Cell]
    /\ readAt < len \/ (readAt = 0 /\ len = 0)
    /\ writeAt < len \/ (writeAt = 0 /\ len = 0)
    /\ pc \in [Threads -> Steps]
    /\ msg \in [Threads -> Cell]
    /\ next \in [Threads -> Nat]

-----------------------------------------------------------------------------
(* The ring. *)

\* The cell after i, in the ring as it is.
Succ(i) == IF i + 1 < len THEN i + 1 ELSE 0

\* Messages between the two indices.
Occupancy ==
    IF readAt <= writeAt THEN writeAt - readAt ELSE writeAt + len - readAt

Occupied(i) ==
    IF readAt <= writeAt THEN readAt <= i /\ i < writeAt
                         ELSE readAt <= i \/ i < writeAt

\* Mutant: appends the new cells at the end of the array.
GrownAtEnd(cells, size, at, n) ==
    [i \in 0 .. size + n - 1 |-> IF i < size THEN cells[i] ELSE NoMessage]

\* grow(seq, ins_at, ins_len): n zeroed cells are inserted before cell at.
Grown(cells, size, at, n) ==
    [i \in 0 .. size + n - 1 |->
        IF i < at THEN cells[i]
        ELSE IF i < at + n THEN NoMessage
        ELSE cells[i - n]]

Growth == IF len > MinGrow THEN len ELSE MinGrow

At(step) == {t \in Threads : pc[t] = step}
GoTo(t, step) == pc' = [pc EXCEPT ![t] = step]

Init ==
    /\ sem = 0 /\ readMut = {} /\ writeMut = {}
    /\ len = 0 /\ readAt = 0 /\ writeAt = 0
    /\ buf = [i \in 0 .. len - 1 |-> NoMessage]
    /\ pc = [t \in Threads |-> "idle"]
    /\ msg = [t \in Threads |-> NoMessage]
    /\ next = [t \in Threads |-> 0]

-----------------------------------------------------------------------------
(* send(q, msg) *)

\* Messages in the ring or on their way into it.
InFlight ==
    Occupancy + Cardinality({t \in Threads : pc[t] \in SendSteps})

BeginSend(t, m) ==
    /\ pc[t] = "idle"
    /\ InFlight < MaxInFlight
    /\ msg' = [msg EXCEPT ![t] = m]
    /\ GoTo(t, "s_lock")
    /\ UNCHANGED <<ring, locks, next>>

\* acquire(write_mut)
LockWrite(t) ==
    /\ pc[t] = "s_lock"
    /\ WriteMut!Acquire(t)
    /\ GoTo(t, "s_check")
    /\ UNCHANGED <<ring, sem, readMut, msg, next>>

\* Mutant: never grows.
CheckRoomSkipped(t) ==
    /\ pc[t] = "s_check"
    /\ next' = [next EXCEPT ![t] = Succ(writeAt)]
    /\ GoTo(t, IF len = 0 THEN "s_full" ELSE "s_put")
    /\ UNCHANGED <<ring, locks, msg>>

\* Compares with read_at, which receivers move without write_mut.
CheckRoom(t) ==
    /\ pc[t] = "s_check"
    /\ next' = [next EXCEPT ![t] = Succ(writeAt)]
    /\ GoTo(t, IF Succ(writeAt) = readAt THEN "s_full" ELSE "s_put")
    /\ UNCHANGED <<ring, locks, msg>>

\* acquire(read_mut), write_mut already held.
LockReadToGrow(t) ==
    /\ pc[t] = "s_full"
    /\ ReadMut!Acquire(t)
    /\ GoTo(t, "s_grow")
    /\ UNCHANGED <<ring, sem, writeMut, msg, next>>

\* Mutant: forgets that the messages behind the insertion moved.
GrowUnshifted(t) ==
    /\ pc[t] = "s_grow"
    /\ buf' = Grown(buf, len, writeAt, Growth)
    /\ len' = len + Growth
    /\ next' = [next EXCEPT
                   ![t] = IF writeAt + 1 < len + Growth THEN writeAt + 1 ELSE 0]
    /\ ReadMut!Release(t)
    /\ GoTo(t, "s_put")
    /\ UNCHANGED <<readAt, writeAt, sem, writeMut, msg>>

\* Mutant: leaves without giving read_mut back.
GrowKeepsLock(t) ==
    /\ pc[t] = "s_grow"
    /\ readAt' = IF readAt > writeAt THEN readAt + Growth ELSE readAt
    /\ buf' = Grown(buf, len, writeAt, Growth)
    /\ len' = len + Growth
    /\ next' = [next EXCEPT
                   ![t] = IF writeAt + 1 < len + Growth THEN writeAt + 1 ELSE 0]
    /\ GoTo(t, "s_put")
    /\ UNCHANGED <<writeAt, locks, msg>>

\* What send() does while it holds both mutexes.  inc_len is computed before
\* read_mut is taken, but buf.len only changes under write_mut.  The receivers
\* may have made room meanwhile: the ring grows all the same.
Grow(t) ==
    /\ pc[t] = "s_grow"
    /\ readAt' = IF readAt > writeAt THEN readAt + Growth ELSE readAt
    /\ buf' = Grown(buf, len, writeAt, Growth)
    /\ len' = len + Growth
    /\ next' = [next EXCEPT
                   ![t] = IF writeAt + 1 < len + Growth THEN writeAt + 1 ELSE 0]
    /\ ReadMut!Release(t)
    /\ GoTo(t, "s_put")
    /\ UNCHANGED <<writeAt, sem, writeMut, msg>>

\* q.buf[q.write_at] = move(msg), which leaves msg empty.
Put(t) ==
    /\ pc[t] = "s_put"
    /\ buf' = [buf EXCEPT ![writeAt] = msg[t]]
    /\ msg' = [msg EXCEPT ![t] = NoMessage]
    /\ GoTo(t, "s_advance")
    /\ UNCHANGED <<len, readAt, writeAt, locks, next>>

\* q.write_at = next; write_mut is released.
AdvanceWrite(t) ==
    /\ pc[t] = "s_advance"
    /\ writeAt' = next[t]
    /\ next' = [next EXCEPT ![t] = 0]
    /\ WriteMut!Release(t)
    /\ GoTo(t, "s_signal")
    /\ UNCHANGED <<len, buf, readAt, sem, readMut, msg>>

\* signal(sem), outside the lock: the order of the tokens is not the order of
\* the messages.
SignalSent(t) ==
    /\ pc[t] = "s_signal"
    /\ Tokens!Signal
    /\ GoTo(t, "idle")
    /\ UNCHANGED <<ring, readMut, writeMut, msg, next>>

-----------------------------------------------------------------------------
(* recv(q) *)

BeginRecv(t) ==
    /\ pc[t] = "idle"
    /\ GoTo(t, "r_wait")
    /\ UNCHANGED <<ring, locks, msg, next>>

\* wait(sem)
AwaitMessage(t) ==
    /\ pc[t] = "r_wait"
    /\ Tokens!Wait
    /\ GoTo(t, "r_lock")
    /\ UNCHANGED <<ring, readMut, writeMut, msg, next>>

\* recv_waited(q): acquire(read_mut)
LockRead(t) ==
    /\ pc[t] = "r_lock"
    /\ ReadMut!Acquire(t)
    /\ GoTo(t, "r_take")
    /\ UNCHANGED <<ring, sem, writeMut, msg, next>>

\* Mutant: copies the message and leaves it in the cell.
TakeCopies(t) ==
    /\ pc[t] = "r_take"
    /\ msg' = [msg EXCEPT ![t] = buf[readAt]]
    /\ GoTo(t, "r_advance")
    /\ UNCHANGED <<ring, locks, next>>

\* auto val = move(q.buf[q.read_at]): the cell is left empty.  The two
\* assertions before it are the invariant AssertsHold.
Take(t) ==
    /\ pc[t] = "r_take"
    /\ msg' = [msg EXCEPT ![t] = buf[readAt]]
    /\ buf' = [buf EXCEPT ![readAt] = NoMessage]
    /\ GoTo(t, "r_advance")
    /\ UNCHANGED <<len, readAt, writeAt, locks, next>>

\* q.read_at = next; read_mut is released and val returned.
AdvanceRead(t) ==
    /\ pc[t] = "r_advance"
    /\ readAt' = Succ(readAt)
    /\ msg' = [msg EXCEPT ![t] = NoMessage]
    /\ ReadMut!Release(t)
    /\ GoTo(t, "idle")
    /\ UNCHANGED <<len, buf, writeAt, sem, writeMut, next>>

-----------------------------------------------------------------------------
SendStep(t) ==
    \/ LockWrite(t)
    \/ CheckRoom(t)
    \/ LockReadToGrow(t)
    \/ Grow(t)
    \/ Put(t)
    \/ AdvanceWrite(t)
    \/ SignalSent(t)

RecvStep(t) ==
    \/ AwaitMessage(t)
    \/ LockRead(t)
    \/ Take(t)
    \/ AdvanceRead(t)

Next ==
    \/ \E t \in Senders, m \in Messages : BeginSend(t, m)
    \/ \E t \in Receivers : BeginRecv(t)
    \/ \E t \in Threads : SendStep(t) \/ RecvStep(t)

Spec == Init /\ [][Next]_vars

-----------------------------------------------------------------------------
(* What could go wrong. *)

\* Receivers that have a token and have not yet moved read_at.
Claimed == {t \in Threads : pc[t] \in {"r_lock", "r_take", "r_advance"}}

\* Every message between read_at and write_at is promised to exactly one
\* token: in the semaphore, with a receiver that passed wait(), or with a
\* sender that has yet to signal (queue.cpp:18, 36-38).  If it failed, a
\* receiver would find the ring empty or a message would never be received.
TokensMatch ==
    Occupancy = sem + Cardinality(Claimed) + Cardinality(At("s_signal"))

\* recv_waited's assertions (queue.cpp:8-9) hold whenever a receiver is between
\* its lock and its take, whatever senders do without read_mut meanwhile.
AssertsHold == At("r_take") # {} => len > 0 /\ readAt # writeAt

\* A sender that decided there is room, on a read_at that may since have
\* moved, still leaves one cell free after write_at: advancing never makes a
\* full ring look empty (queue.cpp:25-36).
RoomAhead ==
    \A t \in At("s_put") \union At("s_advance") :
        /\ len > 0
        /\ next[t] = Succ(writeAt)
        /\ next[t] # readAt

\* The cells with a message are those between read_at and write_at, but for
\* one being taken or put: no message is overwritten, and none is left behind
\* in a cell the ring has passed (queue.cpp:11, 35).  A message is not the
\* empty string here; empty messages go the same way but cannot be told from
\* free cells.
CellsMatch ==
    \A i \in 0 .. len - 1 :
        buf[i] # NoMessage <=>
            \/ Occupied(i) /\ ~(i = readAt /\ At("r_advance") # {})
            \/ i = writeAt /\ At("s_advance") # {}

\* 1 while a receiver has emptied a cell and not yet moved read_at.
Taken == IF At("r_advance") = {} THEN 0 ELSE 1

\* The cell an index that may have run past the ring's end stands for.
Wrap(size, i) == IF i < size THEN i ELSE i - size

\* The n messages from a cell on, around the ring's end; from may be size.
Slice(cells, size, from, n) ==
    [i \in 1 .. n |-> cells[Wrap(size, from + i - 1)]]

\* Oldest first, what is sent and not yet taken.
Contents == Slice(buf, len, readAt + Taken, Occupancy - Taken)

\* How far t's call has got, as its caller could tell.
CallOf(t) ==
    [op |-> CASE pc[t] = "idle" -> "none"
              [] pc[t] \in SendSteps -> "send"
              [] pc[t] = "s_signal" -> "sent"
              [] pc[t] \in {"r_wait", "r_lock", "r_take"} -> "recv"
              [] pc[t] = "r_advance" -> "received",
     msg |-> IF pc[t] = "s_advance" THEN buf[writeAt] ELSE msg[t]]

AllCalls == [t \in Threads |-> CallOf(t)]

\* queue_t is a linearisable FIFO: a send takes effect when write_at moves, a
\* recv when the cell is emptied, and each recv returns the oldest message
\* whichever token it consumed (queue.cpp:5-39 implement Fifo).
Abstract == INSTANCE Fifo WITH fifo <- Contents, call <- AllCalls
FifoSpec == Abstract!Spec
=============================================================================
