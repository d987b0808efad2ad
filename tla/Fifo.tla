-------------------------------- MODULE Fifo --------------------------------
(***************************************************************************)
(* What queue_t promises (queue.hpp:6-26): a linearisable unbounded FIFO   *)
(* of messages for any number of sending and receiving threads.  send()    *)
(* never blocks for room and recv() blocks while there is nothing to take. *)
(* Each call takes effect at one instant between its start and its end.    *)
(***************************************************************************)
EXTENDS Sequences

CONSTANTS
    Threads,
    Messages,
    NoMessage   \* the empty string a cell or a local holds when it holds none

VARIABLES
    fifo,       \* messages sent and not yet received, oldest first
    call        \* call[t]: the call t is in and the message it carries

Idle == [op |-> "none", msg |-> NoMessage]

Calls == [op : {"none", "send", "sent", "recv", "received"},
          msg : Messages \union {NoMessage}]

Init ==
    /\ fifo = <<>>
    /\ call = [t \in Threads |-> Idle]

\* Thread t goes from one stage of a call to the next.
Stage(t, op, msg) == call' = [call EXCEPT ![t] = [op |-> op, msg |-> msg]]

BeginSend(t, m) ==
    /\ call[t] = Idle
    /\ Stage(t, "send", m)
    /\ UNCHANGED fifo

Enqueue(t) ==
    /\ call[t].op = "send"
    /\ fifo' = Append(fifo, call[t].msg)
    /\ Stage(t, "sent", NoMessage)

BeginRecv(t) ==
    /\ call[t] = Idle
    /\ Stage(t, "recv", NoMessage)
    /\ UNCHANGED fifo

Dequeue(t) ==
    /\ call[t].op = "recv"
    /\ fifo # <<>>
    /\ Stage(t, "received", Head(fifo))
    /\ fifo' = Tail(fifo)

Return(t) ==
    /\ call[t].op \in {"sent", "received"}
    /\ Stage(t, "none", NoMessage)
    /\ UNCHANGED fifo

Next ==
    \E t \in Threads :
        \/ \E m \in Messages : BeginSend(t, m)
        \/ Enqueue(t)
        \/ BeginRecv(t)
        \/ Dequeue(t)
        \/ Return(t)

Spec == Init /\ [][Next]_<<fifo, call>>
=============================================================================
