----------------------------- MODULE QueueTest ------------------------------
(***************************************************************************)
(* The queue under the client of its unit test (queue.cpp:44-74): every    *)
(* thread sends Preload messages, then sends one and receives one, Rounds  *)
(* times, then receives Preload messages, and ends; the main thread waits  *)
(* for all of them.  As many messages are received as are sent, so no      *)
(* thread may be left waiting.                                             *)
(***************************************************************************)
EXTENDS Queue

CONSTANTS
    Preload,    \* 10 in the test
    Rounds,     \* 100 in the test
    Pineapple,
    Cherry      \* the two messages of the test

ASSUME TestAssumption ==
    /\ Preload \in Nat /\ Rounds \in Nat
    /\ {Pineapple, Cherry} \subseteq Messages

VARIABLE calls      \* calls[t]: the calls t has begun

testVars == <<vars, calls>>

Total == Preload + 2 * Rounds + Preload

\* Is the call after the first n a send?
Sends(n) ==
    \/ n < Preload
    \/ n < Preload + 2 * Rounds /\ (n - Preload) % 2 = 0

TestInit ==
    /\ Init
    /\ calls = [t \in Threads |-> 0]

BeginCall(t) ==
    /\ calls[t] < Total
    /\ IF Sends(calls[t])
       THEN BeginSend(t, IF calls[t] < Preload THEN Pineapple ELSE Cherry)
       ELSE BeginRecv(t)
    /\ calls' = [calls EXCEPT ![t] = @ + 1]

TestStep(t) ==
    \/ BeginCall(t)
    \/ (SendStep(t) \/ RecvStep(t)) /\ UNCHANGED calls

Finished(t) == calls[t] = Total /\ pc[t] = "idle"

\* All entry functions have returned and wait_for_threads() with them.
TestEnd == (\A t \in Threads : Finished(t)) /\ UNCHANGED testVars

TestNext == (\E t \in Threads : TestStep(t)) \/ TestEnd

\* Every thread that can go on eventually does: the OS runs each runnable
\* thread, and a mutex or a semaphore that stays available is granted.
TestSpec ==
    /\ TestInit
    /\ [][TestNext]_testVars
    /\ \A t \in Threads : WF_testVars(TestStep(t))

-----------------------------------------------------------------------------
\* The test ends: no schedule leaves a thread waiting for a lost token, a lost
\* message or a lock (queue.cpp:61-74).  The weak fairness above suffices
\* because the calls are finite in number.
TestEnds == <>(\A t \in Threads : Finished(t))

\* When it has ended nothing is left over: each message was received and each
\* token consumed, though threads receive each other's messages.
NothingLeft ==
    (\A t \in Threads : Finished(t)) =>
        Occupancy = 0 /\ sem = 0 /\ \A i \in 0 .. len - 1 : buf[i] = NoMessage
=============================================================================
