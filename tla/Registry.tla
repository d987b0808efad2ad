------------------------------ MODULE Registry ------------------------------
(***************************************************************************)
(* The library's threads (thread.cpp:229-337).  Every thread it starts is  *)
(* recorded in the bag "threads" under threads_mutex; spawn_thread joins   *)
(* the recorded threads that have ended, and wait_for_threads joins all of *)
(* them, holding the mutex from its first join to its last.                *)
(*                                                                         *)
(* A critical section that touches nothing but the bag is one action; the  *)
(* two loops that meet threads which run meanwhile are taken cell by cell. *)
(* The assertions on the results of pthread_kill and pthread_join hold if  *)
(* no handle is used after it was joined: HandlesMatch.                    *)
(***************************************************************************)
EXTENDS Bag, FiniteSets

CONSTANTS
    Main,       \* the thread that runs main()
    Workers,    \* the pthread_t values; one is free again once joined
    Spawners,   \* the threads that call spawn_thread
    ProbeSees   \* whether pthread_kill tells that a thread has ended: TRUE
                \* (ESRCH, and the wait of the Windows build), FALSE (a libc
                \* that answers 0 until the thread is joined), or either

ASSUME RegistryAssumption ==
    /\ Main \notin Workers /\ Null \notin Workers
    /\ Spawners \subseteq Workers \union {Main}
    /\ ProbeSees \subseteq BOOLEAN /\ ProbeSees # {}

VARIABLES
    threads,    \* the bag of handles: its cells
    mutex,      \* the threads that hold threads_mutex
    pc,         \* pc[a]: where thread a is: "off", no such thread; "idle", in
                \* its entry function or in main(); "ended", returned from it
                \* and not joined; or what it will do next
    at,         \* at[a]: the iterator of a's loop over the bag
    made,       \* made[a]: the handle a created and has not installed yet
    ready       \* history: threads that had ended when the scan began, but for
                \* those of which the probe did not tell

vars == <<threads, mutex, pc, at, made, ready>>

Actors == Workers \union {Main}

ThreadsMutex == INSTANCE Lock WITH Threads <- Actors, holders <- mutex

Recorded == {threads[i] : i \in 1 .. Len(threads)} \ {Null}

Init ==
    /\ threads = <<>>
    /\ mutex = {}
    /\ pc = [a \in Actors |-> IF a = Main THEN "idle" ELSE "off"]
    /\ at = [a \in Actors |-> 0]
    /\ made = [a \in Actors |-> Null]
    /\ ready = {}

GoTo(a, step) == pc' = [pc EXCEPT ![a] = step]

\* a goes to step, and thread w, joined, is gone.
JoinAndGoTo(w, a, step) == pc' = [pc EXCEPT ![w] = "off", ![a] = step]

-----------------------------------------------------------------------------
(* spawn_thread_raw_param, called without an error pending. *)

BeginSpawn(a) ==
    /\ pc[a] = "idle"
    /\ GoTo(a, "scan_lock")
    /\ UNCHANGED <<threads, mutex, at, made, ready>>

\* join_ready_threads: acquire(threads_mutex), begin(threads).
LockToScan(a) ==
    /\ pc[a] = "scan_lock"
    /\ ThreadsMutex!Acquire(a)
    /\ at' = [at EXCEPT ![a] = NextCell(threads, 1)]
    /\ ready' = {w \in Recorded : pc[w] = "ended"}
    /\ GoTo(a, "scan")
    /\ UNCHANGED <<threads, made>>

\* Mutant: gives up at the first thread that still runs.
KeepThreadStops(a) ==
    /\ pc[a] = "scan" /\ at[a] <= Len(threads)
    /\ pc[threads[at[a]]] = "ended" => FALSE \in ProbeSees
    /\ at' = [at EXCEPT ![a] = Len(threads) + 1]
    /\ ready' = ready \ {threads[at[a]]}
    /\ UNCHANGED <<threads, mutex, pc, made>>

\* pthread_kill(thread, 0) returns 0.
KeepThread(a) ==
    /\ pc[a] = "scan" /\ at[a] <= Len(threads)
    /\ pc[threads[at[a]]] = "ended" => FALSE \in ProbeSees
    /\ at' = [at EXCEPT ![a] = NextCell(threads, @ + 1)]
    /\ ready' = ready \ {threads[at[a]]}
    /\ UNCHANGED <<threads, mutex, pc, made>>

\* Mutant: joins the thread and leaves its handle in the bag.
JoinReadyKeepsHandle(a) ==
    /\ pc[a] = "scan" /\ at[a] <= Len(threads)
    /\ pc[threads[at[a]]] = "ended" /\ TRUE \in ProbeSees
    /\ JoinAndGoTo(threads[at[a]], a, "scan")
    /\ at' = [at EXCEPT ![a] = NextCell(threads, @ + 1)]
    /\ UNCHANGED <<threads, mutex, made, ready>>

\* pthread_kill reports that the thread has ended: pthread_join returns at
\* once and the handle leaves the bag.
JoinReady(a) ==
    /\ pc[a] = "scan" /\ at[a] <= Len(threads)
    /\ pc[threads[at[a]]] = "ended" /\ TRUE \in ProbeSees
    /\ JoinAndGoTo(threads[at[a]], a, "scan")
    /\ threads' = Remove(threads, at[a])
    /\ at' = [at EXCEPT ![a] = NextCell(threads', @ + 1)]
    /\ UNCHANGED <<mutex, made, ready>>

\* The loop is over and the mutex released.
EndScan(a) ==
    /\ pc[a] = "scan" /\ at[a] > Len(threads)
    /\ ThreadsMutex!Release(a)
    /\ at' = [at EXCEPT ![a] = 0]
    /\ ready' = {}
    /\ GoTo(a, "create")
    /\ UNCHANGED <<threads, made>>

\* pthread_create succeeds.  The new thread runs before it is recorded.
CreateThread(a) ==
    /\ pc[a] = "create"
    /\ \E w \in Workers :
          /\ pc[w] = "off"
          /\ made' = [made EXCEPT ![a] = w]
          /\ pc' = [pc EXCEPT ![w] = "idle", ![a] = "install"]
    /\ UNCHANGED <<threads, mutex, at, ready>>

\* pthread_create fails; err is set and nothing else changes.
CreateFails(a) ==
    /\ pc[a] = "create"
    /\ GoTo(a, "idle")
    /\ UNCHANGED <<threads, mutex, at, made, ready>>

\* install_thread: the whole critical section.
Install(a) ==
    /\ pc[a] = "install"
    /\ mutex = {}
    /\ threads' = Insert(threads, made[a])
    /\ made' = [made EXCEPT ![a] = Null]
    /\ GoTo(a, "idle")
    /\ UNCHANGED <<mutex, at, ready>>

-----------------------------------------------------------------------------
(* wait_for_threads, called by the main thread (prelude.cpp:130). *)

BeginWait ==
    /\ pc[Main] = "idle"
    /\ GoTo(Main, "wait_lock")
    /\ UNCHANGED <<threads, mutex, at, made, ready>>

LockToWait ==
    /\ pc[Main] = "wait_lock"
    /\ ThreadsMutex!Acquire(Main)
    /\ at' = [at EXCEPT ![Main] = NextCell(threads, 1)]
    /\ GoTo(Main, "wait")
    /\ UNCHANGED <<threads, made, ready>>

\* Mutant: passes over threads that still run.
JoinNextSkips ==
    /\ pc[Main] = "wait" /\ at[Main] <= Len(threads)
    /\ IF pc[threads[at[Main]]] = "ended"
       THEN /\ JoinAndGoTo(threads[at[Main]], Main, "wait")
            /\ threads' = Remove(threads, at[Main])
       ELSE UNCHANGED <<threads, pc>>
    /\ at' = [at EXCEPT ![Main] = NextCell(threads', @ + 1)]
    /\ UNCHANGED <<mutex, made, ready>>

\* pthread_join blocks until the thread ends; the mutex stays held.
JoinNext ==
    /\ pc[Main] = "wait" /\ at[Main] <= Len(threads)
    /\ pc[threads[at[Main]]] = "ended"
    /\ JoinAndGoTo(threads[at[Main]], Main, "wait")
    /\ threads' = Remove(threads, at[Main])
    /\ at' = [at EXCEPT ![Main] = NextCell(threads', @ + 1)]
    /\ UNCHANGED <<mutex, made, ready>>

\* Mutant: waits for the array to be empty instead of its cells.
EndWaitLate ==
    /\ pc[Main] = "wait" /\ Len(threads) = 0
    /\ ThreadsMutex!Release(Main)
    /\ at' = [at EXCEPT ![Main] = 0]
    /\ GoTo(Main, "idle")
    /\ UNCHANGED <<threads, made, ready>>

EndWait ==
    /\ pc[Main] = "wait" /\ at[Main] > Len(threads)
    /\ ThreadsMutex!Release(Main)
    /\ at' = [at EXCEPT ![Main] = 0]
    /\ GoTo(Main, "idle")
    /\ UNCHANGED <<threads, made, ready>>

\* thread_entry: the entry function has returned.
ThreadEnds(w) ==
    /\ pc[w] = "idle"
    /\ GoTo(w, "ended")
    /\ UNCHANGED <<threads, mutex, at, made, ready>>

-----------------------------------------------------------------------------
SpawnStep(a) ==
    \/ LockToScan(a)
    \/ KeepThread(a)
    \/ JoinReady(a)
    \/ EndScan(a)
    \/ CreateThread(a)
    \/ CreateFails(a)
    \/ Install(a)

WaitStep == LockToWait \/ JoinNext \/ EndWait

Next ==
    \/ \E a \in Spawners : BeginSpawn(a)
    \/ \E a \in Actors : SpawnStep(a)
    \/ BeginWait
    \/ WaitStep
    \/ \E w \in Workers : ThreadEnds(w)

Spec == Init /\ [][Next]_vars

\* The OS runs every thread that is inside the library, and every entry
\* function that is not inside it returns.
FairSpec ==
    /\ Spec
    /\ \A a \in Actors : WF_vars(SpawnStep(a))
    /\ WF_vars(WaitStep)
    /\ \A w \in Workers : WF_vars(ThreadEnds(w))

-----------------------------------------------------------------------------
\* The threads that exist are those in the bag and those their creator has yet
\* to record, each in one place only: no thread is forgotten, joined twice or
\* asked about after it was joined, though handles are used again
\* (thread.cpp:268-276, 299-301).
HandlesMatch ==
    /\ \A w \in Workers :
          pc[w] # "off" <=> w \in Recorded \/ \E a \in Actors : made[a] = w
    /\ \A i, j \in 1 .. Len(threads) :
          threads[i] = threads[j] /\ threads[i] # Null => i = j
    /\ \A a, b \in Actors : made[a] = made[b] /\ made[a] # Null => a = b
    /\ \A a \in Actors : made[a] \notin Recorded

\* When wait_for_threads returns no thread the library started is left, also
\* when threads started threads: end_main and the tests rely on it
\* (thread.cpp:317-337).
WaitLeavesNone ==
    [][pc[Main] = "wait" /\ pc'[Main] = "idle" =>
          \A w \in Workers : pc[w] = "off"]_pc

\* spawn_thread has joined every thread that had ended when its scan began, and
\* of which the probe told, before it creates another: without that, ended
\* threads would use up the handles (thread.cpp:265-285, 291).
ReadyJoined ==
    [][\A a \in Actors : pc[a] = "scan" /\ pc'[a] = "create" =>
          ready \intersect Recorded = {}]_vars

\* The main thread joins a thread that waits for the mutex the main thread
\* holds: neither can go on (thread.cpp:319-323 against 261 and 267).
Wedged ==
    /\ pc[Main] = "wait" /\ at[Main] <= Len(threads)
    /\ pc[threads[at[Main]]] \in {"scan_lock", "install"}

\* The joins of wait_for_threads end, unless a thread they meet is starting
\* another and needs the mutex: that wedge is the only other outcome.
WaitReturnsOrWedges == pc[Main] = "wait" ~> pc[Main] = "idle" \/ Wedged
=============================================================================
