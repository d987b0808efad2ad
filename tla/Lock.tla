-------------------------------- MODULE Lock --------------------------------
(***************************************************************************)
(* What mutex_t promises (thread.hpp:20-44): acquire() returns to one      *)
(* thread at a time, and the mutex_lock_t it returns gives the lock back   *)
(* when it is destroyed.  The detailed LazyMutex implements this module;   *)
(* Queue and Registry are built on it.                                     *)
(***************************************************************************)
CONSTANT Threads

VARIABLE holders    \* the threads that own a mutex_lock_t on the mutex

Init == holders = {}

\* acquire(mutex): blocks in pthread_mutex_lock until nobody owns the mutex.
\* The default pthread mutex is not recursive: its owner would block too.
Acquire(t) ==
    /\ holders = {}
    /\ holders' = {t}

\* mutex_lock_t::~mutex_lock_t, release(mutex): only the owner unlocks.
Release(t) ==
    /\ holders = {t}
    /\ holders' = {}

Next == \E t \in Threads : Acquire(t) \/ Release(t)

Spec == Init /\ [][Next]_holders
=============================================================================
