----------------------------- MODULE LazyMutex ------------------------------
(***************************************************************************)
(* mutex_t in full: lazy initialisation (LazyHandle) followed by the       *)
(* pthread mutex of whichever object was published.  Each object has its   *)
(* own owner, so mutual exclusion holds only if every thread ends up on    *)
(* the same object.                                                        *)
(***************************************************************************)
EXTENDS LazyHandle

CONSTANT Nobody     \* the owner of an unlocked pthread mutex

ASSUME NobodyAssumption == Nobody \notin Threads

VARIABLE owner      \* owner[o]: the thread that locked object o, or Nobody

mutexVars == <<opaq, live, mine, pc, owner>>

MutexTypeOK ==
    /\ HandleTypeOK
    /\ owner \in [Objects -> Threads \union {Nobody}]

MutexInit ==
    /\ HandleInit
    /\ owner = [o \in Objects |-> Nobody]

\* init(mutex) up to the compare-and-swap: pthread_mutex_init in a fresh box.
CreateMutex(t) ==
    \E o \in Objects :
        /\ Create(t, o)
        /\ owner' = [owner EXCEPT ![o] = Nobody]

\* Mutant: locks without waiting for the owner.
LockMutexBarging(t) ==
    /\ pc[t] = "use"
    /\ owner' = [owner EXCEPT ![opaq] = t]
    /\ GoTo(t, "held")
    /\ UNCHANGED <<opaq, live, mine>>

\* The second half of acquire(): pthread_mutex_lock on the published object,
\* read again from the field.
LockMutex(t) ==
    /\ pc[t] = "use"
    /\ owner[opaq] = Nobody
    /\ owner' = [owner EXCEPT ![opaq] = t]
    /\ GoTo(t, "held")
    /\ UNCHANGED <<opaq, live, mine>>

\* ~mutex_lock_t: release(mutex), pthread_mutex_unlock on the field's object.
UnlockMutex(t) ==
    /\ pc[t] = "held"
    /\ owner' = [owner EXCEPT ![opaq] = Nobody]
    /\ GoTo(t, "idle")
    /\ UNCHANGED <<opaq, live, mine>>

MutexNext ==
    \/ \E t \in Threads :
          \/ CreateMutex(t)
          \/ LockMutex(t)
          \/ UnlockMutex(t)
          \/ (Load(t) \/ Cas(t) \/ Discard(t)) /\ UNCHANGED owner
    \/ Destroy /\ UNCHANGED owner

MutexSpec == MutexInit /\ [][MutexNext]_mutexVars

-----------------------------------------------------------------------------
Holders == {t \in Threads : pc[t] = "held"}

\* release() unlocks a mutex its caller owns: pthread_mutex_unlock returns 0
\* (assert_eq(stat, 0), thread.cpp:206), whatever initialisation races ran
\* before.
UnlocksOwnMutex == \A t \in Holders : owner[opaq] = t

\* A lazily initialised mutex is a mutex: no interleaving of first uses lets
\* two threads in (thread.cpp:181-198 implements Lock).
AbstractLock == INSTANCE Lock WITH holders <- Holders
LockSpec == AbstractLock!Spec
=============================================================================
