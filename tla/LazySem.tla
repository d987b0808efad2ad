------------------------------ MODULE LazySem -------------------------------
(***************************************************************************)
(* sem_t in full: lazy initialisation (LazyHandle) followed by the eventfd *)
(* (EFD_SEMAPHORE, blocking) of whichever object was published.  Each      *)
(* object has its own counter, so a token is lost if signal() and wait()   *)
(* ever work on different objects.                                         *)
(***************************************************************************)
EXTENDS LazyHandle, Naturals

CONSTANTS
    Signallers,     \* threads that call signal()
    Waiters,        \* threads that call wait()
    MaxCount        \* the counter's limit, where write() blocks (2^64 - 2)

ASSUME SemAssumption ==
    /\ Signallers \union Waiters = Threads
    /\ MaxCount \in Nat \ {0}

VARIABLES
    count,          \* count[o]: the eventfd counter of object o
    op,             \* op[t]: the operation t is in, "none" when idle
    balance         \* history: signals returned minus waits returned

semVars == <<opaq, live, mine, pc, count, op, balance>>

SemTypeOK ==
    /\ HandleTypeOK
    /\ count \in [Objects -> 0..MaxCount]
    /\ op \in [Threads -> {"none", "signal", "wait"}]
    /\ balance \in Nat

SemInit ==
    /\ HandleInit
    /\ count = [o \in Objects |-> 0]
    /\ op = [t \in Threads |-> "none"]
    /\ balance = 0

\* signal(sem) and wait(sem) start alike: test the field, init if it is zero.
Begin(t, o) ==
    /\ Load(t)
    /\ op' = [op EXCEPT ![t] = o]
    /\ UNCHANGED <<count, balance>>

\* init(sem) up to the compare-and-swap: eventfd(0, EFD_SEMAPHORE).
CreateSem(t) ==
    /\ \E o \in Objects :
          /\ Create(t, o)
          /\ count' = [count EXCEPT ![o] = 0]
    /\ UNCHANGED <<op, balance>>

\* write(fd, 1) on the field's object; blocks while the counter is full.
Signal(t) ==
    /\ pc[t] = "use" /\ op[t] = "signal"
    /\ count[opaq] < MaxCount
    /\ count' = [count EXCEPT ![opaq] = @ + 1]
    /\ balance' = balance + 1
    /\ op' = [op EXCEPT ![t] = "none"]
    /\ GoTo(t, "idle")
    /\ UNCHANGED <<opaq, live, mine>>

\* Mutant: an eventfd without EFD_SEMAPHORE: one read takes every token.
WaitDrains(t) ==
    /\ pc[t] = "use" /\ op[t] = "wait"
    /\ count[opaq] > 0
    /\ count' = [count EXCEPT ![opaq] = 0]
    /\ balance' = balance - 1
    /\ op' = [op EXCEPT ![t] = "none"]
    /\ GoTo(t, "idle")
    /\ UNCHANGED <<opaq, live, mine>>

\* Mutant: a non-blocking read whose failure goes unnoticed.
WaitNonBlocking(t) ==
    /\ pc[t] = "use" /\ op[t] = "wait"
    /\ count' = [count EXCEPT ![opaq] = IF @ > 0 THEN @ - 1 ELSE 0]
    /\ balance' = balance - 1
    /\ op' = [op EXCEPT ![t] = "none"]
    /\ GoTo(t, "idle")
    /\ UNCHANGED <<opaq, live, mine>>

\* read(fd) on the field's object; blocks while the counter is zero, then
\* takes exactly one token (assert_eq(counter, 1), thread.cpp:112).
Wait(t) ==
    /\ pc[t] = "use" /\ op[t] = "wait"
    /\ count[opaq] > 0
    /\ count' = [count EXCEPT ![opaq] = @ - 1]
    /\ balance' = balance - 1
    /\ op' = [op EXCEPT ![t] = "none"]
    /\ GoTo(t, "idle")
    /\ UNCHANGED <<opaq, live, mine>>

\* ~sem_t: close(fd); unconsumed tokens go with it.
Close ==
    /\ Destroy
    /\ balance' = 0
    /\ UNCHANGED <<count, op>>

SemNext ==
    \/ \E t \in Signallers : Begin(t, "signal")
    \/ \E t \in Waiters : Begin(t, "wait")
    \/ \E t \in Threads :
          \/ CreateSem(t)
          \/ Signal(t)
          \/ Wait(t)
          \/ (Cas(t) \/ Discard(t)) /\ UNCHANGED <<count, op, balance>>
    \/ Close

SemSpec == SemInit /\ [][SemNext]_semVars

-----------------------------------------------------------------------------
\* Every signal() that returned is either still in the published counter or
\* was taken by exactly one wait(): none is lost to an object that lost the
\* initialisation race (thread.cpp:78-101).
TokensConserved ==
    balance = IF opaq = NoObject THEN 0 ELSE count[opaq]

\* wait() returns only against a signal() that returned before it and that no
\* other wait() has consumed (thread.cpp:84-120 implements Sem).  Closing the
\* handle starts a new semaphore, so the promise is about one life of it.
AbstractSem == INSTANCE Sem WITH count <- balance
SemSteps == [][opaq' # NoObject \/ opaq = NoObject => AbstractSem!Next]_balance
=============================================================================
