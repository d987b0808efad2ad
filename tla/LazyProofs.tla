---------------------------- MODULE LazyProofs ------------------------------
(***************************************************************************)
(* Proofs about the lazily created handles, for any set of threads, any    *)
(* supply of OS objects and any limit of the semaphore's counter.  First   *)
(* who owns which OS object, proved once for both kinds of handle whatever *)
(* is done with the published one; then the mutex, and the semaphore.      *)
(***************************************************************************)
EXTENDS LazyMutex, LazySem, TLAPS

-----------------------------------------------------------------------------
(* The handle. *)

handle == <<opaq, live, mine, pc>>

\* A thread that has the published object uses it, and may come back.
Operate(t) ==
    /\ pc[t] \in {"use", "held"}
    /\ \E step \in {"idle", "held"} : GoTo(t, step)
    /\ UNCHANGED <<opaq, live, mine>>

HandleNext ==
    \/ \E t \in Threads :
          \/ Load(t)
          \/ \E o \in Objects : Create(t, o)
          \/ Cas(t)
          \/ Discard(t)
          \/ Operate(t)
    \/ Destroy
    \/ UNCHANGED handle

HandleInv == HandleTypeOK /\ NoStrayObjects /\ HandleReady

USE NoObjectAssumption DEF HandleTypeOK, Steps, GoTo

LEMMA HandleInvInit == HandleInit => HandleInv
BY DEF HandleInit, HandleInv, NoStrayObjects, HandleReady

LEMMA HandleTypeStep == HandleTypeOK /\ HandleNext => HandleTypeOK'
<1>. SUFFICES ASSUME HandleTypeOK, HandleNext PROVE HandleTypeOK'
  OBVIOUS
<1>1. ASSUME NEW t \in Threads, Load(t) PROVE HandleTypeOK'
  BY <1>1 DEF Load
<1>2. ASSUME NEW t \in Threads, NEW o \in Objects, Create(t, o)
      PROVE  HandleTypeOK'
  BY <1>2 DEF Create
<1>3. ASSUME NEW t \in Threads, Cas(t) PROVE HandleTypeOK'
  BY <1>3 DEF Cas
<1>4. ASSUME NEW t \in Threads, Discard(t) PROVE HandleTypeOK'
  BY <1>4 DEF Discard
<1>5. ASSUME NEW t \in Threads, Operate(t) PROVE HandleTypeOK'
  BY <1>5 DEF Operate
<1>6. CASE Destroy
  BY <1>6 DEF Destroy
<1>7. CASE UNCHANGED handle
  BY <1>7 DEF handle
<1>. QED BY <1>1, <1>2, <1>3, <1>4, <1>5, <1>6, <1>7 DEF HandleNext

\* An object is created by one thread, then published, or destroyed by the
\* thread that lost the race.
LEMMA ObjectsStep ==
    HandleTypeOK /\ NoStrayObjects /\ HandleNext => NoStrayObjects'
<1>. SUFFICES ASSUME HandleTypeOK, NoStrayObjects, HandleNext
              PROVE  NoStrayObjects'
  OBVIOUS
<1>. USE DEF NoStrayObjects
<1>1. ASSUME NEW t \in Threads, Load(t) PROVE NoStrayObjects'
  BY <1>1 DEF Load
<1>2. ASSUME NEW t \in Threads, NEW o \in Objects, Create(t, o)
      PROVE  NoStrayObjects'
  BY <1>2 DEF Create
<1>3. ASSUME NEW t \in Threads, Cas(t) PROVE NoStrayObjects'
  BY <1>3 DEF Cas
<1>4. ASSUME NEW t \in Threads, Discard(t) PROVE NoStrayObjects'
  BY <1>4 DEF Discard
<1>5. ASSUME NEW t \in Threads, Operate(t) PROVE NoStrayObjects'
  BY <1>5 DEF Operate
<1>6. CASE Destroy
  BY <1>6 DEF Destroy
<1>7. CASE UNCHANGED handle
  BY <1>7 DEF handle
<1>. QED BY <1>1, <1>2, <1>3, <1>4, <1>5, <1>6, <1>7 DEF HandleNext

LEMMA ReadyStep ==
    HandleTypeOK /\ NoStrayObjects /\ HandleReady /\ HandleNext => HandleReady'
<1>. SUFFICES ASSUME HandleTypeOK, NoStrayObjects, HandleReady, HandleNext
              PROVE  HandleReady'
  OBVIOUS
<1>. USE DEF HandleReady
<1>1. ASSUME NEW t \in Threads, Load(t) PROVE HandleReady'
  BY <1>1 DEF Load, NoStrayObjects
<1>2. ASSUME NEW t \in Threads, NEW o \in Objects, Create(t, o)
      PROVE  HandleReady'
  BY <1>2 DEF Create
<1>3. ASSUME NEW t \in Threads, Cas(t) PROVE HandleReady'
  BY <1>3 DEF Cas, NoStrayObjects
<1>4. ASSUME NEW t \in Threads, Discard(t) PROVE HandleReady'
  BY <1>4 DEF Discard, NoStrayObjects
<1>5. ASSUME NEW t \in Threads, Operate(t) PROVE HandleReady'
  BY <1>5 DEF Operate
<1>6. CASE Destroy
  BY <1>6 DEF Destroy
<1>7. CASE UNCHANGED handle
  BY <1>7 DEF handle
<1>. QED BY <1>1, <1>2, <1>3, <1>4, <1>5, <1>6, <1>7 DEF HandleNext

LEMMA HandleInvStep == HandleInv /\ HandleNext => HandleInv'
<1>. SUFFICES ASSUME HandleInv, HandleNext PROVE HandleInv'
  OBVIOUS
<1>1. HandleTypeOK'
  BY HandleTypeStep DEF HandleInv
<1>2. NoStrayObjects' /\ HandleReady'
  BY ObjectsStep, ReadyStep DEF HandleInv
<1>. QED BY <1>1, <1>2 DEF HandleInv

\* Only the compare-and-swap and the destructor write the field, and neither
\* does while a thread relies on it.
LEMMA StableStep ==
    HandleTypeOK /\ HandleNext
      => [opaq # NoObject /\ (\E t \in Threads : pc[t] # "idle")
            => opaq' = opaq]_<<opaq, pc>>
BY DEF HandleNext, handle, Load, Create, Cas, Discard, Operate, Destroy

-----------------------------------------------------------------------------
(* The mutex.  That it excludes follows from the owners of the pthread     *)
(* mutexes only because a thread that holds the lock and one that takes it *)
(* mean the same object; that in turn needs the ownership above.           *)

Owners == owner \in [Objects -> Threads \union {Nobody}]

MutexInv == HandleInv /\ Owners /\ UnlocksOwnMutex

USE NobodyAssumption DEF Owners, Holders

LEMMA MutexInvInit == MutexInit => MutexInv
BY HandleInvInit DEF MutexInit, HandleInit, MutexInv, UnlocksOwnMutex

LEMMA HandleStepOfMutex == [MutexNext]_mutexVars => HandleNext
<1>. USE DEF HandleNext
<1>1. ASSUME NEW t \in Threads, LockMutex(t) PROVE HandleNext
  BY <1>1 DEF LockMutex, Operate
<1>2. ASSUME NEW t \in Threads, UnlockMutex(t) PROVE HandleNext
  BY <1>2 DEF UnlockMutex, Operate
<1>3. ASSUME NEW t \in Threads, CreateMutex(t) PROVE HandleNext
  BY <1>3 DEF CreateMutex
<1>4. CASE UNCHANGED mutexVars
  BY <1>4 DEF mutexVars, handle
<1>. QED BY <1>1, <1>2, <1>3, <1>4 DEF MutexNext

LEMMA OwnersStep == HandleInv /\ Owners /\ [MutexNext]_mutexVars => Owners'
BY DEF HandleInv, MutexNext, mutexVars, CreateMutex, LockMutex, UnlockMutex, Destroy

\* A new object is not the published one, and the published one stays while a
\* thread holds the lock: no step but its holder's touches its owner.
LEMMA OwnerStep == MutexInv /\ [MutexNext]_mutexVars => UnlocksOwnMutex'
<1>. SUFFICES ASSUME MutexInv, [MutexNext]_mutexVars PROVE UnlocksOwnMutex'
  OBVIOUS
<1>. USE DEF UnlocksOwnMutex, MutexInv, HandleInv
<1>a. \A u \in Threads : pc[u] = "held" => opaq \in live /\ opaq # NoObject
  BY DEF HandleReady
<1>1. ASSUME NEW t \in Threads, Load(t), UNCHANGED owner
      PROVE  UnlocksOwnMutex'
  BY <1>1 DEF Load
<1>2. ASSUME NEW t \in Threads, CreateMutex(t) PROVE UnlocksOwnMutex'
  BY <1>2, <1>a DEF CreateMutex, Create
<1>3. ASSUME NEW t \in Threads, Cas(t), UNCHANGED owner PROVE UnlocksOwnMutex'
  BY <1>3, <1>a DEF Cas
<1>4. ASSUME NEW t \in Threads, Discard(t), UNCHANGED owner
      PROVE  UnlocksOwnMutex'
  BY <1>4 DEF Discard
<1>5. ASSUME NEW t \in Threads, LockMutex(t) PROVE UnlocksOwnMutex'
  BY <1>5, <1>a DEF LockMutex, HandleReady
<1>6. ASSUME NEW t \in Threads, UnlockMutex(t) PROVE UnlocksOwnMutex'
  BY <1>6, <1>a DEF UnlockMutex
<1>7. CASE Destroy /\ UNCHANGED owner
  BY <1>7 DEF Destroy
<1>8. CASE UNCHANGED mutexVars
  BY <1>8 DEF mutexVars
<1>. QED BY <1>1, <1>2, <1>3, <1>4, <1>5, <1>6, <1>7, <1>8 DEF MutexNext

LEMMA MutexInvStep == MutexInv /\ [MutexNext]_mutexVars => MutexInv'
<1>. SUFFICES ASSUME MutexInv, [MutexNext]_mutexVars PROVE MutexInv'
  OBVIOUS
<1>1. HandleInv'
  BY HandleStepOfMutex, HandleInvStep DEF MutexInv
<1>2. Owners' /\ UnlocksOwnMutex'
  <2>. HIDE DEF Owners
  <2>. QED BY OwnersStep, OwnerStep DEF MutexInv
<1>. QED BY <1>1, <1>2 DEF MutexInv

LEMMA MutexInvariant == MutexSpec => []MutexInv
BY MutexInvInit, MutexInvStep, PTL DEF MutexSpec

\* No object leaks and none is destroyed twice or while in use, whichever
\* threads race in the first operation (thread.cpp:163-178).
THEOREM ObjectsAccounted == MutexSpec => [](NoStrayObjects /\ HandleReady)
BY MutexInvariant, PTL DEF MutexInv, HandleInv

\* Every release unlocks a mutex its caller locked (thread.cpp:205-206).
THEOREM UnlocksCorrect == MutexSpec => []UnlocksOwnMutex
BY MutexInvariant, PTL DEF MutexInv

\* The published object is not replaced under a thread that may be using it
\* (thread.cpp:170-176).
THEOREM PublicationStable == MutexSpec => StablePublication
<1>1. MutexInv /\ [MutexNext]_mutexVars
        => [opaq # NoObject /\ (\E t \in Threads : pc[t] # "idle")
              => opaq' = opaq]_<<opaq, pc>>
  BY StableStep, HandleStepOfMutex DEF MutexInv, HandleInv
<1>. QED BY <1>1, MutexInvariant, PTL DEF MutexSpec, StablePublication

-----------------------------------------------------------------------------
(* What the callers rely on. *)

LEMMA LockInit == MutexInit => AbstractLock!Init
BY DEF MutexInit, HandleInit, AbstractLock!Init

LEMMA LockStep == MutexInv /\ [MutexNext]_mutexVars => [AbstractLock!Next]_Holders
<1>. SUFFICES ASSUME MutexInv, [MutexNext]_mutexVars PROVE [AbstractLock!Next]_Holders
  OBVIOUS
<1>. USE DEF MutexInv, HandleInv
<1>1. ASSUME NEW t \in Threads, Load(t) PROVE Holders' = Holders
  BY <1>1 DEF Load
<1>2. ASSUME NEW t \in Threads, CreateMutex(t) PROVE Holders' = Holders
  BY <1>2 DEF CreateMutex, Create
<1>3. ASSUME NEW t \in Threads, Cas(t) PROVE Holders' = Holders
  BY <1>3 DEF Cas
<1>4. ASSUME NEW t \in Threads, Discard(t) PROVE Holders' = Holders
  BY <1>4 DEF Discard
<1>5. ASSUME NEW t \in Threads, LockMutex(t) PROVE AbstractLock!Next
  <2>1. Holders = {}
    BY <1>5 DEF LockMutex, UnlocksOwnMutex
  <2>2. Holders' = {t}
    BY <1>5, <2>1 DEF LockMutex
  <2>. QED BY <2>1, <2>2 DEF AbstractLock!Next, AbstractLock!Acquire
<1>6. ASSUME NEW t \in Threads, UnlockMutex(t) PROVE AbstractLock!Next
  <2>1. Holders = {t}
    BY <1>6 DEF UnlockMutex, UnlocksOwnMutex
  <2>2. Holders' = {}
    BY <1>6, <2>1 DEF UnlockMutex
  <2>. QED BY <2>1, <2>2 DEF AbstractLock!Next, AbstractLock!Release
<1>7. CASE Destroy
  BY <1>7 DEF Destroy
<1>8. CASE UNCHANGED mutexVars
  BY <1>8 DEF mutexVars
<1>. QED BY <1>1, <1>2, <1>3, <1>4, <1>5, <1>6, <1>7, <1>8 DEF MutexNext

\* A mutex_t that is created by its first users is a mutex (thread.cpp:181-198).
THEOREM LazyMutexImplementsLock == MutexSpec => LockSpec
BY LockInit, LockStep, MutexInvariant, PTL DEF MutexSpec, LockSpec, AbstractLock!Spec

-----------------------------------------------------------------------------
(* The semaphore.  A signal is never lost because every operation works on *)
(* the published object, and the counter of an object that is not yet      *)
(* published is zero: publishing it loses and invents no token.            *)

Counters ==
    /\ count \in [Objects -> 0 .. MaxCount]
    /\ op \in [Threads -> {"none", "signal", "wait"}]

\* An object on its way to the compare-and-swap has no tokens.
FreshCounters ==
    \A t \in Threads : mine[t] # NoObject => count[mine[t]] = 0

SemInv == HandleInv /\ Counters /\ FreshCounters /\ TokensConserved

LEMMA SemInvInit == SemInit => SemInv
BY HandleInvInit, SemAssumption
   DEF SemInit, HandleInit, SemInv, Counters, FreshCounters, TokensConserved

LEMMA HandleStepOfSem == [SemNext]_semVars => HandleNext
<1>. USE DEF HandleNext
<1>. Signallers \subseteq Threads /\ Waiters \subseteq Threads
  BY SemAssumption
<1>1. ASSUME NEW t \in Threads, NEW o, Begin(t, o) PROVE HandleNext
  BY <1>1 DEF Begin
<1>2. ASSUME NEW t \in Threads, Signal(t) PROVE HandleNext
  BY <1>2 DEF Signal, Operate
<1>3. ASSUME NEW t \in Threads, Wait(t) PROVE HandleNext
  BY <1>3 DEF Wait, Operate
<1>4. ASSUME NEW t \in Threads, CreateSem(t) PROVE HandleNext
  BY <1>4 DEF CreateSem
<1>5. CASE Close
  BY <1>5 DEF Close
<1>6. CASE UNCHANGED semVars
  BY <1>6 DEF semVars, handle
<1>. QED BY <1>1, <1>2, <1>3, <1>4, <1>5, <1>6 DEF SemNext

LEMMA CountersStep == SemInv /\ [SemNext]_semVars => Counters'
<1>. SUFFICES ASSUME SemInv, [SemNext]_semVars PROVE Counters'
  OBVIOUS
<1>. Signallers \subseteq Threads /\ Waiters \subseteq Threads
     /\ MaxCount \in Nat
  BY SemAssumption
<1>. USE DEF SemInv, HandleInv, Counters
<1>1. ASSUME NEW t \in Threads, NEW o \in {"signal", "wait"}, Begin(t, o)
      PROVE  Counters'
  BY <1>1 DEF Begin
<1>2. ASSUME NEW t \in Threads, CreateSem(t) PROVE Counters'
  BY <1>2 DEF CreateSem
<1>3. ASSUME NEW t \in Threads, Signal(t) PROVE Counters'
  BY <1>3 DEF Signal, HandleReady
<1>4. ASSUME NEW t \in Threads, Wait(t) PROVE Counters'
  BY <1>4 DEF Wait, HandleReady
<1>5. CASE UNCHANGED <<count, op>>
  BY <1>5
<1>. QED BY <1>1, <1>2, <1>3, <1>4, <1>5 DEF SemNext, Close, semVars

LEMMA FreshStep == SemInv /\ [SemNext]_semVars => FreshCounters'
<1>. SUFFICES ASSUME SemInv, [SemNext]_semVars PROVE FreshCounters'
  OBVIOUS
<1>. Signallers \subseteq Threads /\ Waiters \subseteq Threads
  BY SemAssumption
<1>. USE DEF SemInv, HandleInv, Counters, FreshCounters, NoStrayObjects
<1>1. ASSUME NEW t \in Threads, NEW o, Begin(t, o) PROVE FreshCounters'
  BY <1>1 DEF Begin, Load
<1>2. ASSUME NEW t \in Threads, CreateSem(t) PROVE FreshCounters'
  BY <1>2 DEF CreateSem, Create
<1>3. ASSUME NEW t \in Threads, Cas(t), UNCHANGED count PROVE FreshCounters'
  BY <1>3 DEF Cas
<1>4. ASSUME NEW t \in Threads, Discard(t), UNCHANGED count
      PROVE  FreshCounters'
  BY <1>4 DEF Discard
<1>5. ASSUME NEW t \in Threads, Signal(t) PROVE FreshCounters'
  BY <1>5 DEF Signal
<1>6. ASSUME NEW t \in Threads, Wait(t) PROVE FreshCounters'
  BY <1>6 DEF Wait
<1>7. CASE Close
  BY <1>7 DEF Close, Destroy
<1>8. CASE UNCHANGED semVars
  BY <1>8 DEF semVars
<1>. QED BY <1>1, <1>2, <1>3, <1>4, <1>5, <1>6, <1>7, <1>8 DEF SemNext

LEMMA TokensStep == SemInv /\ [SemNext]_semVars => TokensConserved'
<1>. SUFFICES ASSUME SemInv, [SemNext]_semVars PROVE TokensConserved'
  OBVIOUS
<1>. Signallers \subseteq Threads /\ Waiters \subseteq Threads
  BY SemAssumption
<1>. USE DEF SemInv, HandleInv, Counters, TokensConserved
<1>1. ASSUME NEW t \in Threads, NEW o, Begin(t, o) PROVE TokensConserved'
  BY <1>1 DEF Begin, Load
<1>2. ASSUME NEW t \in Threads, CreateSem(t) PROVE TokensConserved'
  BY <1>2 DEF CreateSem, Create, NoStrayObjects
<1>3. ASSUME NEW t \in Threads, Cas(t), UNCHANGED <<count, balance>>
      PROVE  TokensConserved'
  BY <1>3 DEF Cas, FreshCounters
<1>4. ASSUME NEW t \in Threads, Discard(t), UNCHANGED <<count, balance>>
      PROVE  TokensConserved'
  BY <1>4 DEF Discard
<1>5. ASSUME NEW t \in Threads, Signal(t) PROVE TokensConserved'
  BY <1>5 DEF Signal, HandleReady
<1>6. ASSUME NEW t \in Threads, Wait(t) PROVE TokensConserved'
  BY <1>6 DEF Wait, HandleReady
<1>7. CASE Close
  BY <1>7 DEF Close, Destroy
<1>8. CASE UNCHANGED semVars
  BY <1>8 DEF semVars
<1>. QED BY <1>1, <1>2, <1>3, <1>4, <1>5, <1>6, <1>7, <1>8 DEF SemNext

LEMMA SemInvStep == SemInv /\ [SemNext]_semVars => SemInv'
<1>. SUFFICES ASSUME SemInv, [SemNext]_semVars PROVE SemInv'
  OBVIOUS
<1>1. HandleInv'
  BY HandleStepOfSem, HandleInvStep DEF SemInv
<1>2. Counters' /\ FreshCounters' /\ TokensConserved'
  BY CountersStep, FreshStep, TokensStep
<1>. QED BY <1>1, <1>2 DEF SemInv

LEMMA SemInvariant == SemSpec => []SemInv
BY SemInvInit, SemInvStep, PTL DEF SemSpec

LEMMA SemTypeFollows == SemInv => SemTypeOK
BY SemAssumption DEF SemInv, HandleInv, Counters, TokensConserved, SemTypeOK

\* Every variable keeps its type: the counter stays within the limit of the
\* eventfd, and no more waits than signals have returned.
THEOREM SemTypeCorrect == SemSpec => []SemTypeOK
BY SemInvariant, SemTypeFollows, PTL

\* No signal is lost to an object that lost the initialisation race
\* (thread.cpp:78-101).
THEOREM TokensCorrect == SemSpec => []TokensConserved
BY SemInvariant, PTL DEF SemInv

-----------------------------------------------------------------------------
LEMMA SemStep ==
    SemInv /\ [SemNext]_semVars
      => [opaq' # NoObject \/ opaq = NoObject => AbstractSem!Next]_balance
<1>. SUFFICES ASSUME SemInv, [SemNext]_semVars, opaq' # NoObject \/ opaq = NoObject,
                     balance' # balance
              PROVE  AbstractSem!Next
  OBVIOUS
<1>. USE DEF SemInv, HandleInv, Counters, TokensConserved
<1>1. ASSUME NEW t \in Threads, Signal(t) PROVE AbstractSem!Next
  BY <1>1 DEF Signal, AbstractSem!Next, AbstractSem!Signal
<1>2. ASSUME NEW t \in Threads, Wait(t) PROVE AbstractSem!Next
  <2>1. balance > 0
    BY <1>2 DEF Wait, HandleReady
  <2>. QED BY <1>2, <2>1 DEF Wait, AbstractSem!Next, AbstractSem!Wait
<1>3. CASE Close
  BY <1>3 DEF Close, Destroy
<1>. QED BY <1>1, <1>2, <1>3 DEF SemNext, semVars, Begin, CreateSem

\* While the handle lives, its signals and waits are those of a counting
\* semaphore (thread.cpp:84-120).
THEOREM LazySemImplementsSem == SemSpec => SemSteps
BY SemStep, SemInvariant, PTL DEF SemSpec, SemSteps
=============================================================================
