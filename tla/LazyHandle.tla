----------------------------- MODULE LazyHandle -----------------------------
(***************************************************************************)
(* How sem_t and mutex_t get their OS object (thread.cpp).  Neither        *)
(* constructor creates one: the opaq field starts at zero, and the first   *)
(* operation finds it zero, creates an object of its own and publishes it  *)
(* with one compare-and-swap.  A thread that loses the race destroys its   *)
(* object and goes on with the published one.  LazyMutex and LazySem add   *)
(* what is done with the object.                                           *)
(***************************************************************************)
CONSTANTS
    Threads,    \* threads that operate on the one handle
    Objects,    \* OS objects (heap cells, file descriptors) that can be made
    NoObject    \* the zero opaque_t

ASSUME NoObjectAssumption == NoObject \notin Objects

VARIABLES
    opaq,       \* the shared field: NoObject or the published object
    live,       \* objects created and not destroyed
    mine,       \* mine[t]: the object t created and has not yet published
    pc          \* pc[t]: where t is in an operation on the handle

Steps == {"idle", "create", "cas", "discard", "use", "held"}

HandleTypeOK ==
    /\ opaq \in Objects \union {NoObject}
    /\ live \subseteq Objects
    /\ mine \in [Threads -> Objects \union {NoObject}]
    /\ pc \in [Threads -> Steps]
    /\ \A t \in Threads : mine[t] # NoObject <=> pc[t] \in {"cas", "discard"}

HandleInit ==
    /\ opaq = NoObject
    /\ live = {}
    /\ mine = [t \in Threads |-> NoObject]
    /\ pc = [t \in Threads |-> "idle"]

GoTo(t, step) == pc' = [pc EXCEPT ![t] = step]

\* "if (!mutex.opaq)" / "if (!sem.opaq)": a plain, unlocked load.
Load(t) ==
    /\ pc[t] = "idle"
    /\ GoTo(t, IF opaq = NoObject THEN "create" ELSE "use")
    /\ UNCHANGED <<opaq, live, mine>>

\* First half of init(): create object o; an address or a descriptor that was
\* released earlier may be handed out again.
Create(t, o) ==
    /\ pc[t] = "create"
    /\ o \notin live
    /\ live' = live \union {o}
    /\ mine' = [mine EXCEPT ![t] = o]
    /\ GoTo(t, "cas")
    /\ UNCHANGED opaq

\* Mutant: a plain store instead of the compare-and-swap.
CasBlindStore(t) ==
    /\ pc[t] = "cas"
    /\ opaq' = mine[t]
    /\ mine' = [mine EXCEPT ![t] = NoObject]
    /\ GoTo(t, "use")
    /\ UNCHANGED live

\* set_atomic_cmp(opaq, 0, own object): publish, or learn that another thread
\* published first.
Cas(t) ==
    /\ pc[t] = "cas"
    /\ IF opaq = NoObject
       THEN /\ opaq' = mine[t]
            /\ mine' = [mine EXCEPT ![t] = NoObject]
            /\ GoTo(t, "use")
       ELSE /\ GoTo(t, "discard")
            /\ UNCHANGED <<opaq, mine>>
    /\ UNCHANGED live

\* Mutant: the loser forgets its object without destroying it.
DiscardLeaks(t) ==
    /\ pc[t] = "discard"
    /\ mine' = [mine EXCEPT ![t] = NoObject]
    /\ GoTo(t, "use")
    /\ UNCHANGED <<opaq, live>>

\* The loser's local "cleanup" handle goes out of scope and its destructor
\* destroys the object that was never published.
Discard(t) ==
    /\ pc[t] = "discard"
    /\ live' = live \ {mine[t]}
    /\ mine' = [mine EXCEPT ![t] = NoObject]
    /\ GoTo(t, "use")
    /\ UNCHANGED opaq

\* The destructor of the handle.  Its owner calls it when no thread is inside
\* an operation; the storage may then be constructed again.
Destroy ==
    /\ opaq # NoObject
    /\ \A t \in Threads : pc[t] = "idle"
    /\ live' = live \ {opaq}
    /\ opaq' = NoObject
    /\ UNCHANGED <<mine, pc>>

-----------------------------------------------------------------------------
(* The ownership discipline both handle types rest on. *)

\* No object leaks and none is used or destroyed after its destruction: the
\* live objects are exactly the published one and those still on their way to
\* the compare-and-swap or to the clean-up, and no two threads (nor a thread
\* and the handle) own the same one (thread.cpp:78-81 and 174-178).
NoStrayObjects ==
    /\ live = ({opaq} \union {mine[t] : t \in Threads}) \ {NoObject}
    /\ \A t \in Threads : mine[t] # NoObject => mine[t] # opaq
    /\ \A t, u \in Threads :
          t # u /\ mine[t] # NoObject => mine[t] # mine[u]

\* A thread past initialisation has a published object to work on: every
\* re-read of the field after "if (!opaq) init()" finds one (thread.cpp:91,
\* 109, 186, 205).
HandleReady ==
    \A t \in Threads : pc[t] \in {"discard", "use", "held"} => opaq \in live

\* While any thread is inside an operation the published object is never
\* replaced: what a thread locked or signalled is what the others wait on.
StablePublication ==
    [][opaq # NoObject /\ (\E t \in Threads : pc[t] # "idle")
         => opaq' = opaq]_<<opaq, pc>>
=============================================================================
