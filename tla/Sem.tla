--------------------------------- MODULE Sem --------------------------------
(***************************************************************************)
(* What sem_t promises (thread.hpp:5-18): a counting semaphore.  signal()  *)
(* adds one token; wait() blocks until there is a token and takes it.  The *)
(* detailed LazySem implements this module; Queue is built on it.          *)
(***************************************************************************)
EXTENDS Naturals

VARIABLE count      \* signals that no wait has consumed yet

Init == count = 0

Signal == count' = count + 1

\* Mutant: wait() returns although the counter is zero.
WaitUnguarded == count' = IF count > 0 THEN count - 1 ELSE 0

Wait ==
    /\ count > 0
    /\ count' = count - 1

Next == Signal \/ Wait

Spec == Init /\ [][Next]_count
=============================================================================
