---------------------------- MODULE MCLazyMutex -----------------------------
(* Instance of LazyMutex for TLC: the objects are alike. *)
EXTENDS LazyMutex, TLC

MCSymmetry == Permutations(Objects)
=============================================================================
