----------------------------- MODULE MCLazySem ------------------------------
(* Instance of LazySem for TLC: one thread of each role and one with both. *)
EXTENDS LazySem, TLC

MCSymmetry == Permutations(Objects)
=============================================================================
