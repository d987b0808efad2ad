------------------------------ MODULE MCQueue -------------------------------
(* Instance of Queue for TLC: the messages are alike. *)
EXTENDS Queue, TLC

MCSymmetry == Permutations(Messages)
=============================================================================
