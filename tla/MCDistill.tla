------------------------------ MODULE MCDistill ------------------------------
(* Instances of Distill for TLC. *)
EXTENDS Distill, TLC

AnyNames == Permutations(Clis) \cup Permutations(Sessions) \cup Permutations(Answers)
=============================================================================
