-------------------------- MODULE MCCodeProvenance --------------------------
(* Instances of CodeProvenance for TLC. *)
EXTENDS CodeProvenance, TLC

OneDirectory == [p \in Paths |-> "src"]
Alike == Permutations(Names) \cup Permutations(Paths)
=============================================================================
