--------------------------- MODULE MCSessionIndex ---------------------------
(* Instances of SessionIndex for TLC. *)
EXTENDS SessionIndex, TLC

AnyProcess == Permutations(Indexers)
=============================================================================
