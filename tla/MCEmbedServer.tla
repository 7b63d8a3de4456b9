---------------------------- MODULE MCEmbedServer ----------------------------
(* Instances of EmbedServer for TLC. *)
EXTENDS EmbedServer, TLC

AnyProcess == Permutations(Servers) \cup Permutations(Starters) \cup Permutations(Clients)
=============================================================================
