---------------------------- MODULE MCOpenCodeIndex ----------------------------
(* Instances of OpenCodeIndex for TLC. *)
EXTENDS OpenCodeIndex
=============================================================================
