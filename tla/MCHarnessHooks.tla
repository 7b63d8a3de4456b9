--------------------------- MODULE MCHarnessHooks ---------------------------
(* Instances of HarnessHooks for TLC.                                      *)
EXTENDS HarnessHooks, TLC

Alike == Permutations(Procs)

At(event, matcher, action, command) ==
    [event |-> event, matcher |-> matcher, action |-> action, command |-> command]

Mine == At("Stop", "none", "none", "users")

Lookalike == At("Stop", "none", "index", "lookalike")

\* Nothing of loci's; an older installation under a matcher of the user's;
\* a partial one; a legacy SessionEnd beside the user's own.
FoundHooks == {
    {Mine, Lookalike},
    {Mine, At("Stop", "none", "index", "stale"),
     At("SessionStart", "custom", "server", "stale"),
     At("SessionStart", "custom", "prime", "ours")},
    {Mine, Lookalike, At("SessionEnd", "none", "distill", "stale"),
     At("SessionEnd", "none", "none", "users"),
     At("SessionEnd", "custom", "none", "users")}}

ASSUME FoundTidyAssumption == FoundTidy
=============================================================================
