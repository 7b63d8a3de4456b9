----------------------------- MODULE TurnMemory -----------------------------
(***************************************************************************)
(* What lociaction promises about one session, whatever processes and      *)
(* cursors produce it: the harness appends to a log, and the memory is a   *)
(* growing set of verbatim captures, at most one for each turn, each long  *)
(* enough to be worth keeping. A capture is never altered or forgotten.    *)
(***************************************************************************)
EXTENDS Transcript

VARIABLES
    log,      \* the session's log
    memory    \* captures: [first |-> line, last |-> line]

memVars == <<log, memory>>

Init ==
    /\ log = <<>>
    /\ memory = {}

Write ==
    /\ \E k \in LineKinds : log' = Append(log, k)
    /\ UNCHANGED memory

Remember ==
    /\ memory \subseteq memory'
    /\ \A c \in memory' \ memory :
          /\ IsCapture(log, c)
          /\ Holds(log, c.first, c.last, Substance)
    /\ \A c, d \in memory' : c.first = d.first => c = d
    /\ UNCHANGED log

Next == Write \/ Remember

Spec == Init /\ [][Next]_memVars
=============================================================================
