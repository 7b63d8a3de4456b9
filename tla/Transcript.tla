----------------------------- MODULE Transcript -----------------------------
(***************************************************************************)
(* A harness session log as lociaction sees it: an append-only JSONL file. *)
(* A line is known by its kind only; a line number stands for the byte     *)
(* offset of the line's end, so "seek to cursor" is "start at the line     *)
(* after the cursor".                                                      *)
(*                                                                         *)
(*   user   a real user prompt, shorter than min_chars on its own          *)
(*   ask    a real user prompt that reaches min_chars on its own           *)
(*   agent  an assistant entry with text: its turn reaches min_chars       *)
(*   edit   an assistant tool use, without text, on a path an ignore       *)
(*          pattern names                                                  *)
(*   junk   a line json.loads refuses, or that is not an object            *)
(*   huge   a line longer than JSONL_MAX_LINE_BYTES                        *)
(***************************************************************************)
EXTENDS Integers, Sequences, FiniteSets

Prompts   == {"user", "ask"}
Entries   == Prompts \cup {"agent", "edit"}
Substance == {"ask", "agent"}
LineKinds == Entries \cup {"junk", "huge"}

\* No line of a..b of the log l opens a turn.
NoPrompt(l, a, b) == \A i \in a..b : l[i] \notin Prompts

\* Line i of l belongs to the turn that the prompt at line b opened.
InTurn(l, b, i) ==
    /\ b \in DOMAIN l
    /\ i \in b..Len(l)
    /\ l[b] \in Prompts
    /\ NoPrompt(l, b + 1, i)

\* The turn opened at b is over: a later prompt follows it.
Finished(l, b) == b \in DOMAIN l /\ l[b] \in Prompts /\ ~NoPrompt(l, b + 1, Len(l))

\* The turn opened at b holds, so far, a line of one of the kinds K.
TurnHas(l, b, K) == \E i \in b..Len(l) : InTurn(l, b, i) /\ l[i] \in K

\* Lines c.first..c.last are a verbatim beginning of one turn of l.
IsCapture(l, c) ==
    /\ c.first \in DOMAIN l
    /\ InTurn(l, c.first, c.last)

\* Lines a..b of l hold a line of one of the kinds K.
Holds(l, a, b, K) == \E i \in a..b : l[i] \in K
=============================================================================
