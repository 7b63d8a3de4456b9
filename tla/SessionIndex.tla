---------------------------- MODULE SessionIndex ----------------------------
(***************************************************************************)
(* Incremental indexing of one JSONL session: index_file of indexer.py and *)
(* the transaction of core/ingest.py it ends in, run by several `loci      *)
(* index` processes at once (turn-end hooks of any session, `loci init`, a *)
(* user). No lock serialises them. The reads of one run are autocommitted  *)
(* one by one; its writes are one transaction.                             *)
(***************************************************************************)
EXTENDS Transcript

CONSTANTS
    Indexers,     \* the processes that may run `loci index`
    Kinds,        \* kinds of lines the harness writes in this instance
    PlyIds,       \* TRUE for grok: an exchange's id is made of its ply
    MaxEntries,   \* JSONL_MAX_ENTRIES, which also stands for the byte limit
    MaxLog,       \* bound: lines the harness appends
    MaxCrashes    \* bound: runs killed half-way

ASSUME IndexAssumption ==
    /\ Kinds \subseteq LineKinds
    /\ PlyIds \in BOOLEAN
    /\ MaxEntries \in Nat \ {0}
    /\ MaxLog \in Nat
    /\ MaxCrashes \in Nat

NoCursor == -1
NoPly    == -1

VARIABLES
    log,          \* the harness's file
    ignoring,     \* .lociaction/ignore names the sensitive paths
    cursor,       \* sessions.cursor: line up to which the log is consumed
    lastPlyEnd,   \* conversations.last_ply_end
    stored,       \* the exchanges rows of this session
    pc,           \* where each run stands
    seenPly,      \* last_ply_end as the run read it
    seenCursor,   \* cursor as the run read it
    batch,        \* exchanges the run is about to write
    crashes

dbVars  == <<cursor, lastPlyEnd, stored>>
runVars == <<pc, seenPly, seenCursor, batch>>
vars    == <<log, ignoring, dbVars, runVars, crashes>>

-----------------------------------------------------------------------------
(* Reading and parsing                                                     *)

\* The lines a read from offset off accepts: it skips what does not parse,
\* stops for good at an oversized line and after MaxEntries entries.
Chunk(off) ==
    {i \in off + 1..Len(log) :
        /\ log[i] \in Entries
        /\ \A k \in off + 1..i : log[k] # "huge"
        /\ Cardinality({k \in off + 1..i : log[k] \in Entries}) <= MaxEntries}

\* The exchanges of a chunk: from each prompt to the last entry before the
\* next prompt, or to the end of the chunk when no other prompt follows.
Turns(C) ==
    {t \in C \X C :
        /\ log[t[1]] \in Prompts
        /\ t[1] <= t[2]
        /\ NoPrompt(log, t[1] + 1, t[2])
        /\ \A i \in C : i > t[2] => ~NoPrompt(log, t[2] + 1, i)}

Ply(C, offset, i) == offset + Cardinality({k \in C : k < i})

Parse(C, offset) ==
    {[first |-> t[1], last |-> t[2],
      start |-> Ply(C, offset, t[1]), end |-> Ply(C, offset, t[2])] : t \in Turns(C)}

\* Fault: the offset is last_ply_end itself, not the ply after it.
PlyOffsetOffByOne(p) == IF seenCursor[p] # NoCursor THEN seenPly[p] ELSE 0

\* The plies of a run continue after the ones it believes are stored.
PlyOffset(p) == IF seenCursor[p] # NoCursor THEN seenPly[p] + 1 ELSE 0

ByteOffset(p) == IF seenCursor[p] # NoCursor THEN seenCursor[p] ELSE 0

Trivial(x)   == ~Holds(log, x.first, x.last, Substance)
Sensitive(x) == Holds(log, x.first, x.last, {"edit"})

\* The user entry's uuid is as good as its line number; grok has only plies.
IdOf(x) == IF PlyIds THEN x.start ELSE x.first

Known == {IdOf(y) : y \in stored}

-----------------------------------------------------------------------------
(* One run of index_file                                                   *)

Begin(p) ==
    /\ pc[p] = "idle"
    /\ pc' = [pc EXCEPT ![p] = "cursor"]
    /\ seenPly' = [seenPly EXCEPT ![p] = lastPlyEnd]
    /\ UNCHANGED <<log, ignoring, dbVars, seenCursor, batch, crashes>>

ReadCursor(p) ==
    /\ pc[p] = "cursor"
    /\ pc' = [pc EXCEPT ![p] = "read"]
    /\ seenCursor' = [seenCursor EXCEPT ![p] = cursor]
    /\ UNCHANGED <<log, ignoring, dbVars, seenPly, batch, crashes>>

ReadLog(p) ==
    /\ pc[p] = "read"
    /\ pc' = [pc EXCEPT ![p] = "reconcile"]
    /\ batch' = [batch EXCEPT ![p] =
          {x \in Parse(Chunk(ByteOffset(p)), PlyOffset(p)) :
              /\ ~Trivial(x)
              /\ x.start > seenPly[p]
              /\ ~(ignoring /\ Sensitive(x))}]
    /\ UNCHANGED <<log, ignoring, dbVars, seenPly, seenCursor, crashes>>

\* The run forgets its locals when it ends.
Return(p) ==
    /\ pc' = [pc EXCEPT ![p] = "idle"]
    /\ seenPly' = [seenPly EXCEPT ![p] = NoPly]
    /\ seenCursor' = [seenCursor EXCEPT ![p] = NoCursor]
    /\ batch' = [batch EXCEPT ![p] = {}]

\* Exchanges the database already knows are dropped; with nothing new the
\* run returns and leaves the cursor where it is.
Reconcile(p) ==
    LET fresh == {x \in batch[p] : IdOf(x) \notin Known} IN
    /\ pc[p] = "reconcile"
    /\ \/ /\ fresh = {}
          /\ Return(p)
       \/ /\ fresh # {}
          /\ pc' = [pc EXCEPT ![p] = "ingest"]
          /\ batch' = [batch EXCEPT ![p] = fresh]
          /\ UNCHANGED <<seenPly, seenCursor>>
    /\ UNCHANGED <<log, ignoring, dbVars, crashes>>

\* The exchange the cursor is taken from is the last of the batch.
IsLast(x, S) == x \in S /\ \A y \in S : y.first <= x.first

\* Fault: rows are inserted without a second look at the known ids.
InsertedUnchecked(S) == stored \cup S

\* Fault: INSERT OR REPLACE, the later writer wins.
InsertedReplacing(S) == {y \in stored : \A x \in S : IdOf(x) # IdOf(y)} \cup S

\* The exchanges table after the rows S whose ids it does not hold are added.
Inserted(S) == stored \cup {x \in S : IdOf(x) \notin Known}

\* Fault: the cursor keeps the last ply where it should keep a byte offset.
NextCursorPly(x) == x.end

\* Fault: the cursor moves to the end of the file, past what was parsed.
NextCursorEndOfFile(x) == Len(log)

NextCursor(x) == x.last

\* One transaction: the session's cursor, the new rows, the last ply.
Ingest(p) ==
    /\ pc[p] = "ingest"
    /\ stored' = Inserted(batch[p])
    /\ \E x \in batch[p] :
          /\ IsLast(x, batch[p])
          /\ cursor' = NextCursor(x)
          /\ lastPlyEnd' = IF x.end > lastPlyEnd THEN x.end ELSE lastPlyEnd
    /\ Return(p)
    /\ UNCHANGED <<log, ignoring, crashes>>

-----------------------------------------------------------------------------
(* The environment                                                         *)

\* The harness writes a line, in the middle of a turn or between turns.
AppendLine ==
    /\ Len(log) < MaxLog
    /\ \E k \in Kinds : log' = Append(log, k)
    /\ UNCHANGED <<ignoring, dbVars, runVars, crashes>>

\* The user adds or removes the ignore pattern.
ToggleIgnore ==
    /\ ignoring' = ~ignoring
    /\ UNCHANGED <<log, dbVars, runVars, crashes>>

\* A run is killed: an open transaction is rolled back by SQLite.
Crash(p) ==
    /\ pc[p] # "idle"
    /\ crashes < MaxCrashes
    /\ crashes' = crashes + 1
    /\ Return(p)
    /\ UNCHANGED <<log, ignoring, dbVars>>

-----------------------------------------------------------------------------
Init ==
    /\ log = <<>>
    /\ ignoring = FALSE
    /\ cursor = NoCursor
    /\ lastPlyEnd = NoPly
    /\ stored = {}
    /\ pc = [p \in Indexers |-> "idle"]
    /\ seenPly = [p \in Indexers |-> NoPly]
    /\ seenCursor = [p \in Indexers |-> NoCursor]
    /\ batch = [p \in Indexers |-> {}]
    /\ crashes = 0

Step(p) == ReadCursor(p) \/ ReadLog(p) \/ Reconcile(p) \/ Ingest(p)

Next ==
    \/ AppendLine
    \/ ToggleIgnore
    \/ \E p \in Indexers : Begin(p) \/ Step(p) \/ Crash(p)

Spec == Init /\ [][Next]_vars

\* Hooks call `loci index` at every turn end, and a started run takes its
\* next step: nothing in it waits for another process for ever.
FairSpec == Spec /\ \A p \in Indexers : WF_vars(Begin(p)) /\ WF_vars(Step(p))

-----------------------------------------------------------------------------
(* Properties                                                              *)

Exchange == [first : 1..MaxLog, last : 1..MaxLog, start : Nat, end : Nat]

TypeOK ==
    /\ log \in Seq(Kinds) /\ Len(log) <= MaxLog
    /\ ignoring \in BOOLEAN
    /\ cursor \in 1..MaxLog \cup {NoCursor}
    /\ lastPlyEnd \in Nat \cup {NoPly}
    /\ stored \subseteq Exchange
    /\ pc \in [Indexers -> {"idle", "cursor", "read", "reconcile", "ingest"}]
    /\ seenPly \in [Indexers -> Nat \cup {NoPly}]
    /\ seenCursor \in [Indexers -> 1..MaxLog \cup {NoCursor}]
    /\ batch \in [Indexers -> SUBSET Exchange]
    /\ crashes \in 0..MaxCrashes

\* No line of the log is stored by two exchanges: index_file may run in
\* several processes that each read the same tail of the log.
NoLineStoredTwice ==
    \A x, y \in stored : x # y => x.last < y.first \/ y.last < x.first

\* A turn the cursor has passed is stored, or the filters refused the whole
\* of it: no interleaving of runs, appends and crashes makes the incremental
\* read jump over a turn that should have been kept.
PassedTurnsAccounted ==
    \A b \in 1..cursor :
        log[b] \in Prompts =>
            \/ \E x \in stored : x.first = b
            \/ ~TurnHas(log, b, Substance)
            \/ TurnHas(log, b, {"edit"})

\* A stored ply is the line's place among the log's entries: the coordinate
\* the recall commands cite does not drift as the log is read in pieces.
PlyIsAbsolute ==
    \A x \in stored :
        /\ x.start = Cardinality({i \in 1..x.first - 1 : log[i] \in Entries})
        /\ x.end = Cardinality({i \in 1..x.last - 1 : log[i] \in Entries})

\* Every finished turn with substance that touches no sensitive path is in
\* the memory at last.
FinishedTurnsRemembered ==
    \A b \in 1..MaxLog :
        ( /\ Finished(log, b)
          /\ TurnHas(log, b, Substance)
          /\ ~TurnHas(log, b, {"edit"}) )
            ~> (\E x \in stored : x.first = b)

\* What the rows of the database mean as captures of the log.
Captures == {[first |-> x.first, last |-> x.last] : x \in stored}
Memory == INSTANCE TurnMemory WITH memory <- Captures
ImplementsTurnMemory == Memory!Spec
=============================================================================
