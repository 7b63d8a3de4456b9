---------------------------- MODULE OpenCodeIndex ----------------------------
(***************************************************************************)
(* Indexing of one OpenCode session: index_opencode_db of indexer.py, run  *)
(* by several `loci index` processes at once while OpenCode writes its own *)
(* SQLite database. Rows are found again by rowid; a turn is known by the  *)
(* id of its user message, wherever its time puts it. Rows an earlier      *)
(* release stored under a position are matched to their turns by content.  *)
(***************************************************************************)
EXTENDS Integers, Sequences, FiniteSets

CONSTANTS
    Indexers,      \* the processes that run `loci index`
    Words,         \* what a turn may say; turns may say the same
    LegacyTurns,   \* bound: turns an earlier release stored
    MaxTurns,      \* bound: turns of the session
    Editing,       \* which of them, by arrival, edit a file a pattern may name
    MaxToggles,    \* bound: changes of .lociaction/ignore
    MaxCrashes     \* bound: runs killed

ASSUME OpenCodeAssumption ==
    /\ LegacyTurns \in Nat /\ MaxTurns \in Nat /\ LegacyTurns <= MaxTurns
    /\ Editing \subseteq LegacyTurns + 1..MaxTurns
    /\ MaxToggles \in Nat /\ MaxCrashes \in Nat

VARIABLES
    turns,      \* OpenCode: by arrival, what each turn says
    time,       \* OpenCode: by arrival, each turn's place by time_created
    ignoring, toggles, \* .lociaction/ignore names the edited path
    stored,     \* exchanges of this session
    cursor,     \* sessions.cursor: rowids of both tables, or none
    pc, seen, batch,   \* of each run: what it read, what it is about to write
    crashes,
    overlapped  \* history: two runs had rows of the old scheme in hand at once

source  == <<turns, time>>
memory  == <<stored, cursor>>
runVars == <<pc, seen, batch>>
vars    == <<source, ignoring, toggles, memory, runVars, crashes, overlapped>>

NoCursor == [message |-> -1, part |-> -1]

-----------------------------------------------------------------------------
(* OpenCode's tables. A turn is a user message with its text, a reply with *)
(* its answer, and maybe a tool part on a path an ignore pattern may name. *)
(* A run reads whole turns: OpenCode starts it when the session is idle.   *)

Steps == <<"ask", "said", "reply", "answer", "edit">>

What(r) == Steps[r.step]

\* The rows of both tables when n turns have arrived.
Rows(n) == {r \in [turn : 1..n, step : DOMAIN Steps] : What(r) = "edit" => r.turn \in Editing}

Table(r) == IF What(r) \in {"ask", "reply"} THEN "message" ELSE "part"

\* The parts of the first n turns.
Parts(n) == 2 * n + Cardinality(Editing \cap 1..n)

\* Rowids count the rows of a table as they arrive.
Rowid(r) ==
    LET before == r.turn - 1
    IN  CASE What(r) = "ask"    -> 2 * before + 1
          [] What(r) = "reply"  -> 2 * before + 2
          [] What(r) = "said"   -> Parts(before) + 1
          [] What(r) = "answer" -> Parts(before) + 2
          [] What(r) = "edit"   -> Parts(before) + 3

\* The last rowids of both tables when n turns have arrived.
LastRowids(n) == [message |-> 2 * n, part |-> Parts(n)]

\* Of the rows a run has read, by (time_created, id).
Before(r, s) ==
    \/ r.time < s.time
    \/ r.turn = s.turn /\ r.step < s.step

\* parse_opencode_exchanges over the rows E of a chunk: a user message and what
\* comes before the next one. A reply's text counts when the reply is in E.
Boundaries(E) == {r \in E : What(r) = "ask"}

Slice(E, ask) ==
    {r \in E : ~Before(r, ask) /\ \A next \in Boundaries(E) : Before(ask, next) => Before(r, next)}

Texts(E, ask) ==
    {<<r.turn, What(r)>> : r \in {s \in Slice(E, ask) :
        \/ What(s) = "said" /\ s.turn = ask.turn
        \/ What(s) = "answer" /\ \E k \in E : k.turn = s.turn /\ What(k) = "reply"}}

Exchange(E, ask) ==
    [id    |-> ask.turn,
     texts |-> Texts(E, ask),
     files |-> \E r \in Slice(E, ask) : What(r) = "edit",
     start |-> ask.time]

\* Turns long enough to be kept.
Exchanges(E) == {Exchange(E, ask) : ask \in Boundaries(E)}

\* What a row says: equal for turns that say the same.
Content(texts) == {<<turns[x[1]], x[2]>> : x \in texts}

-----------------------------------------------------------------------------
\* A row of an earlier release has its position for an id, here negative. Positions
\* are not kept otherwise: only these ids are ever compared with them.
IsLegacy(x) == x.id < 0

LegacyRow(t) == [id |-> -t, key |-> -t, texts |-> {<<t, "said">>, <<t, "answer">>}]

Unread == [legacy |-> {}, cursor |-> NoCursor]

Init ==
    /\ \E n \in 0..LegacyTurns : \E w \in [1..n -> Words] :
         /\ turns = w
         /\ time = [t \in 1..n |-> t]
         /\ stored = {LegacyRow(t) : t \in 1..n}
    /\ ignoring = FALSE /\ toggles = 0
    /\ cursor = NoCursor
    /\ pc = [p \in Indexers |-> "idle"]
    /\ seen = [p \in Indexers |-> Unread] /\ batch = [p \in Indexers |-> {}]
    /\ crashes = 0 /\ overlapped = FALSE

\* A new turn, at any time: OpenCode's times are not those of arrival.
NewTurn ==
    /\ Len(turns) < MaxTurns
    /\ \E w \in Words, i \in 1..Len(turns) + 1 :
         /\ turns' = Append(turns, w)
         /\ time' = [t \in 1..Len(turns) + 1 |->
                       IF t > Len(turns) THEN i
                       ELSE IF time[t] < i THEN time[t] ELSE time[t] + 1]
    /\ UNCHANGED <<ignoring, toggles, memory, runVars, crashes, overlapped>>

EditIgnore ==
    /\ toggles < MaxToggles
    /\ toggles' = toggles + 1 /\ ignoring' = ~ignoring
    /\ UNCHANGED <<source, memory, runVars, crashes, overlapped>>

-----------------------------------------------------------------------------
(* One run of index_opencode_db for this session.                          *)

\* The rows of both tables after the cursor.
Chunk(from) ==
    {[turn |-> r.turn, step |-> r.step, time |-> time[r.turn]] :
        r \in {s \in Rows(Len(turns)) : Rowid(s) > from[Table(s)]}}

\* What a run reads: the ignore file, the known ids, the rows of the old scheme, the
\* cursor, and OpenCode's rows after it. Without a cursor of the new form, or with
\* old rows, everything is read again.
Read(p) ==
    LET legacy == {x \in stored : IsLegacy(x)}
        again  == cursor = NoCursor \/ legacy # {}
    IN  /\ pc[p] = "idle" /\ pc' = [pc EXCEPT ![p] = "ingest"]
        /\ UNCHANGED <<source, ignoring, toggles, memory, crashes>>
        /\ seen' = [seen EXCEPT ![p] = [legacy |-> legacy, cursor |-> LastRowids(Len(turns))]]
        /\ overlapped' = (overlapped \/ (legacy # {} /\ \E q \in Indexers : seen[q].legacy # {}))
        /\ \E E \in {Chunk(IF again THEN LastRowids(0) ELSE cursor)} :
             batch' = [batch EXCEPT ![p] =
                {x \in Exchanges(E) :
                   /\ ~(ignoring /\ x.files)
                   /\ x.id \notin {y.id : y \in stored}}]

\* Fault: an old row stands for any exchange.
AlikeAny(x, S) == S

\* The old rows of the same content, in the order of their positions, are paired
\* with the exchanges of that content in the order of theirs.
Alike(x, S) == {y \in S : Content(y.texts) = Content(x.texts)}

\* Fault: one slot for each content, so the last old row stands for them all.
PairedByLast(p, x) ==
    {y \in Alike(x, seen[p].legacy) :
        /\ \A z \in Alike(x, seen[p].legacy) : z.id >= y.id
        /\ \A z \in Alike(x, batch[p]) : z.start >= x.start}

Paired(p, x) ==
    {y \in Alike(x, seen[p].legacy) :
        Cardinality({z \in Alike(x, seen[p].legacy) : z.id > y.id})
          = Cardinality({z \in Alike(x, batch[p]) : z.start < x.start})}

\* An old row takes the turn id of its exchange. Its content, its canonical id (key)
\* and what refers to that stay. A row renamed meanwhile by another run is left alone.
Renamed(p) ==
    {IF \E x \in batch[p] : y \in Paired(p, x)
     THEN [y EXCEPT !.id = (CHOOSE x \in batch[p] : y \in Paired(p, x)).id]
     ELSE y : y \in stored}

Return(p) ==
    /\ pc' = [pc EXCEPT ![p] = "idle"]
    /\ seen' = [seen EXCEPT ![p] = Unread] /\ batch' = [batch EXCEPT ![p] = {}]

\* ingest_parse_result looks for the canonical id, which a renamed row has not.
Added(S, new) == S \cup {x \in new : \A y \in S : y.key # x.key}

\* Fault: the next rowid is stored, not the last one read.
CursorNext(p) == [table \in {"message", "part"} |-> seen[p].cursor[table] + 1]

\* Fault: the rows there are when the run writes, not when it read.
CursorNow(p) == LastRowids(Len(turns))

CursorAfter(p) == seen[p].cursor

\* One transaction: the renamed rows, the new ones, and the cursor after all that
\* was read, but only when something was new.
Ingest(p) ==
    LET new == {x \in batch[p] : Paired(p, x) = {}}
    IN  /\ pc[p] = "ingest"
        /\ Return(p)
        /\ UNCHANGED <<source, ignoring, toggles, crashes, overlapped>>
        /\ cursor' = IF new = {} THEN cursor ELSE CursorAfter(p)
        /\ stored' = Added(Renamed(p), {[id |-> x.id, key |-> x.id, texts |-> x.texts] : x \in new})

\* Killed, or raised in this session or another: one transaction covers them all.
Crash(p) ==
    /\ crashes < MaxCrashes /\ pc[p] # "idle"
    /\ crashes' = crashes + 1
    /\ Return(p)
    /\ UNCHANGED <<source, ignoring, toggles, memory, overlapped>>

Run(p) == Read(p) \/ Ingest(p)

Next ==
    \/ NewTurn \/ EditIgnore
    \/ \E p \in Indexers : Run(p) \/ Crash(p)

Spec == Init /\ [][Next]_vars

\* `loci index` runs at every turn's end: a run always follows.
FairSpec == Spec /\ \A p \in Indexers : WF_vars(Run(p))

-----------------------------------------------------------------------------
(* Properties.                                                             *)

\* The state's types: a row is named after a turn or, still, after a position,
\* and the cursor (_make_opencode_cursor) is never ahead of the rows there are.
TypeOK ==
    /\ turns \in Seq(Words) /\ Len(turns) <= MaxTurns
    /\ time \in [DOMAIN turns -> DOMAIN turns]
    /\ \A s, t \in DOMAIN turns : time[s] = time[t] => s = t
    /\ \A x \in stored : x.id \in DOMAIN turns \/ IsLegacy(x)
    /\ \/ cursor = NoCursor
       \/ \A table \in {"message", "part"} : cursor[table] \in 0..LastRowids(Len(turns))[table]
    /\ pc \in [Indexers -> {"idle", "ingest"}]

\* No turn is stored twice, whether under its own id or under the position an
\* earlier release gave it: of turns that say the same there are never more rows
\* than turns (comment on the rows of the old scheme in index_opencode_db). It
\* takes that the rows of the old scheme are migrated by one run at a time.
LoneMigrationStoresOnce ==
    ~overlapped =>
        /\ \A x, y \in stored : x.id = y.id => x = y
        /\ \A w \in Words :
             Cardinality({x \in stored : \E z \in x.texts : turns[z[1]] = w})
               <= Cardinality({t \in DOMAIN turns : turns[t] = w})

\* What a row says is what the turn it is named after says, also for an old row
\* that was renamed, and in any order of arrival.
RowsSayTheirTurn ==
    \A x \in stored : ~IsLegacy(x) =>
        \A z \in x.texts : turns[z[1]] = turns[x.id]

Remembered(t) == \E x \in stored : x.id = t /\ {z[2] : z \in x.texts} = {"said", "answer"}

\* A turn that touches no file an ignore pattern may name is stored in the end under
\* its own id with both its sides, wherever its time puts it and whatever old rows
\* say, unless two runs migrated the same old rows.
TurnsRemembered ==
    \A t \in 1..MaxTurns :
        (t \in DOMAIN turns /\ t \notin Editing) ~> (Remembered(t) \/ overlapped)
=============================================================================
