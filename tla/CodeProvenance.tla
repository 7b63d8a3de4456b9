--------------------------- MODULE CodeProvenance ---------------------------
(***************************************************************************)
(* Which exchange wrote this code: the edits a harness logs (code_touches),*)
(* the symbols they are matched with (code_symbols, core/ingest.py against *)
(* git), the links between both (code_edges), what older versions stored   *)
(* and init_db completes once (db.py), what distillation adds, and what    *)
(* `loci context` answers (context_lookup.py, file_renames.py).            *)
(*                                                                         *)
(* A file is the sequence of its symbols, one a line: its layout. Every    *)
(* change of the working tree or of git has a time of its own. An edit has *)
(* one hunk; a write is a hunk over the whole file.                        *)
(***************************************************************************)
EXTENDS Naturals, Sequences, FiniteSets, FiniteSetsExt, SequencesExt

CONSTANTS
    Paths, Names,
    Dir,           \* path -> its directory
    Sessions,
    Doubling,      \* sessions whose harness logs every call twice
    Terse,         \* sessions that speak of no symbol by name
    MaxTime,       \* bound: changes of the working tree and commits
    MaxExchanges   \* bound: exchanges in all sessions

\* The name of an edge that leads to a file only.
None == "none"

ASSUME CodeProvenanceAssumption ==
    /\ DOMAIN Dir = Paths /\ None \notin Names
    /\ MaxTime \in Nat /\ MaxExchanges \in Nat

Gone == [layout |-> <<>>, id |-> 0, moves |-> 0]

VARIABLES
    clock,
    live,       \* path -> file in the working tree; id and moves are history
    commits,    \* path -> the commits that touch it, oldest first
    gitMoves,   \* the renames each commit shows; the file's id in them is history
    log,        \* the exchanges of all sessions, in the order they happened
    upgraded,   \* init_db of this version has opened the database
    stored,     \* exchanges in the database
    distilled,
    touches,    \* code_touches
    symbols,    \* code_symbols: path and name -> line
    edges,      \* code_edges: exchange, path, symbol and kind -> added
    renames     \* file_renames

world == <<clock, live, commits, gitMoves, log>>
db    == <<upgraded, stored, distilled, touches, symbols, edges, renames>>
vars  == <<world, db>>

-----------------------------------------------------------------------------
(* The working tree, git and the harness                                   *)

Layouts == {l \in UNION {[1..n -> Names] : n \in 0..Cardinality(Names)} :
              \A i, j \in DOMAIN l : l[i] = l[j] => i = j}

Exists(p)  == live[p].id # 0
Tracked(p) == commits[p] # <<>>
CommittedFile(p) == IF Tracked(p) THEN Last(commits[p]).file ELSE Gone
Clean(p)   == CommittedFile(p) = live[p]

\* What an edit of lines first..last leaves; only a rewrite moves no line.
Edited(p) ==
    {[layout |-> live[p].layout, first |-> i, last |-> i, plain |-> TRUE] :
        i \in DOMAIN live[p].layout}
    \cup {[layout |-> InsertAt(live[p].layout, i, n), first |-> i, last |-> i, plain |-> FALSE] :
            i \in 1..Len(live[p].layout) + 1, n \in Names \ ToSet(live[p].layout)}
    \cup {[layout |-> live[p].layout, first |-> 0, last |-> 0, plain |-> FALSE] :
            i \in DOMAIN live[p].layout}
    \cup {[layout |-> l, first |-> 1, last |-> Len(l), plain |-> FALSE] :
            l \in {m \in Layouts : ToSet(m) = Names /\ m # live[p].layout}}

\* One touch; its time is its tool call's id. The last three are history.
Touch(p, x) ==
    [path |-> p, first |-> x.first, last |-> x.last, ts |-> clock + 1,
     names |-> {x.layout[i] : i \in x.first..x.last \ {0}},
     plain |-> x.plain /\ Clean(p),
     file |-> IF Exists(p) THEN live[p].id ELSE clock + 1]

NewExchange(s) == [session |-> s, touches |-> <<>>, moves |-> {}, mentions |-> {}]

Grown(e, calls, moved, spoken) ==
    [e EXCEPT !.touches = @ \o calls, !.moves = @ \cup moved, !.mentions = @ \cup spoken]

\* A tool call belongs to its session's last exchange, or starts one.
Logs(s, calls, moved, spoken) ==
    \/ /\ Len(log) < MaxExchanges
       /\ log' = Append(log, Grown(NewExchange(s), calls, moved, spoken))
    \/ \E e \in DOMAIN log \ stored :
          /\ log[e].session = s
          /\ \A d \in DOMAIN log : log[d].session = s => d <= e
          /\ log' = [log EXCEPT ![e] = Grown(@, calls, moved, spoken)]

\* The agent edits or writes a file.
Edit(s) ==
    /\ clock < MaxTime
    /\ \E p \in Paths : \E x \in Edited(p) :
          LET t == Touch(p, x)
          IN  /\ Logs(s, IF s \in Doubling THEN <<t, t>> ELSE <<t>>, {},
                      IF s \in Terse THEN {} ELSE t.names)
              /\ live' = [live EXCEPT ![p] = [layout |-> x.layout, id |-> t.file,
                                              moves |-> @.moves]]
    /\ clock' = clock + 1
    /\ UNCHANGED <<commits, gitMoves, db>>

Moved(p, q) ==
    live' = [live EXCEPT ![p] = Gone, ![q] = [live[p] EXCEPT !.moves = @ + 1]]

\* The agent moves a file with a call that says so (codex's move_path);
Move(s) ==
    /\ clock < MaxTime
    /\ \E p, q \in Paths :
          /\ Exists(p) /\ ~Exists(q)
          /\ Moved(p, q)
          /\ Logs(s, <<>>, {<<p, q>>}, {})
    /\ clock' = clock + 1
    /\ UNCHANGED <<commits, gitMoves, db>>

\* anyone else moves it with nothing said.
UserMove ==
    /\ clock < MaxTime
    /\ \E p, q \in Paths : Exists(p) /\ ~Exists(q) /\ Moved(p, q)
    /\ clock' = clock + 1
    /\ UNCHANGED <<commits, gitMoves, log, db>>

\* The tree is committed; git shows as renamed what went and came unchanged.
Commit ==
    LET changed == {p \in Paths : ~Clean(p)}
        renamed == {pq \in changed \X changed :
                      /\ ~Exists(pq[1]) /\ CommittedFile(pq[1]).id # 0
                      /\ CommittedFile(pq[2]).id = 0
                      /\ live[pq[2]].id = CommittedFile(pq[1]).id
                      /\ live[pq[2]].layout = CommittedFile(pq[1]).layout}
    IN  /\ clock < MaxTime
        /\ changed # {}
        /\ commits' = [p \in Paths |-> IF p \in changed
                         THEN Append(commits[p], [time |-> clock + 1, file |-> live[p]])
                         ELSE commits[p]]
        /\ gitMoves' = Append(gitMoves, {<<pq[1], pq[2], live[pq[2]].id>> : pq \in renamed})
        /\ clock' = clock + 1
        /\ UNCHANGED <<live, log, db>>

-----------------------------------------------------------------------------
(* Symbols as of a time                                                    *)

Before(p, ts) == {i \in DOMAIN commits[p] : commits[p][i].time <= ts}
After(p, ts)  == {i \in DOMAIN commits[p] : commits[p][i].time > ts}

\* The file of the newest of some commits, if there is one and it has the file.
BlobOf(p, S) ==
    IF S = {} \/ commits[p][Max(S)].file.id = 0 THEN {} ELSE {commits[p][Max(S)].file}

\* git log --before, then --after: newest commit, the file at it.
GitBlobNear(p, ts) ==
    IF BlobOf(p, Before(p, ts)) # {} THEN BlobOf(p, Before(p, ts)) ELSE BlobOf(p, After(p, ts))

\* Its batched counterpart looks for one commit, and takes the file or not.
BatchBlobNear(p, ts) ==
    IF Before(p, ts) # {} THEN BlobOf(p, Before(p, ts)) ELSE BlobOf(p, DOMAIN commits[p])

\* Without one, the file as it is now.
LayoutOf(blob, p) == IF blob = {} THEN live[p].layout ELSE (CHOOSE f \in blob : TRUE).layout

\* Fault: the file as it is when it is indexed, as before issue 20.
ResolveLive(p, ts) == live[p].layout

ResolveSymbolsAt(p, ts) == LayoutOf(GitBlobNear(p, ts), p)

BatchResolve(p, ts) == LayoutOf(BatchBlobNear(p, ts), p)

\* The names whose lines a touch overlaps.
IntersectSpan(t, layout) ==
    IF t.first = 0 THEN {} ELSE {layout[i] : i \in t.first..t.last \cap DOMAIN layout}

\* Fault: a touch no symbol overlaps leads nowhere.
TouchToNames(t, layout) == IntersectSpan(t, layout)

\* touches_to_edges: one for each symbol hit, or one for the file.
TouchToEdges(t, layout) ==
    IF IntersectSpan(t, layout) = {} THEN {None} ELSE IntersectSpan(t, layout)

-----------------------------------------------------------------------------
(* Storing                                                                 *)

Edge(e, p, n, k) == [e |-> e, path |-> p, name |-> n, kind |-> k]

\* INSERT ... DO NOTHING, or OR IGNORE.
WithNew(old, new) == [k \in DOMAIN old \cup DOMAIN new |->
                        IF k \in DOMAIN old THEN old[k] ELSE new[k]]

LineOf(n, layout) == CHOOSE i \in DOMAIN layout : layout[i] = n

\* Fault: a call that is logged twice counts twice.
AllTouches(ts) == DOMAIN ts

\* A touch is new unless a row of its id is there.
NewTouches(ts) == {i \in DOMAIN ts : \A j \in 1..i - 1 : ts[j].ts # ts[i].ts}

\* Fault: the symbols are left to distillation.
SymbolsKept(old, found) == old

\* INSERT OR REPLACE.
SymbolsReplaced(old, found) == WithNew(found, old)

\* Sessions are read in any order, each from its first exchange on.
NextOf(e) ==
    /\ e \in DOMAIN log \ stored
    /\ \A d \in 1..e - 1 : log[d].session = log[e].session => d \in stored

Rows(e, S) == {[e |-> e, touch |-> log[e].touches[i]] : i \in S}

Files(e) == {log[e].touches[i].path : i \in DOMAIN log[e].touches}

\* What is stored of a new exchange: its renames, its touches, the symbols of
\* the files they are matched with (layouts, by touch), and their edges.
PersistArtifacts(e, layouts) ==
    LET ts == log[e].touches
        S  == NewTouches(ts)
        Links(i) == {Edge(e, ts[i].path, n, "edit") : n \in TouchToEdges(ts[i], layouts[i])}
        Found(i) == {ts[i].path} \X ToSet(layouts[i])
    IN  /\ renames' = renames \cup log[e].moves
        /\ touches' = touches \cup Rows(e, S)
        /\ symbols' = SymbolsReplaced(symbols,
              [k \in UNION {Found(i) : i \in S} |->
                 LineOf(k[2], layouts[Max({i \in S : k \in Found(i)})])])
        /\ edges' = WithNew(edges, [k \in UNION {Links(i) : i \in S} |->
                                      Cardinality({i \in S : k \in Links(i)})])

Store(e) ==
    /\ NextOf(e)
    /\ stored' = stored \cup {e}
    /\ UNCHANGED <<world, upgraded, distilled>>

\* ingest_parse_result.
Ingest(e) ==
    /\ upgraded
    /\ Store(e)
    /\ PersistArtifacts(e, [i \in DOMAIN log[e].touches |->
          ResolveSymbolsAt(log[e].touches[i].path, log[e].touches[i].ts)])

\* What older versions stored: no touches, or touches matched with live files.
IngestFilesOnly(e) == ~upgraded /\ Store(e) /\ UNCHANGED <<touches, symbols, edges, renames>>

IngestAgainstLive(e) ==
    /\ ~upgraded
    /\ Store(e)
    /\ PersistArtifacts(e, [i \in DOMAIN log[e].touches |-> live[log[e].touches[i].path].layout])

\* _backfill_legacy_code_edges: exchanges without edges get one for each file.
MentionEdges(old) ==
    LET bare == stored \ {k.e : k \in DOMAIN old}
    IN  WithNew(old, [k \in UNION {{Edge(e, p, None, "mention") : p \in Files(e)} : e \in bare}
                        |-> 0])

\* The touches of older versions that overlap a symbol of the file git has.
Datable == {r \in touches : IntersectSpan(r.touch, BatchResolve(r.touch.path, r.touch.ts)) # {}}

\* Where those files have a symbol.
Reconstructed(k) ==
    {LineOf(k[2], BatchResolve(k[1], r.touch.ts)) :
        r \in {x \in Datable : /\ x.touch.path = k[1]
                               /\ k[2] \in ToSet(BatchResolve(k[1], x.touch.ts))}}

\* Fault: the reconstruction replaces what is there.
SymbolsRebuilt(old, new) == WithNew(new, old)

\* INSERT OR IGNORE: what is there is as fresh or fresher.
SymbolsFilledIn(old, new) == WithNew(old, new)

\* init_db, once: _backfill_legacy_code_edges and
\* _backfill_touch_time_symbol_edges, which reads the touches in any order.
Upgrade ==
    /\ ~upgraded
    /\ upgraded' = TRUE
    /\ edges' = WithNew(MentionEdges(edges),
          [k \in UNION {{Edge(r.e, r.touch.path, n, "edit") :
                            n \in IntersectSpan(r.touch, BatchResolve(r.touch.path, r.touch.ts))} :
                           r \in Datable} |-> 1])
    /\ LET known == UNION {{r.touch.path} \X ToSet(BatchResolve(r.touch.path, r.touch.ts)) :
                              r \in Datable}
       IN  \E line \in [known -> 1..Cardinality(Names)] :
              /\ \A k \in known : line[k] \in Reconstructed(k)
              /\ symbols' = SymbolsFilledIn(symbols, line)
    /\ UNCHANGED <<world, stored, distilled, touches, renames>>

\* save_palace_object: an edge to every symbol the exchange speaks of by name,
\* in the files it names, as they are now.
Distill(e) ==
    LET spoken == {k \in Files(e) \X log[e].mentions : k[2] \in ToSet(live[k[1]].layout)}
    IN  /\ upgraded
        /\ e \in stored \ distilled
        /\ distilled' = distilled \cup {e}
        /\ edges' = WithNew(edges, [k \in {Edge(e, x[1], x[2], "distill") : x \in spoken} |-> 0])
        /\ symbols' = SymbolsFilledIn(symbols,
              [k \in spoken |-> LineOf(k[2], live[k[1]].layout)])
        /\ UNCHANGED <<world, upgraded, stored, touches, renames>>

-----------------------------------------------------------------------------
(* `loci context`                                                          *)

Recorded(p) == {r[1] : r \in {x \in renames : x[2] = p}}

\* git log --follow: back through the commits, from name to name.
Follow(p) ==
    LET n == Len(gitMoves)
        at[i \in 0..n] ==
            IF i = 0 THEN [name |-> p, old |-> {}]
            ELSE LET from == {r[1] : r \in {x \in gitMoves[n + 1 - i] : x[2] = at[i - 1].name}}
                 IN  IF from = {} THEN at[i - 1]
                     ELSE [name |-> CHOOSE q \in from : TRUE, old |-> at[i - 1].old \cup from]
    IN  at[n].old

\* Fault: what harnesses recorded is not read.
AliasesInGit(p) == Follow(p)

\* resolve_aliases: what harnesses recorded, else what git follows.
Aliases(p) == IF Recorded(p) # {} THEN Recorded(p) ELSE Follow(p)

Tier(kind, S) == [kind |-> kind, hits |-> S]

\* Only the first tier with a hit answers.
Answer(tiers) ==
    LET with == {i \in DOMAIN tiers : tiers[i].hits # {}}
    IN  IF with = {} THEN Tier("semantic", {}) ELSE tiers[Min(with)]

FileTier(ps)   == Tier("file", {k.e : k \in {x \in DOMAIN edges : x.path \in ps}})
DirTier(p)     == Tier("directory", {k.e : k \in {x \in DOMAIN edges : Dir[x.path] = Dir[p]}})
TouchTier(ps)  == Tier("touch_file", {r.e : r \in {x \in touches : x.touch.path \in ps}})

SymbolTier(ps, n) ==
    Tier("symbol", {k.e : k \in {x \in DOMAIN edges :
                        x.path \in ps /\ x.name = n /\ <<x.path, n>> \in DOMAIN symbols}})

TouchSymbolTier(ps, n) ==
    Tier("touch_symbol", {e \in TouchTier(ps).hits : n \in log[e].mentions})

ResolveU1(p, n) ==
    LET ps == {p} \cup Aliases(p)
    IN  Answer(<<SymbolTier(ps, n), FileTier(ps), DirTier(p), TouchSymbolTier(ps, n),
                 TouchTier(ps)>>)

ResolveU2(p) ==
    LET ps == {p} \cup Aliases(p)
    IN  Answer(<<FileTier(ps), DirTier(p), TouchTier(ps)>>)

-----------------------------------------------------------------------------
Init ==
    /\ clock = 0
    /\ \E p \in Paths, n \in Names :
          /\ live = [q \in Paths |-> IF q = p THEN [layout |-> <<n>>, id |-> MaxTime + 1, moves |-> 0]
                                     ELSE Gone]
          /\ commits = [q \in Paths |-> IF q = p THEN <<[time |-> 0, file |-> live[p]]>> ELSE <<>>]
    /\ gitMoves = <<{}>>
    /\ log = <<>>
    /\ upgraded \in BOOLEAN
    /\ stored = {} /\ distilled = {}
    /\ touches = {} /\ symbols = <<>> /\ edges = <<>> /\ renames = {}

Next ==
    \/ \E s \in Sessions : Edit(s) \/ Move(s)
    \/ UserMove \/ Commit \/ Upgrade
    \/ \E e \in 1..MaxExchanges :
          Ingest(e) \/ IngestFilesOnly(e) \/ IngestAgainstLive(e) \/ Distill(e)

Spec == Init /\ [][Next]_vars

-----------------------------------------------------------------------------
(* Properties                                                              *)

CallsTo(e, p) == {log[e].touches[i].ts : i \in {j \in DOMAIN log[e].touches :
                                                  log[e].touches[j].path = p}}

\* An exchange is found from every file it wrote, whatever version stored it,
\* in whatever order, and whether or not a symbol could be told, and always in
\* the file tier: never as a neighbour, or as a bare touch.
FoundWhereItWrote ==
    upgraded => \A e \in stored : \A p \in Files(e) :
        ResolveU2(p).kind = "file" /\ e \in ResolveU2(p).hits

\* What an edge says was added is at most what the exchange's calls added,
\* however often they are logged and whatever the backfills repeat.
AddedCountsCalls ==
    \A k \in DOMAIN edges : edges[k] <= Cardinality(CallsTo(k.e, k.path))

\* An edit that rewrites a symbol of a committed file leads to that symbol,
\* however the file has moved on when it is indexed or backfilled.
RewritesFindTheirSymbol ==
    upgraded => \A r \in touches : r.touch.plain =>
        \A n \in r.touch.names :
            /\ ResolveU1(r.touch.path, n).kind = "symbol"
            /\ r.e \in ResolveU1(r.touch.path, n).hits

\* No edge names a symbol that is not there: the symbol tier misses none.
EdgesNameKnownSymbols ==
    \A k \in DOMAIN edges : k.name # None => <<k.path, k.name>> \in DOMAIN symbols

\* The exchanges that wrote a file are found under the name it has now, when
\* it was moved once and the move was recorded, or seen by git alone, whatever
\* else had either name before.
MovedIsFound ==
    upgraded => \A p \in Paths : \A r \in touches :
        /\ r.touch.file = live[p].id
        /\ live[p].moves = 1 /\ r.touch.path # p
        /\ \/ <<r.touch.path, p>> \in renames
           \/ Recorded(p) = {} /\ <<r.touch.path, p, live[p].id>> \in UNION Range(gitMoves)
        => r.e \in ResolveU2(p).hits

\* Where `loci context` believes a symbol to be changes only by a new edit of
\* its file: no backfill and no distillation puts it back to an older place.
OnlyEditsMoveSymbols ==
    [][\A k \in DOMAIN symbols :
          k \notin DOMAIN symbols' \/ symbols'[k] # symbols[k] =>
             \E e \in stored' \ stored : k[1] \in Files(e)]_vars

\* "this can only improve alignment over that fallback, never regress it"
\* (_git_blob_near): the file as it is finds no symbol git's file misses.
GitNeverRegresses ==
    upgraded => \A e \in 1..Len(log) : NextOf(e) =>
        \A i \in DOMAIN log[e].touches :
            LET t == log[e].touches[i]
            IN  t.names \cap IntersectSpan(t, ResolveLive(t.path, t.ts))
                   \subseteq IntersectSpan(t, ResolveSymbolsAt(t.path, t.ts))
=============================================================================
