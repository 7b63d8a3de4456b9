----------------------------- MODULE Migrations -----------------------------
(***************************************************************************)
(* Opening the memory database: init_db of db.py, run by every `loci init`,*)
(* `loci index` and `loci gc`, several at once and over a database of any  *)
(* age. A migration and its version stamp are one SQLite transaction; the  *)
(* version is read once, before the first of them; the schema of a new     *)
(* database is made statement by statement, each one committed by itself.  *)
(* Every exchange stands in a conversation of its own: no migration relates*)
(* the exchanges of one conversation to each other.                        *)
(***************************************************************************)
EXTENDS Integers, Sequences, FiniteSets

CONSTANTS
    Openers,         \* the processes that open the database
    ClaudeTurns,     \* exchanges whose log is a Claude session
    AgentTurns,      \* exchanges whose log is a Claude subagent's
    CodexTurns,      \* exchanges whose log is no Claude log and has no branch
    LegacyVersions,  \* user_version of the databases found
    MaxExchanges,    \* bound: exchanges that left anything in a database found, or are stored
    MaxCrashes       \* bound: processes killed while they open

Exchanges == ClaudeTurns \cup AgentTurns \cup CodexTurns
Latest    == 15
None      == "none"

ASSUME MigrationsAssumption ==
    /\ LegacyVersions \subseteq 0..Latest
    /\ MaxExchanges \in Nat /\ MaxCrashes \in Nat

VARIABLES
    db,         \* the database file
    pc,         \* where each opener stands
    target,     \* the migration an opener is at, or its schema statement
    crashes,
    found       \* history: the database before anybody opened it

vars == <<db, pc, target, crashes, found>>

-----------------------------------------------------------------------------
(* The contents of a database: its tables, columns and indexes by name, and*)
(* of its rows what the migrations read or write.                          *)

\* _infer_harness_and_source_session_id: the harness, from the path's shape.
Inferred(e) == IF e \in CodexTurns THEN "codex" ELSE "claude"

\* A row of exchanges. Session and canonical id are hashes of a harness and
\* the exchange's own log, so the harness stands for them.
Row == [status : {None, "pending", "skipped", "distilled"},
        at : {None, "time", "skipped"},
        branch : {None, "main"},
        harness : {None, "claude", "codex"},
        session : {None, "claude", "codex"},
        canonical : {None, "claude", "codex"},
        parent : BOOLEAN]

Stored(d) == DOMAIN d.rows

Has(d, part) == part \in d.parts

With(d, P) == [d EXCEPT !.parts = @ \cup P]

\* What a table of the first version, and each migration, adds and drops.
Original ==
    {"conversations", "exchanges", "fts", "palace_objects", "rooms", "symbols",
     "vec_exchanges", "vec_palace", "bm25_text"}

Adds ==
    [n \in 1..Latest |->
       CASE n = 1  -> {"last_ply_end"}
         [] n = 2  -> {"distill_status"}
         [] n = 3  -> {"meta"}
         [] n = 4  -> {"lookup_indexes"}
         [] n = 5  -> {"exchange_files"}
         [] n = 8  -> {"git_branch"}
         [] n = 9  -> {"parent_session_ref", "code_touches", "touch_symbols",
                       "code_symbols", "code_edges"}
         [] n = 10 -> {"file_renames"}
         [] n = 11 -> {"sessions", "provenance"}
         [] n = 12 -> {"ply_index"}
         [] n = 15 -> {"session_index"}
         [] OTHER  -> {}]

Drops ==
    [n \in 1..Latest |->
       CASE n = 7  -> {"bm25_text"}
         [] n = 14 -> {"symbols", "vec_exchanges", "touch_symbols"}
         [] OTHER  -> {}]

PartsAt(v) ==
    (Original \cup UNION {Adds[n] : n \in 1..v}) \ (UNION {Drops[n] : n \in 1..v})

\* The statements of the schema script, in order, with what each leaves.
CoreSchema ==
    <<{"sessions"}, {"conversations", "last_ply_end", "parent_session_ref"},
      {"exchanges", "distill_status", "git_branch", "provenance"},
      {"ply_index"}, {"session_index"}, {"fts"}, {"palace_objects"}, {"rooms"},
      {"exchange_files"}, {"meta"}, {"lookup_indexes"}, {"code_touches"},
      {"code_symbols"}, {"code_edges"}, {"file_renames"}>>

Required ==
    (UNION {CoreSchema[i] : i \in DOMAIN CoreSchema})
        \cup {"canonical_exchange_id", "canonical_index", "vec_palace"}

\* d with every row replaced by F of its exchange and itself.
EachRow(d, F(_, _)) ==
    [d EXCEPT !.rows = [e \in Stored(d) |-> F(e, d.rows[e])]]

Or(x, default) == IF x = None THEN default ELSE x

-----------------------------------------------------------------------------
(* The migrations                                                          *)

V1(d) == With(d, Adds[1])

V3(d) == With(d, Adds[3])

V5(d) == With(d, Adds[5])

\* distilled_at used to hold the word 'skipped'.
V2(d) ==
    LET convert(e, r) ==
          IF r.at = "skipped" THEN [r EXCEPT !.status = "skipped", !.at = None]
          ELSE IF r.at = "time" THEN [r EXCEPT !.status = "distilled"]
          ELSE [r EXCEPT !.status = Or(r.status, "pending")]
    IN  IF Has(d, "exchanges") THEN EachRow(With(d, Adds[2]), convert) ELSE d

V4(d) == IF Has(d, "rooms") \/ Has(d, "palace_objects") THEN With(d, Adds[4]) ELSE d

\* Fault: every distilled row is to be distilled again.
V7ResetAll(d) ==
    LET reset(e, r) ==
          IF r.status = "distilled" THEN [r EXCEPT !.status = "pending", !.at = None] ELSE r
    IN  [EachRow(d, reset) EXCEPT !.parts = @ \ Drops[7], !.symbols = @ \cap d.palace]

\* The search column goes; a distilled row without a palace object is to be
\* distilled again; what hangs on no palace object is deleted.
V7(d) ==
    LET reset(e, r) ==
          IF r.status = "distilled" /\ e \notin d.palace
          THEN [r EXCEPT !.status = "pending", !.at = None] ELSE r
        repaired == IF Has(d, "exchanges") /\ Has(d, "palace_objects")
                    THEN EachRow(d, reset) ELSE d
    IN  [repaired EXCEPT !.parts = @ \ Drops[7], !.symbols = @ \cap d.palace]

\* The branch of every row is read again from its log.
V8(d) ==
    LET reread(e, r) == [r EXCEPT !.branch = IF e \in CodexTurns THEN None ELSE "main"]
    IN  IF Has(d, "exchanges") THEN EachRow(With(d, Adds[8]), reread) ELSE d

\* CREATE TABLE IF NOT EXISTS keeps a code_touches table that is there. The
\* index over its symbol column is made in any case: on a table of the last
\* shape, without that column, the statement fails.
V9(d) == With(d, IF Has(d, "code_touches") THEN Adds[9] \ {"touch_symbols"} ELSE Adds[9])

Raises(d, n) == n = 9 /\ Has(d, "code_touches") /\ ~Has(d, "touch_symbols")

V10(d) == With(d, Adds[10])

\* Sessions, and the provenance of every exchange, from the log's path.
V11(d) ==
    LET label(e, r) ==
          [r EXCEPT !.session = Inferred(e), !.harness = Or(@, Inferred(e))]
    IN  IF ~Has(d, "exchanges") THEN With(d, {"sessions"})
        ELSE [EachRow(With(d, Adds[11]), label) EXCEPT
                !.sessions = @ \cup {<<Inferred(e), e>> : e \in Stored(d)}]

V12(d) == IF Has(d, "exchanges") THEN With(d, Adds[12]) ELSE d

\* Rows an older version 11 labelled claude are labelled again, and their
\* claude session goes when no exchange is left in it.
V13(d) ==
    LET wrong(e) == d.rows[e].harness \notin {None, Inferred(e)}
        relabel(e, r) ==
          IF ~wrong(e) THEN r
          ELSE [r EXCEPT !.harness = Inferred(e), !.session = Inferred(e),
                         !.canonical = IF Has(d, "canonical_exchange_id")
                                       THEN Inferred(e) ELSE @]
        moved == {e \in Stored(d) : wrong(e)}
        relabelled == EachRow(d, relabel)
    IN  IF ~Has(d, "exchanges") THEN d
        ELSE [relabelled EXCEPT
                !.sessions = (@ \cup {<<Inferred(e), e>> : e \in moved})
                    \ {<<"claude", e>> : e \in {x \in moved :
                          relabelled.rows[x].session # "claude"}}]

\* Fault: an exchange that has an edge already gets none for its symbols.
V14Uncovered(d) ==
    [d EXCEPT !.parts = @ \ Drops[14], !.symbols = {},
              !.edges = @ \cup {<<e, "distill">> :
                  e \in {x \in d.symbols \cap d.palace \cap Stored(d) :
                           \A k \in {"mention", "line"} : <<x, k>> \notin d.edges}}]

\* Symbols of live palace objects become edges before their table goes.
V14(d) ==
    [d EXCEPT !.parts = @ \ Drops[14], !.symbols = {},
              !.edges = @ \cup {<<e, "distill">> :
                                  e \in d.symbols \cap d.palace \cap Stored(d)}]

V15(d) == IF Has(d, "exchanges") THEN With(d, Adds[15]) ELSE d

\* Version 6 computes the ids of symbols anew, which nothing here reads.
Migrated(d, n) ==
    CASE n = 1  -> V1(d)
      [] n = 2  -> V2(d)
      [] n = 3  -> V3(d)
      [] n = 4  -> V4(d)
      [] n = 5  -> V5(d)
      [] n = 6  -> d
      [] n = 7  -> V7(d)
      [] n = 8  -> V8(d)
      [] n = 9  -> V9(d)
      [] n = 10 -> V10(d)
      [] n = 11 -> V11(d)
      [] n = 12 -> V12(d)
      [] n = 13 -> V13(d)
      [] n = 14 -> V14(d)
      [] n = 15 -> V15(d)

-----------------------------------------------------------------------------
(* What is filled in after the migrations, at every opening                *)

Unattributed(d) == {e \in Stored(d) : None \in {d.rows[e].session, d.rows[e].harness}}

Provenance(d) ==
    LET label(e, r) == [r EXCEPT !.session = Or(@, Inferred(e)),
                                 !.harness = Or(@, Inferred(e))]
    IN  [EachRow(d, label) EXCEPT
           !.sessions = @ \cup {<<Inferred(e), e>> : e \in Unattributed(d)}]

CanonicalIds(d) ==
    LET identify(e, r) == [r EXCEPT !.canonical = Or(@, r.harness)]
    IN  IF Has(d, "exchanges") THEN EachRow(d, identify) ELSE d

ParentRefs(d) ==
    LET refer(e, r) == [r EXCEPT !.parent = @ \/ e \in AgentTurns]
    IN  IF Has(d, "parent_session_ref") THEN EachRow(d, refer) ELSE d

\* Fault: the pass is marked done although the edges are not written yet.
LegacyEdgesFlagOnly(d) == [With(d, {"meta"}) EXCEPT !.done = @ \cup {"legacy_edges"}]

\* Once: a mention edge for every exchange with files and no edge.
LegacyEdges(d) ==
    LET bare == {e \in d.files : \A edge \in d.edges : edge[1] # e} IN
    IF "legacy_edges" \in d.done THEN d
    ELSE [With(d, {"meta"}) EXCEPT
            !.edges = @ \cup (bare \X {"mention"}), !.done = @ \cup {"legacy_edges"}]

\* Once: the edges of the symbols an old touch met in the file of its time.
TouchTimeEdges(d) ==
    IF "touch_time_edges" \in d.done \/ ~Has(d, "code_touches") THEN d
    ELSE [d EXCEPT !.edges = @ \cup (d.touches \X {"line"}),
                   !.done = @ \cup {"touch_time_edges"}]

Backfilled(d) ==
    With(TouchTimeEdges(LegacyEdges(ParentRefs(CanonicalIds(Provenance(d))))),
         {"vec_palace"})

-----------------------------------------------------------------------------
(* One call of init_db                                                     *)

Goto(o, place) == pc' = [pc EXCEPT ![o] = place]

\* The opener looks for the conversations table.
Open(o) ==
    /\ pc[o] = "closed"
    /\ IF Has(db, "conversations") THEN Goto(o, "version") ELSE Goto(o, "create")
    /\ target' = [target EXCEPT ![o] = 1]
    /\ UNCHANGED <<db, crashes, found>>

\* A new database: one statement of the script.
CreateTable(o) ==
    /\ pc[o] = "create"
    /\ target[o] <= Len(CoreSchema)
    /\ db' = With(db, CoreSchema[target[o]])
    /\ target' = [target EXCEPT ![o] = @ + 1]
    /\ UNCHANGED <<pc, crashes, found>>

NewVersion == Latest

\* The rest of a new database is one transaction, opened by the rows of meta.
\* The canonical column and its index are added if they are missing.
Stamp(o) ==
    /\ pc[o] = "create"
    /\ target[o] > Len(CoreSchema)
    /\ db' = Backfilled([With(db, IF Has(db, "canonical_exchange_id") THEN {}
                                  ELSE {"canonical_exchange_id", "canonical_index"})
                            EXCEPT !.version = NewVersion])
    /\ Goto(o, "ready")
    /\ UNCHANGED <<target, crashes, found>>

\* The first migration that is pending for a database of this version.
Pending(version) == version + 1

ReadVersion(o) ==
    /\ pc[o] = "version"
    /\ target' = [target EXCEPT ![o] = Pending(db.version)]
    /\ Goto(o, "migrate")
    /\ UNCHANGED <<db, crashes, found>>

\* Fault: the version is stamped and the migration's work is rolled back.
StampedOnly(d, n) == [d EXCEPT !.version = n]

\* Fault: the list of migrations is counted from zero.
StampedFromZero(d, n) == [Migrated(d, n) EXCEPT !.version = n - 1]

\* Fault: the next version is stamped.
StampedNext(d, n) == [Migrated(d, n) EXCEPT !.version = n + 1]

Stamped(d, n) == [Migrated(d, n) EXCEPT !.version = n]

\* One pending migration, in one transaction with its version.
Migrate(o) ==
    /\ pc[o] = "migrate"
    /\ target[o] <= Latest
    /\ ~Raises(db, target[o])
    /\ db' = Stamped(db, target[o])
    /\ target' = [target EXCEPT ![o] = @ + 1]
    /\ UNCHANGED <<pc, crashes, found>>

\* A statement fails; or another opener has written since the transaction's
\* first read, and SQLite refuses to let a reader of the past write. The
\* migration is rolled back and init_db raises.
FailMigration(o) ==
    /\ pc[o] = "migrate"
    /\ target[o] <= Latest
    /\ Raises(db, target[o]) \/ \E p \in Openers \ {o} : pc[p] # "closed"
    /\ Goto(o, "closed")
    /\ UNCHANGED <<db, target, crashes, found>>

Migrating(o) == pc[o] = "migrate" /\ target[o] > Latest

\* With no row to attribute no transaction is open yet, and the column and
\* its index are committed one by one.
AddCanonicalColumn(o) ==
    /\ Migrating(o)
    /\ Has(db, "exchanges") /\ ~Has(db, "canonical_exchange_id")
    /\ Unattributed(db) = {}
    /\ db' = With(db, {"canonical_exchange_id"})
    /\ Goto(o, "index")
    /\ UNCHANGED <<target, crashes, found>>

AddCanonicalIndex(o) ==
    /\ pc[o] = "index"
    /\ db' = With(db, {"canonical_index"})
    /\ Goto(o, "migrate")
    /\ UNCHANGED <<target, crashes, found>>

Backfill(o) ==
    LET missing == Has(db, "exchanges") /\ ~Has(db, "canonical_exchange_id") IN
    /\ Migrating(o)
    /\ missing => Unattributed(db) # {}
    /\ db' = Backfilled(IF missing THEN With(db, {"canonical_exchange_id", "canonical_index"})
                                    ELSE db)
    /\ Goto(o, "ready")
    /\ UNCHANGED <<target, crashes, found>>

\* The command that opened the database stores an exchange as the current
\* version does, with the branch its harness told.
Ingest(o) ==
    /\ pc[o] = "ready"
    /\ Required \subseteq db.parts
    /\ Cardinality(Stored(db)) < MaxExchanges
    /\ \E e \in Exchanges \ Stored(db) :
          LET row == [status |-> "pending", at |-> None, branch |-> "main",
                      harness |-> Inferred(e), session |-> Inferred(e),
                      canonical |-> Inferred(e), parent |-> e \in AgentTurns]
          IN  db' = [db EXCEPT
                       !.rows = [x \in Stored(db) \cup {e} |->
                                   IF x = e THEN row ELSE db.rows[x]],
                       !.sessions = @ \cup {<<Inferred(e), e>>}]
    /\ UNCHANGED <<pc, target, crashes, found>>

Close(o) ==
    /\ pc[o] = "ready"
    /\ Goto(o, "closed")
    /\ UNCHANGED <<db, target, crashes, found>>

\* The process is killed: an open transaction is rolled back.
Crash(o) ==
    /\ pc[o] \notin {"closed", "ready"}
    /\ crashes < MaxCrashes
    /\ crashes' = crashes + 1
    /\ Goto(o, "closed")
    /\ UNCHANGED <<db, target, found>>

-----------------------------------------------------------------------------
(* The databases that are found                                            *)

NoDatabase ==
    [version |-> 0, parts |-> {}, rows |-> <<>>, sessions |-> {}, palace |-> {},
     symbols |-> {}, files |-> {}, touches |-> {}, edges |-> {}, done |-> {}]

\* A row as version v of the program has left it. Between 11 and 12 every
\* exchange was labelled claude.
LegacyRow(v, e, at, canonical) ==
    LET label == IF v < 11 THEN None ELSE IF v < 13 THEN "claude" ELSE Inferred(e) IN
    [status |-> IF v < 2 THEN None
                ELSE CASE at = "time" -> "distilled" [] at = "skipped" -> "skipped"
                       [] OTHER -> "pending",
     at |-> at,
     branch |-> IF v < 8 THEN None ELSE "main",
     harness |-> label, session |-> label,
     canonical |-> IF canonical THEN label ELSE None,
     parent |-> FALSE]

\* What can be true of an exchange in a database of version v. Until version
\* 7 a distilled row could lack its palace object, and a palace object or
\* what hangs on it could outlive the exchange.
Pasts(v) ==
    {p \in [stored : BOOLEAN, at : {None, "time", "skipped"}, palace : BOOLEAN,
            symbols : BOOLEAN, files : BOOLEAN, touched : BOOLEAN] :
        /\ ~p.stored => p.at = None /\ ~p.files
        /\ p.palace => p.at = "time" \/ ~p.stored
        /\ v >= 7 => (p.palace <=> p.at = "time") /\ (p.symbols => p.palace)
        /\ p.touched => p.files
        /\ p.files => v >= 5
        /\ p.touched => v >= 9
        /\ p.symbols => v < 14}

Nothing == [stored |-> FALSE, at |-> None, palace |-> FALSE, symbols |-> FALSE,
            files |-> FALSE, touched |-> FALSE]

Legacy(v, canonical, past) ==
    LET Those(P(_)) == {e \in Exchanges : P(past[e])}
        stored(p)  == p.stored
        palace(p)  == p.palace
        symbols(p) == p.symbols
        files(p)   == p.files
        touched(p) == p.touched
        rows == [e \in Those(stored) |-> LegacyRow(v, e, past[e].at, canonical)]
    IN  [version |-> v,
         parts |-> PartsAt(v) \cup
             IF canonical THEN {"canonical_exchange_id", "canonical_index"} ELSE {},
         rows |-> rows,
         sessions |-> IF v < 11 THEN {} ELSE {<<rows[e].harness, e>> : e \in Those(stored)},
         palace |-> Those(palace), symbols |-> Those(symbols),
         files |-> Those(files), touches |-> Those(touched),
         edges |-> Those(touched) \X {"mention"}, done |-> {}]

Init ==
    /\ \/ db = NoDatabase
       \/ \E v \in LegacyVersions, canonical \in BOOLEAN :
             /\ canonical => v >= 11
             /\ \E past \in [Exchanges -> Pasts(v)] :
                   /\ Cardinality({e \in Exchanges : past[e] # Nothing}) <= MaxExchanges
                   /\ db = Legacy(v, canonical, past)
    /\ pc = [o \in Openers |-> "closed"]
    /\ target = [o \in Openers |-> 1]
    /\ crashes = 0
    /\ found = db

Step(o) ==
    \/ Open(o) \/ CreateTable(o) \/ Stamp(o) \/ ReadVersion(o)
    \/ Migrate(o) \/ FailMigration(o) \/ AddCanonicalColumn(o)
    \/ AddCanonicalIndex(o) \/ Backfill(o) \/ Close(o)

Next == \E o \in Openers : Step(o) \/ Ingest(o) \/ Crash(o)

Spec == Init /\ [][Next]_vars

\* Hooks run `loci index`, and so open the database, after every turn; an
\* opener waits for nobody, or for SQLite's lock with a timeout.
FairSpec == Spec /\ \A o \in Openers : WF_vars(Step(o))

-----------------------------------------------------------------------------
(* Properties                                                              *)

\* What is in a database: known tables, columns and indexes, rows as the
\* program reads them, and nothing that belongs to no exchange.
Database(d) ==
    /\ DOMAIN d = DOMAIN NoDatabase
    /\ d.version \in 0..Latest
    /\ d.parts \subseteq Required \cup Original \cup {"touch_symbols"}
    /\ Stored(d) \subseteq Exchanges
    /\ d.rows \in [Stored(d) -> Row]
    /\ d.sessions \subseteq {"claude", "codex"} \X Exchanges
    /\ d.palace \subseteq Exchanges /\ d.symbols \subseteq Exchanges
    /\ d.files \subseteq Exchanges /\ d.touches \subseteq Exchanges
    /\ d.edges \subseteq Exchanges \X {"mention", "distill", "line"}
    /\ d.done \subseteq {"legacy_edges", "touch_time_edges"}

\* The state's types: the database found and what the migrations of db.py
\* make of it are databases, and no version is past the last.
TypeOK ==
    /\ Database(db) /\ Database(found)
    /\ pc \in [Openers -> {"closed", "version", "create", "migrate", "index", "ready"}]
    /\ target \in [Openers -> 1..Len(CoreSchema) + 1]
    /\ crashes \in 0..MaxCrashes

\* What a database of version n owes its readers from then on.
Promise(n, d) ==
    /\ Adds[n] \ Drops[14] \subseteq d.parts
    /\ Drops[n] \cap d.parts = {}
    /\ CASE n = 2  -> \A e \in Stored(d) : d.rows[e].status # None
         [] n = 7  -> /\ d.symbols \subseteq d.palace
                      /\ \A e \in Stored(d) :
                            d.rows[e].status = "distilled" => e \in d.palace
         [] n = 11 -> \A e \in Stored(d) :
                        /\ None \notin {d.rows[e].harness, d.rows[e].session}
                        /\ <<d.rows[e].session, e>> \in d.sessions
         [] n = 13 -> \A e \in Stored(d) :
                        /\ d.rows[e].harness = Inferred(e)
                        /\ d.rows[e].session = Inferred(e)
                        /\ d.rows[e].canonical \in {None, Inferred(e)}
         [] OTHER  -> TRUE

\* Whatever the version of an existing database says has been migrated is
\* true of its tables and rows: several openers, each with the version it
\* read at its start, and kills between any two steps leave no version that
\* promises more than was done.
VersionKeepsItsPromises ==
    found # NoDatabase => \A n \in 1..db.version : Promise(n, db)

\* Symbols that a palace object of a stored exchange carried before the
\* upgrade lead to that exchange afterwards: the table they were in is
\* dropped only when the edges that replace it are there.
SymbolsCarriedOver ==
    \A e \in found.symbols \cap found.palace \cap Stored(found) :
        e \in db.symbols \/ <<e, "distill">> \in db.edges

\* Once a command has opened the database, every exchange with files has an
\* edge to them, whichever opener marked the passes done.
FilesReachable ==
    (\E o \in Openers : pc[o] = "ready") =>
        \A e \in found.files : \E edge \in db.edges : edge[1] = e

\* No opener makes an exchange wait for distillation again whose palace
\* object is there.
DistilledStays ==
    [][\A e \in Stored(db) \cap db.palace :
         db.rows[e].status = "distilled" => e \in db'.palace /\ db'.rows[e].status = "distilled"]_vars

\* Opened again and again, by one process at a time, a database of any age
\* reaches the last version and stays there, though openers are killed
\* between any two steps; without a kill nothing is missing in it. (A killed
\* creation, or openers that overlap, can block every later one: see below.)
LoneOpenersReachLatest ==
    [](/\ Cardinality({o \in Openers : pc[o] # "closed"}) <= 1
       /\ crashes > 0 => found # NoDatabase)
        => <>[](db.version = Latest /\ (crashes = 0 => Required \subseteq db.parts))

-----------------------------------------------------------------------------
(* What a docstring and a test say that the code does not do               *)

\* init_db "initialises the database and creates the schema (idempotent)",
\* "no error when it is called twice": no migration of an opening raises.
OpeningIsIdempotent ==
    \A o \in Openers :
        pc[o] = "migrate" /\ target[o] <= Latest => ~Raises(db, target[o])
=============================================================================
