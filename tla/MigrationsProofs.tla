-------------------------- MODULE MigrationsProofs --------------------------
(***************************************************************************)
(* Proofs about Migrations, for any exchanges, any number of openers and   *)
(* kills, and databases of any version: what the version promises, what is *)
(* carried over, what stays distilled, and that every database is one the  *)
(* program knows.                                                          *)
(***************************************************************************)
EXTENDS Migrations, TLAPS

-----------------------------------------------------------------------------
(* The invariant                                                           *)

\* A database as a record, its rows typed.
Shaped(d) ==
    /\ d = [version |-> d.version, parts |-> d.parts, rows |-> d.rows, sessions |-> d.sessions,
            palace |-> d.palace, symbols |-> d.symbols, files |-> d.files,
            touches |-> d.touches, edges |-> d.edges, done |-> d.done]
    /\ d.rows \in [Stored(d) -> Row]

\* What every database of the past has, and no migration drops.
Basics == {"conversations", "exchanges", "rooms", "palace_objects"}

\* A row's status fits the time of its distillation and its labels each other.
RowFits(r) ==
    /\ r.at = "skipped" => r.status # "distilled"
    /\ r.session = r.harness
    /\ r.canonical \in {None, r.harness}

Fits(d) ==
    /\ Basics \subseteq d.parts
    /\ \A e \in Stored(d) : RowFits(d.rows[e])
    /\ "canonical_exchange_id" \notin d.parts => \A e \in Stored(d) : d.rows[e].canonical = None

\* What the promises say of the rows, strengthened by what later repetitions
\* of migration 2 read.
RowsOwed(n, d) ==
    /\ n = 2  => \A e \in Stored(d) :
                   /\ d.rows[e].status # None
                   /\ d.rows[e].at = "time" => d.rows[e].status = "distilled"
    /\ n = 7  => /\ d.symbols \subseteq d.palace
                 /\ \A e \in Stored(d) :
                      d.rows[e].status = "distilled" \/ d.rows[e].at = "time" => e \in d.palace
    /\ n = 11 => \A e \in Stored(d) :
                   /\ None \notin {d.rows[e].harness, d.rows[e].session}
                   /\ <<d.rows[e].session, e>> \in d.sessions
    /\ n = 13 => \A e \in Stored(d) :
                   /\ d.rows[e].harness = Inferred(e)
                   /\ d.rows[e].session = Inferred(e)
                   /\ d.rows[e].canonical \in {None, Inferred(e)}

PartsOwed(n, d) ==
    /\ Adds[n] \ Drops[14] \subseteq d.parts
    /\ Drops[n] \cap d.parts = {}
    /\ n = 14 => "code_touches" \in d.parts

Owed(n, d) == PartsOwed(n, d) /\ RowsOwed(n, d)

\* The version says that migration n was done, or an opener has done or seen it.
Underway(o) == pc[o] \in {"migrate", "index"}

Reached(n) == n <= db.version \/ \E o \in Openers : Underway(o) /\ n < target[o]

RightLabels(d) == \A e \in Stored(d) : d.rows[e].harness \in {None, Inferred(e)}

\* Nothing goes back behind the version that was found, which had labels of its own.
Since(v) ==
    /\ db.version >= v
    /\ \A o \in Openers : Underway(o) => target[o] > v
    /\ v < 11 => RightLabels(db)

\* What the database found is carried over.
Carried ==
    /\ Stored(found) \subseteq Stored(db)
    /\ found.palace = db.palace
    /\ found.files = db.files
    /\ \A e \in found.symbols \cap found.palace \cap Stored(found) :
         e \in db.symbols \/ <<e, "distill">> \in db.edges

Reach(d) == \A e \in d.files : \E edge \in d.edges : edge[1] = e

\* The first pass over the edges is marked done when every file has one.
Marked ==
    /\ "legacy_edges" \in db.done => Reach(db)
    /\ \A o \in Openers : pc[o] = "ready" => "legacy_edges" \in db.done

Upgrading ==
    /\ \A o \in Openers : pc[o] # "create"
    /\ Fits(db)
    /\ Since(found.version)
    /\ \A n \in 1..Latest : Reached(n) => Owed(n, db)

Places ==
    /\ DOMAIN pc = Openers /\ DOMAIN target = Openers
    /\ \A o \in Openers : target[o] \in Nat /\ target[o] >= 1
    /\ db.version \in 0..Latest /\ found.version \in 0..Latest

IInv ==
    /\ Shaped(db)
    /\ Places
    /\ Carried
    /\ Marked
    /\ found # NoDatabase => Upgrading

-----------------------------------------------------------------------------
(* Tables                                                                  *)

Dropped == {"bm25_text", "symbols", "vec_exchanges", "touch_symbols"}

LEMMA AddsAre ==
  /\ Adds[1] = {"last_ply_end"} /\ Adds[2] = {"distill_status"} /\ Adds[3] = {"meta"}
  /\ Adds[4] = {"lookup_indexes"} /\ Adds[5] = {"exchange_files"} /\ Adds[6] = {}
  /\ Adds[7] = {} /\ Adds[8] = {"git_branch"}
  /\ Adds[9] = {"parent_session_ref", "code_touches", "touch_symbols", "code_symbols",
                "code_edges"}
  /\ Adds[10] = {"file_renames"} /\ Adds[11] = {"sessions", "provenance"}
  /\ Adds[12] = {"ply_index"} /\ Adds[13] = {} /\ Adds[14] = {}
  /\ Adds[15] = {"session_index"}
BY DEF Adds, Latest

LEMMA DropsAre ==
  /\ Drops[7] = {"bm25_text"}
  /\ Drops[14] = {"symbols", "vec_exchanges", "touch_symbols"}
  /\ \A n \in 1..Latest : n \notin {7, 14} => Drops[n] = {}
BY DEF Drops, Latest

LEMMA AddsStay ==
  ASSUME NEW n \in 1..Latest
  PROVE  (Adds[n] \ Drops[14]) \cap Dropped = {}
BY AddsAre, DropsAre DEF Dropped, Latest

LEMMA DropsFew ==
  ASSUME NEW n \in 1..Latest
  PROVE  Drops[n] \subseteq Dropped /\ ("touch_symbols" \in Drops[n] => n = 14)
BY DropsAre DEF Dropped, Latest

\* Tables go only where they have to, and never come back.
PartsFollow(d, c) ==
    /\ d.parts \ Dropped \subseteq c.parts
    /\ \A p \in c.parts \cap Dropped :
         p \in d.parts \/ (p = "touch_symbols" /\ "code_touches" \notin d.parts)

LEMMA PartsStayOwed ==
  ASSUME NEW d, NEW c, PartsFollow(d, c), NEW n \in 1..Latest, PartsOwed(n, d)
  PROVE  PartsOwed(n, c)
BY AddsStay, DropsFew DEF PartsFollow, PartsOwed, Dropped

LEMMA PromiseIsOwed ==
  ASSUME NEW d, NEW n \in 1..Latest, Owed(n, d)
  PROVE  Promise(n, d)
BY DEF Owed, PartsOwed, RowsOwed, Promise

-----------------------------------------------------------------------------
(* What each migration makes of a database                                 *)

\* The database d with other tables, rows, sessions, symbols, edges, marks.
Built(d, P, R, S, Y, E, D) ==
    [version |-> d.version, parts |-> P, rows |-> R, sessions |-> S, palace |-> d.palace,
     symbols |-> Y, files |-> d.files, touches |-> d.touches, edges |-> E, done |-> D]

LEMMA BuiltIs ==
  ASSUME NEW d, NEW P, NEW R \in [Stored(d) -> Row], NEW S, NEW Y, NEW E, NEW D,
         NEW c, c = Built(d, P, R, S, Y, E, D)
  PROVE  /\ Shaped(c) /\ Stored(c) = Stored(d) /\ c.rows = R
         /\ c.version = d.version /\ c.palace = d.palace /\ c.files = d.files
         /\ c.touches = d.touches
         /\ c.parts = P /\ c.sessions = S /\ c.symbols = Y /\ c.edges = E /\ c.done = D
<1> DEFINE T == [Stored(d) -> Row]
<1>1. DOMAIN R = Stored(d)
  OBVIOUS
<1>2. R \in T
  OBVIOUS
<1> HIDE DEF T
<1>3. /\ c.rows = R /\ c.version = d.version /\ c.palace = d.palace
      /\ c.files = d.files /\ c.touches = d.touches
      /\ c.parts = P /\ c.sessions = S /\ c.symbols = Y /\ c.edges = E /\ c.done = D
  BY DEF Built
<1>4. c = [version |-> c.version, parts |-> c.parts, rows |-> c.rows, sessions |-> c.sessions,
           palace |-> c.palace, symbols |-> c.symbols, files |-> c.files,
           touches |-> c.touches, edges |-> c.edges, done |-> c.done]
  BY <1>3 DEF Built
<1> QED BY <1>1, <1>2, <1>3, <1>4 DEF Shaped, Stored, T

LEMMA SameIs ==
  ASSUME NEW d, Shaped(d)
  PROVE  d = Built(d, d.parts, d.rows, d.sessions, d.symbols, d.edges, d.done)
BY DEF Shaped, Built

LEMMA WithIs ==
  ASSUME NEW d, Shaped(d), NEW P
  PROVE  With(d, P) = Built(d, d.parts \cup P, d.rows, d.sessions, d.symbols, d.edges, d.done)
<1> DEFINE Q == d.parts \cup P
<1> HIDE DEF Q
<1>1. With(d, P) = [d EXCEPT !.parts = Q]
  BY DEF With, Q
<1>2. With(d, P) = Built(d, Q, d.rows, d.sessions, d.symbols, d.edges, d.done)
  BY <1>1 DEF Shaped, Built
<1> QED BY <1>2 DEF Q

\* Two or three fields changed at once.
PartsSymbols(c, P, Y) == [c EXCEPT !.parts = P, !.symbols = Y]

PartsSymbolsEdges(c, P, Y, E) == [c EXCEPT !.parts = P, !.symbols = Y, !.edges = E]

WithSessions(c, S) == [c EXCEPT !.sessions = S]

EdgesDone(c, E, D) == [c EXCEPT !.edges = E, !.done = D]

LEMMA PartsSymbolsIs ==
  ASSUME NEW d, NEW P, NEW R, NEW S, NEW Y, NEW E, NEW D, NEW P2, NEW Y2,
         NEW c, c = Built(d, P, R, S, Y, E, D)
  PROVE  PartsSymbols(c, P2, Y2) = Built(d, P2, R, S, Y2, E, D)
<1> DEFINE p == [c EXCEPT !.parts = P2]
<1>1. p = Built(d, P2, R, S, Y, E, D)
  BY DEF Built
<1> HIDE DEF p
<1>2. [p EXCEPT !.symbols = Y2] = Built(d, P2, R, S, Y2, E, D)
  BY <1>1 DEF Built
<1> QED BY ONLY <1>2 DEF p, PartsSymbols

LEMMA PartsSymbolsEdgesIs ==
  ASSUME NEW d, NEW P, NEW R, NEW S, NEW Y, NEW E, NEW D, NEW P2, NEW Y2, NEW E2,
         NEW c, c = Built(d, P, R, S, Y, E, D)
  PROVE  PartsSymbolsEdges(c, P2, Y2, E2) = Built(d, P2, R, S, Y2, E2, D)
<1> DEFINE p == [c EXCEPT !.parts = P2]
           s == [p EXCEPT !.symbols = Y2]
<1>1. p = Built(d, P2, R, S, Y, E, D)
  BY DEF Built
<1> HIDE DEF p
<1>2. s = Built(d, P2, R, S, Y2, E, D)
  BY <1>1 DEF Built
<1> HIDE DEF s
<1>3. [s EXCEPT !.edges = E2] = Built(d, P2, R, S, Y2, E2, D)
  BY <1>2 DEF Built
<1> QED BY ONLY <1>3 DEF p, s, PartsSymbolsEdges

LEMMA WithSessionsIs ==
  ASSUME NEW d, NEW P, NEW R, NEW S, NEW Y, NEW E, NEW D, NEW S2,
         NEW c, c = Built(d, P, R, S, Y, E, D)
  PROVE  WithSessions(c, S2) = Built(d, P, R, S2, Y, E, D)
BY DEF Built, WithSessions

LEMMA EdgesDoneIs ==
  ASSUME NEW d, NEW P, NEW R, NEW S, NEW Y, NEW E, NEW D, NEW E2, NEW D2,
         NEW c, c = Built(d, P, R, S, Y, E, D)
  PROVE  EdgesDone(c, E2, D2) = Built(d, P, R, S, Y, E2, D2)
<1> DEFINE f == [c EXCEPT !.edges = E2]
<1>1. f = Built(d, P, R, S, Y, E2, D)
  BY DEF Built
<1> HIDE DEF f
<1>2. [f EXCEPT !.done = D2] = Built(d, P, R, S, Y, E2, D2)
  BY <1>1 DEF Built
<1> QED BY ONLY <1>2 DEF f, EdgesDone

\* d with other rows, and what is done to the result.
LEMMA RowsIs ==
  ASSUME NEW d, Shaped(d), NEW R
  PROVE  [d EXCEPT !.rows = R]
           = Built(d, d.parts, R, d.sessions, d.symbols, d.edges, d.done)
BY DEF Shaped, Built

LEMMA V2Is ==
  ASSUME NEW d, Shaped(d), Has(d, "exchanges")
  PROVE  \E R \in [Stored(d) -> Row] :
            /\ V2(d) = Built(d, d.parts \cup Adds[2], R, d.sessions, d.symbols, d.edges, d.done)
            /\ \A e \in Stored(d) :
                 /\ R[e].harness = d.rows[e].harness /\ R[e].session = d.rows[e].session /\ R[e].canonical = d.rows[e].canonical
                 /\ R[e].at = IF d.rows[e].at = "skipped" THEN None ELSE d.rows[e].at
                 /\ R[e].status = IF d.rows[e].at = "skipped" THEN "skipped"
                      ELSE IF d.rows[e].at = "time" THEN "distilled" ELSE Or(d.rows[e].status, "pending")
<1> DEFINE conv(e, r) == IF r.at = "skipped" THEN [r EXCEPT !.status = "skipped", !.at = None]
                         ELSE IF r.at = "time" THEN [r EXCEPT !.status = "distilled"]
                         ELSE [r EXCEPT !.status = Or(r.status, "pending")]
           R == [e \in Stored(d) |-> conv(e, d.rows[e])]
<1>1. ASSUME NEW e, NEW r \in Row
      PROVE  /\ conv(e, r) \in Row
             /\ conv(e, r).harness = r.harness /\ conv(e, r).session = r.session /\ conv(e, r).canonical = r.canonical
             /\ conv(e, r).at = IF r.at = "skipped" THEN None ELSE r.at
             /\ conv(e, r).status = IF r.at = "skipped" THEN "skipped"
                  ELSE IF r.at = "time" THEN "distilled" ELSE Or(r.status, "pending")
  BY DEF Row, Or, None, Inferred
<1>2. \A e \in Stored(d) : d.rows[e] \in Row
  BY DEF Shaped
<1>3. V2(d) = Built(d, d.parts \cup Adds[2], R, d.sessions, d.symbols, d.edges, d.done)
  <2> DEFINE W == With(d, Adds[2])
  <2>0. W = Built(d, d.parts \cup Adds[2], d.rows, d.sessions, d.symbols, d.edges, d.done)
    BY WithIs
  <2>1. W.rows = d.rows /\ Shaped(W)
    <3>1. d.rows \in [Stored(d) -> Row]
      BY DEF Shaped
    <3> QED BY <2>0, <3>1, BuiltIs
  <2> HIDE DEF W, conv
  <2>2. V2(d) = [W EXCEPT !.rows = [e \in Stored(W) |-> conv(e, W.rows[e])]]
    BY DEF V2, EachRow, W, conv
  <2>3. V2(d) = [W EXCEPT !.rows = R]
    BY <2>1, <2>2 DEF Stored
  <2>4. V2(d) = Built(W, W.parts, R, W.sessions, W.symbols, W.edges, W.done)
    BY <2>1, <2>3, RowsIs
  <2> QED BY <2>0, <2>4 DEF Built
<1> HIDE DEF conv
<1>4. R \in [Stored(d) -> Row]
  BY <1>1, <1>2
<1>5. WITNESS R \in [Stored(d) -> Row]
<1> QED BY <1>1, <1>2, <1>3

LEMMA V8Is ==
  ASSUME NEW d, Shaped(d), Has(d, "exchanges")
  PROVE  \E R \in [Stored(d) -> Row] :
            /\ V8(d) = Built(d, d.parts \cup Adds[8], R, d.sessions, d.symbols, d.edges, d.done)
            /\ \A e \in Stored(d) :
                 /\ R[e].status = d.rows[e].status /\ R[e].at = d.rows[e].at
                 /\ R[e].harness = d.rows[e].harness /\ R[e].session = d.rows[e].session /\ R[e].canonical = d.rows[e].canonical
<1> DEFINE conv(e, r) == [r EXCEPT !.branch = IF e \in CodexTurns THEN None ELSE "main"]
           R == [e \in Stored(d) |-> conv(e, d.rows[e])]
<1>1. ASSUME NEW e, NEW r \in Row
      PROVE  /\ conv(e, r) \in Row
             /\ conv(e, r).status = r.status /\ conv(e, r).at = r.at
             /\ conv(e, r).harness = r.harness /\ conv(e, r).session = r.session /\ conv(e, r).canonical = r.canonical
  BY DEF Row, Or, None, Inferred
<1>2. \A e \in Stored(d) : d.rows[e] \in Row
  BY DEF Shaped
<1>3. V8(d) = Built(d, d.parts \cup Adds[8], R, d.sessions, d.symbols, d.edges, d.done)
  <2> DEFINE W == With(d, Adds[8])
  <2>0. W = Built(d, d.parts \cup Adds[8], d.rows, d.sessions, d.symbols, d.edges, d.done)
    BY WithIs
  <2>1. W.rows = d.rows /\ Shaped(W)
    <3>1. d.rows \in [Stored(d) -> Row]
      BY DEF Shaped
    <3> QED BY <2>0, <3>1, BuiltIs
  <2> HIDE DEF W, conv
  <2>2. V8(d) = [W EXCEPT !.rows = [e \in Stored(W) |-> conv(e, W.rows[e])]]
    BY DEF V8, EachRow, W, conv
  <2>3. V8(d) = [W EXCEPT !.rows = R]
    BY <2>1, <2>2 DEF Stored
  <2>4. V8(d) = Built(W, W.parts, R, W.sessions, W.symbols, W.edges, W.done)
    BY <2>1, <2>3, RowsIs
  <2> QED BY <2>0, <2>4 DEF Built
<1> HIDE DEF conv
<1>4. R \in [Stored(d) -> Row]
  BY <1>1, <1>2
<1>5. WITNESS R \in [Stored(d) -> Row]
<1> QED BY <1>1, <1>2, <1>3

LEMMA V7Is ==
  ASSUME NEW d, Shaped(d), Has(d, "exchanges"), Has(d, "palace_objects")
  PROVE  \E R \in [Stored(d) -> Row] :
            /\ V7(d) = Built(d, d.parts \ Drops[7], R, d.sessions, d.symbols \cap d.palace, d.edges, d.done)
            /\ \A e \in Stored(d) :
                 /\ R[e].harness = d.rows[e].harness /\ R[e].session = d.rows[e].session /\ R[e].canonical = d.rows[e].canonical
                 /\ R[e].at = IF d.rows[e].status = "distilled" /\ e \notin d.palace THEN None ELSE d.rows[e].at
                 /\ R[e].status = IF d.rows[e].status = "distilled" /\ e \notin d.palace THEN "pending" ELSE d.rows[e].status
<1> DEFINE conv(e, r) == IF r.status = "distilled" /\ e \notin d.palace
                         THEN [r EXCEPT !.status = "pending", !.at = None] ELSE r
           R == [e \in Stored(d) |-> conv(e, d.rows[e])]
<1>1. ASSUME NEW e, NEW r \in Row
      PROVE  /\ conv(e, r) \in Row
             /\ conv(e, r).harness = r.harness /\ conv(e, r).session = r.session /\ conv(e, r).canonical = r.canonical
             /\ conv(e, r).at = IF r.status = "distilled" /\ e \notin d.palace THEN None ELSE r.at
             /\ conv(e, r).status = IF r.status = "distilled" /\ e \notin d.palace THEN "pending" ELSE r.status
  BY DEF Row, Or, None, Inferred
<1>2. \A e \in Stored(d) : d.rows[e] \in Row
  BY DEF Shaped
<1>3. V7(d) = Built(d, d.parts \ Drops[7], R, d.sessions, d.symbols \cap d.palace, d.edges, d.done)
  <2> DEFINE W == d
  <2>0. W = Built(d, d.parts, d.rows, d.sessions, d.symbols, d.edges, d.done)
    BY SameIs
  <2>1. W.rows = d.rows /\ Shaped(W)
    <3>1. d.rows \in [Stored(d) -> Row]
      BY DEF Shaped
    <3> QED BY <2>0, <3>1, BuiltIs
  <2> HIDE DEF W, conv
  <2>2. V7(d) = [[W EXCEPT !.rows = [e \in Stored(W) |-> conv(e, W.rows[e])]] EXCEPT !.parts = @ \ Drops[7], !.symbols = @ \cap d.palace]
    BY DEF V7, EachRow, W, conv
  <2>3. V7(d) = [[W EXCEPT !.rows = R] EXCEPT !.parts = @ \ Drops[7], !.symbols = @ \cap d.palace]
    BY <2>1, <2>2 DEF Stored
  <2>4. [W EXCEPT !.rows = R] = Built(W, W.parts, R, W.sessions, W.symbols, W.edges, W.done)
    BY <2>1, RowsIs
  <2>5. [W EXCEPT !.rows = R] = Built(d, d.parts, R, d.sessions, d.symbols, d.edges, d.done)
    BY <2>0, <2>4 DEF Built
  <2> DEFINE X == [W EXCEPT !.rows = R]
  <2> HIDE DEF X
  <2>6. X = Built(d, d.parts, R, d.sessions, d.symbols, d.edges, d.done)
    BY <2>5 DEF X
  <2>7. X.parts = d.parts /\ X.symbols = d.symbols /\ X.sessions = d.sessions
    BY <2>6 DEF Built
  <2>8. V7(d) = [X EXCEPT !.parts = @ \ Drops[7], !.symbols = @ \cap d.palace]
    BY <2>3 DEF X
  <2>9. V7(d) = PartsSymbols(X, d.parts \ Drops[7], d.symbols \cap d.palace)
    BY <2>7, <2>8 DEF PartsSymbols
  <2> QED BY <2>6, <2>9, PartsSymbolsIs
<1> HIDE DEF conv
<1>4. R \in [Stored(d) -> Row]
  BY <1>1, <1>2
<1>5. WITNESS R \in [Stored(d) -> Row]
<1> QED BY <1>1, <1>2, <1>3

LEMMA V7Bare ==
  ASSUME NEW d, Shaped(d), ~(Has(d, "exchanges") /\ Has(d, "palace_objects"))
  PROVE  V7(d) = Built(d, d.parts \ Drops[7], d.rows, d.sessions, d.symbols \cap d.palace,
                       d.edges, d.done)
<1>1. V7(d) = PartsSymbols(d, d.parts \ Drops[7], d.symbols \cap d.palace)
  BY DEF V7, PartsSymbols
<1> QED BY <1>1, SameIs, PartsSymbolsIs

LEMMA V14Is ==
  ASSUME NEW d, Shaped(d)
  PROVE  V14(d) = Built(d, d.parts \ Drops[14], d.rows, d.sessions, {},
                        d.edges \cup {<<e, "distill">> : e \in d.symbols \cap d.palace \cap Stored(d)},
                        d.done)
<1> DEFINE E == {<<e, "distill">> : e \in d.symbols \cap d.palace \cap Stored(d)}
<1> HIDE DEF E
<1>1. V14(d) = PartsSymbolsEdges(d, d.parts \ Drops[14], {}, d.edges \cup E)
  BY DEF V14, E, PartsSymbolsEdges
<1>2. V14(d) = Built(d, d.parts \ Drops[14], d.rows, d.sessions, {}, d.edges \cup E, d.done)
  BY <1>1, SameIs, PartsSymbolsEdgesIs
<1> QED BY <1>2 DEF E

LEMMA V11Is ==
  ASSUME NEW d, Shaped(d), Has(d, "exchanges")
  PROVE  \E R \in [Stored(d) -> Row] :
            /\ V11(d) = Built(d, d.parts \cup Adds[11], R,
                             d.sessions \cup {<<Inferred(e), e>> : e \in Stored(d)},
                             d.symbols, d.edges, d.done)
            /\ \A e \in Stored(d) :
                 /\ R[e].status = d.rows[e].status /\ R[e].at = d.rows[e].at /\ R[e].canonical = d.rows[e].canonical
                 /\ R[e].session = Inferred(e) /\ R[e].harness = Or(d.rows[e].harness, Inferred(e))
<1> DEFINE conv(e, r) == [r EXCEPT !.session = Inferred(e), !.harness = Or(@, Inferred(e))]
           R == [e \in Stored(d) |-> conv(e, d.rows[e])]
<1>1. ASSUME NEW e, NEW r \in Row
      PROVE  /\ conv(e, r) \in Row
             /\ conv(e, r).status = r.status /\ conv(e, r).at = r.at /\ conv(e, r).canonical = r.canonical
             /\ conv(e, r).session = Inferred(e) /\ conv(e, r).harness = Or(r.harness, Inferred(e))
  BY DEF Row, Or, None, Inferred
<1>2. \A e \in Stored(d) : d.rows[e] \in Row
  BY DEF Shaped
<1>3. V11(d) = Built(d, d.parts \cup Adds[11], R,
                             d.sessions \cup {<<Inferred(e), e>> : e \in Stored(d)},
                             d.symbols, d.edges, d.done)
  <2> DEFINE S == {<<Inferred(e), e>> : e \in Stored(d)}
  <2> HIDE DEF S
  <2> DEFINE W == With(d, Adds[11])
  <2>0. W = Built(d, d.parts \cup Adds[11], d.rows, d.sessions, d.symbols, d.edges, d.done)
    BY WithIs
  <2>1. W.rows = d.rows /\ Shaped(W)
    <3>1. d.rows \in [Stored(d) -> Row]
      BY DEF Shaped
    <3> QED BY <2>0, <3>1, BuiltIs
  <2> HIDE DEF W, conv
  <2>2. V11(d) = [[W EXCEPT !.rows = [e \in Stored(W) |-> conv(e, W.rows[e])]] EXCEPT
                     !.sessions = @ \cup S]
    BY DEF V11, EachRow, W, conv, S
  <2> DEFINE X == [W EXCEPT !.rows = R]
  <2>3. V11(d) = [X EXCEPT !.sessions = @ \cup S]
    BY <2>1, <2>2 DEF Stored
  <2>4. X = Built(W, W.parts, R, W.sessions, W.symbols, W.edges, W.done)
    BY <2>1, RowsIs
  <2>5. X = Built(d, d.parts \cup Adds[11], R, d.sessions, d.symbols, d.edges, d.done)
    BY <2>0, <2>4 DEF Built
  <2> HIDE DEF X
  <2>6. X.sessions = d.sessions
    BY <2>5 DEF Built
  <2>7. V11(d) = WithSessions(X, d.sessions \cup S)
    BY <2>3, <2>6 DEF WithSessions
  <2> QED BY <2>5, <2>7, WithSessionsIs DEF S
<1> HIDE DEF conv
<1>4. R \in [Stored(d) -> Row]
  BY <1>1, <1>2
<1>5. WITNESS R \in [Stored(d) -> Row]
<1> QED BY <1>1, <1>2, <1>3

LEMMA ProvenanceIs ==
  ASSUME NEW d, Shaped(d)
  PROVE  \E R \in [Stored(d) -> Row] :
            /\ Provenance(d) = Built(d, d.parts, R,
                             d.sessions \cup {<<Inferred(e), e>> : e \in Unattributed(d)},
                             d.symbols, d.edges, d.done)
            /\ \A e \in Stored(d) :
                 /\ R[e].status = d.rows[e].status /\ R[e].at = d.rows[e].at /\ R[e].canonical = d.rows[e].canonical
                 /\ R[e].session = Or(d.rows[e].session, Inferred(e)) /\ R[e].harness = Or(d.rows[e].harness, Inferred(e))
<1> DEFINE conv(e, r) == [r EXCEPT !.session = Or(@, Inferred(e)), !.harness = Or(@, Inferred(e))]
           R == [e \in Stored(d) |-> conv(e, d.rows[e])]
<1>1. ASSUME NEW e, NEW r \in Row
      PROVE  /\ conv(e, r) \in Row
             /\ conv(e, r).status = r.status /\ conv(e, r).at = r.at /\ conv(e, r).canonical = r.canonical
             /\ conv(e, r).session = Or(r.session, Inferred(e)) /\ conv(e, r).harness = Or(r.harness, Inferred(e))
  BY DEF Row, Or, None, Inferred
<1>2. \A e \in Stored(d) : d.rows[e] \in Row
  BY DEF Shaped
<1>3. Provenance(d) = Built(d, d.parts, R,
                             d.sessions \cup {<<Inferred(e), e>> : e \in Unattributed(d)},
                             d.symbols, d.edges, d.done)
  <2> DEFINE S == {<<Inferred(e), e>> : e \in Unattributed(d)}
  <2> HIDE DEF S
  <2> DEFINE W == d
  <2>0. W = Built(d, d.parts, d.rows, d.sessions, d.symbols, d.edges, d.done)
    BY SameIs
  <2>1. W.rows = d.rows /\ Shaped(W)
    <3>1. d.rows \in [Stored(d) -> Row]
      BY DEF Shaped
    <3> QED BY <2>0, <3>1, BuiltIs
  <2> HIDE DEF W, conv
  <2>2. Provenance(d) = [[W EXCEPT !.rows = [e \in Stored(W) |-> conv(e, W.rows[e])]] EXCEPT
                     !.sessions = @ \cup S]
    BY DEF Provenance, EachRow, W, conv, S
  <2> DEFINE X == [W EXCEPT !.rows = R]
  <2>3. Provenance(d) = [X EXCEPT !.sessions = @ \cup S]
    BY <2>1, <2>2 DEF Stored
  <2>4. X = Built(W, W.parts, R, W.sessions, W.symbols, W.edges, W.done)
    BY <2>1, RowsIs
  <2>5. X = Built(d, d.parts, R, d.sessions, d.symbols, d.edges, d.done)
    BY <2>0, <2>4 DEF Built
  <2> HIDE DEF X
  <2>6. X.sessions = d.sessions
    BY <2>5 DEF Built
  <2>7. Provenance(d) = WithSessions(X, d.sessions \cup S)
    BY <2>3, <2>6 DEF WithSessions
  <2> QED BY <2>5, <2>7, WithSessionsIs DEF S
<1> HIDE DEF conv
<1>4. R \in [Stored(d) -> Row]
  BY <1>1, <1>2
<1>5. WITNESS R \in [Stored(d) -> Row]
<1> QED BY <1>1, <1>2, <1>3

LEMMA CanonicalIdsIs ==
  ASSUME NEW d, Shaped(d), Has(d, "exchanges")
  PROVE  \E R \in [Stored(d) -> Row] :
            /\ CanonicalIds(d) = Built(d, d.parts, R, d.sessions, d.symbols, d.edges, d.done)
            /\ \A e \in Stored(d) :
                 /\ R[e].status = d.rows[e].status /\ R[e].at = d.rows[e].at /\ R[e].session = d.rows[e].session /\ R[e].harness = d.rows[e].harness
                 /\ R[e].canonical = Or(d.rows[e].canonical, d.rows[e].harness)
<1> DEFINE conv(e, r) == [r EXCEPT !.canonical = Or(@, r.harness)]
           R == [e \in Stored(d) |-> conv(e, d.rows[e])]
<1>1. ASSUME NEW e, NEW r \in Row
      PROVE  /\ conv(e, r) \in Row
             /\ conv(e, r).status = r.status /\ conv(e, r).at = r.at /\ conv(e, r).session = r.session /\ conv(e, r).harness = r.harness
             /\ conv(e, r).canonical = Or(r.canonical, r.harness)
  BY DEF Row, Or, None, Inferred
<1>2. \A e \in Stored(d) : d.rows[e] \in Row
  BY DEF Shaped
<1>3. CanonicalIds(d) = Built(d, d.parts, R, d.sessions, d.symbols, d.edges, d.done)
  <2> DEFINE W == d
  <2>0. W = Built(d, d.parts, d.rows, d.sessions, d.symbols, d.edges, d.done)
    BY SameIs
  <2>1. W.rows = d.rows /\ Shaped(W)
    <3>1. d.rows \in [Stored(d) -> Row]
      BY DEF Shaped
    <3> QED BY <2>0, <3>1, BuiltIs
  <2> HIDE DEF W, conv
  <2>2. CanonicalIds(d) = [W EXCEPT !.rows = [e \in Stored(W) |-> conv(e, W.rows[e])]]
    BY DEF CanonicalIds, EachRow, W, conv
  <2>3. CanonicalIds(d) = [W EXCEPT !.rows = R]
    BY <2>1, <2>2 DEF Stored
  <2>4. CanonicalIds(d) = Built(W, W.parts, R, W.sessions, W.symbols, W.edges, W.done)
    BY <2>1, <2>3, RowsIs
  <2> QED BY <2>0, <2>4 DEF Built
<1> HIDE DEF conv
<1>4. R \in [Stored(d) -> Row]
  BY <1>1, <1>2
<1>5. WITNESS R \in [Stored(d) -> Row]
<1> QED BY <1>1, <1>2, <1>3

LEMMA ParentRefsIs ==
  ASSUME NEW d, Shaped(d), Has(d, "parent_session_ref")
  PROVE  \E R \in [Stored(d) -> Row] :
            /\ ParentRefs(d) = Built(d, d.parts, R, d.sessions, d.symbols, d.edges, d.done)
            /\ \A e \in Stored(d) :
                 /\ R[e].status = d.rows[e].status /\ R[e].at = d.rows[e].at
                 /\ R[e].harness = d.rows[e].harness /\ R[e].session = d.rows[e].session /\ R[e].canonical = d.rows[e].canonical
<1> DEFINE conv(e, r) == [r EXCEPT !.parent = @ \/ e \in AgentTurns]
           R == [e \in Stored(d) |-> conv(e, d.rows[e])]
<1>1. ASSUME NEW e, NEW r \in Row
      PROVE  /\ conv(e, r) \in Row
             /\ conv(e, r).status = r.status /\ conv(e, r).at = r.at
             /\ conv(e, r).harness = r.harness /\ conv(e, r).session = r.session /\ conv(e, r).canonical = r.canonical
  BY DEF Row, Or, None, Inferred
<1>2. \A e \in Stored(d) : d.rows[e] \in Row
  BY DEF Shaped
<1>3. ParentRefs(d) = Built(d, d.parts, R, d.sessions, d.symbols, d.edges, d.done)
  <2> DEFINE W == d
  <2>0. W = Built(d, d.parts, d.rows, d.sessions, d.symbols, d.edges, d.done)
    BY SameIs
  <2>1. W.rows = d.rows /\ Shaped(W)
    <3>1. d.rows \in [Stored(d) -> Row]
      BY DEF Shaped
    <3> QED BY <2>0, <3>1, BuiltIs
  <2> HIDE DEF W, conv
  <2>2. ParentRefs(d) = [W EXCEPT !.rows = [e \in Stored(W) |-> conv(e, W.rows[e])]]
    BY DEF ParentRefs, EachRow, W, conv
  <2>3. ParentRefs(d) = [W EXCEPT !.rows = R]
    BY <2>1, <2>2 DEF Stored
  <2>4. ParentRefs(d) = Built(W, W.parts, R, W.sessions, W.symbols, W.edges, W.done)
    BY <2>1, <2>3, RowsIs
  <2> QED BY <2>0, <2>4 DEF Built
<1> HIDE DEF conv
<1>4. R \in [Stored(d) -> Row]
  BY <1>1, <1>2
<1>5. WITNESS R \in [Stored(d) -> Row]
<1> QED BY <1>1, <1>2, <1>3

Mislabelled(d) == {e \in Stored(d) : d.rows[e].harness \notin {None, Inferred(e)}}

LEMMA V13Is ==
  ASSUME NEW d, Shaped(d), Has(d, "exchanges")
  PROVE  \E R \in [Stored(d) -> Row] :
            /\ V13(d) = Built(d, d.parts, R,
                              (d.sessions \cup {<<Inferred(e), e>> : e \in Mislabelled(d)})
                                 \ {<<"claude", e>> : e \in {x \in Mislabelled(d) :
                                                               R[x].session # "claude"}},
                              d.symbols, d.edges, d.done)
            /\ \A e \in Stored(d) :
                 /\ R[e].status = d.rows[e].status /\ R[e].at = d.rows[e].at
                 /\ e \notin Mislabelled(d) => R[e] = d.rows[e]
                 /\ e \in Mislabelled(d) =>
                      /\ R[e].harness = Inferred(e) /\ R[e].session = Inferred(e)
                      /\ R[e].canonical = IF Has(d, "canonical_exchange_id")
                                          THEN Inferred(e) ELSE d.rows[e].canonical
<1> DEFINE fix(e, r) == [r EXCEPT !.harness = Inferred(e), !.session = Inferred(e),
                                  !.canonical = IF Has(d, "canonical_exchange_id")
                                                THEN Inferred(e) ELSE @]
           conv(e, r) == IF ~(d.rows[e].harness \notin {None, Inferred(e)}) THEN r ELSE fix(e, r)
           R == [e \in Stored(d) |-> conv(e, d.rows[e])]
           A == {<<Inferred(e), e>> : e \in Mislabelled(d)}
           G(rows) == {<<"claude", e>> : e \in {x \in Mislabelled(d) :
                                                  rows[x].session # "claude"}}
<1>1. ASSUME NEW e, NEW r \in Row
      PROVE  /\ fix(e, r) \in Row
             /\ fix(e, r).status = r.status /\ fix(e, r).at = r.at
             /\ fix(e, r).harness = Inferred(e) /\ fix(e, r).session = Inferred(e)
             /\ fix(e, r).canonical = IF Has(d, "canonical_exchange_id")
                                      THEN Inferred(e) ELSE r.canonical
  BY DEF Row, None, Inferred
<1>2. \A e \in Stored(d) : d.rows[e] \in Row
  BY DEF Shaped
<1> HIDE DEF fix
<1>3. V13(d) = Built(d, d.parts, R, (d.sessions \cup A) \ G(R), d.symbols, d.edges, d.done)
  <2> DEFINE X == [d EXCEPT !.rows = R]
  <2>1. X = Built(d, d.parts, R, d.sessions, d.symbols, d.edges, d.done)
    BY RowsIs
  <2>2. V13(d) = [X EXCEPT !.sessions = (@ \cup A) \ G(X.rows)]
    BY DEF V13, EachRow, Mislabelled, fix
  <2> HIDE DEF X, R, A, G
  <2>3. X.sessions = d.sessions /\ X.rows = R
    BY <2>1 DEF Built
  <2>4. V13(d) = WithSessions(X, (d.sessions \cup A) \ G(R))
    BY <2>2, <2>3 DEF WithSessions
  <2> QED BY <2>1, <2>4, WithSessionsIs
<1>4. \A e \in Stored(d) : e \in Mislabelled(d) => R[e] = fix(e, d.rows[e])
  BY DEF Mislabelled
<1>5. \A e \in Stored(d) : e \notin Mislabelled(d) => R[e] = d.rows[e]
  BY DEF Mislabelled
<1>6. R \in [Stored(d) -> Row]
  BY <1>1, <1>2, <1>4, <1>5
<1>7. WITNESS R \in [Stored(d) -> Row]
<1> HIDE DEF R
<1> QED BY <1>1, <1>2, <1>3, <1>4, <1>5

LEMMA LegacyEdgesIs ==
  ASSUME NEW d, Shaped(d), "legacy_edges" \notin d.done
  PROVE  \E E :
            /\ LegacyEdges(d) = Built(d, d.parts \cup {"meta"}, d.rows, d.sessions, d.symbols,
                                      E, d.done \cup {"legacy_edges"})
            /\ d.edges \subseteq E /\ E \subseteq d.edges \cup (d.files \X {"mention"})
            /\ \A e \in d.files : \E edge \in E : edge[1] = e
<1> DEFINE bare == {e \in d.files : \A edge \in d.edges : edge[1] # e}
           E == d.edges \cup (bare \X {"mention"})
           D == d.done \cup {"legacy_edges"}
           W == With(d, {"meta"})
<1>1. LegacyEdges(d) = [W EXCEPT !.edges = @ \cup (bare \X {"mention"}),
                                 !.done = @ \cup {"legacy_edges"}]
  BY DEF LegacyEdges
<1>2. W = Built(d, d.parts \cup {"meta"}, d.rows, d.sessions, d.symbols, d.edges, d.done)
  BY WithIs
<1> HIDE DEF W
<1>3. W.edges = d.edges /\ W.done = d.done
  BY <1>2 DEF Built
<1>4. LegacyEdges(d) = EdgesDone(W, E, D)
  BY <1>1, <1>3 DEF EdgesDone
<1>5. ASSUME NEW e \in d.files
      PROVE  \E edge \in E : edge[1] = e
  <2>1. CASE e \in bare
    <3>1. <<e, "mention">> \in E
      BY <2>1
    <3> QED BY <3>1
  <2>2. CASE e \notin bare
    BY <2>2
  <2> QED BY <2>1, <2>2
<1> HIDE DEF E, D
<1>6. LegacyEdges(d) = Built(d, d.parts \cup {"meta"}, d.rows, d.sessions, d.symbols, E, D)
  BY <1>2, <1>4, EdgesDoneIs
<1>7. d.edges \subseteq E /\ E \subseteq d.edges \cup (d.files \X {"mention"})
  BY DEF E
<1>8. WITNESS E
<1> QED BY <1>5, <1>6, <1>7 DEF D

LEMMA TouchTimeEdgesIs ==
  ASSUME NEW d, Shaped(d)
  PROVE  \E E, D :
            /\ TouchTimeEdges(d) = Built(d, d.parts, d.rows, d.sessions, d.symbols, E, D)
            /\ d.edges \subseteq E /\ E \subseteq d.edges \cup (d.touches \X {"line"})
            /\ D \ {"touch_time_edges"} = d.done \ {"touch_time_edges"}
<1>1. CASE "touch_time_edges" \in d.done \/ ~Has(d, "code_touches")
  <2>1. TouchTimeEdges(d) = d
    BY <1>1 DEF TouchTimeEdges
  <2> QED BY <2>1, SameIs
<1>2. CASE ~("touch_time_edges" \in d.done \/ ~Has(d, "code_touches"))
  <2> DEFINE E == d.edges \cup (d.touches \X {"line"})
             D == d.done \cup {"touch_time_edges"}
  <2>1. TouchTimeEdges(d) = EdgesDone(d, E, D)
    BY <1>2 DEF TouchTimeEdges, EdgesDone
  <2>2. /\ d.edges \subseteq E /\ E \subseteq d.edges \cup (d.touches \X {"line"})
        /\ D \ {"touch_time_edges"} = d.done \ {"touch_time_edges"}
    OBVIOUS
  <2> HIDE DEF E, D
  <2>3. TouchTimeEdges(d) = Built(d, d.parts, d.rows, d.sessions, d.symbols, E, D)
    BY <2>1, SameIs, EdgesDoneIs
  <2> QED BY <2>2, <2>3
<1> QED BY <1>1, <1>2

-----------------------------------------------------------------------------
(* What a migration carries over, of any database                          *)

\* c is d after a migration or a pass that fills something in.
Follows(d, c) ==
    /\ Shaped(c) /\ Stored(c) = Stored(d) /\ c.version = d.version
    /\ c.palace = d.palace /\ c.files = d.files
    /\ d.edges \subseteq c.edges
    /\ \A e \in d.symbols \cap d.palace \cap Stored(d) :
         e \in c.symbols \/ <<e, "distill">> \in c.edges

LEMMA FollowsSelf ==
  ASSUME NEW d, Shaped(d)
  PROVE  Follows(d, d)
BY DEF Follows

LEMMA BuiltFollows ==
  ASSUME NEW d, Shaped(d), NEW P, NEW R \in [Stored(d) -> Row], NEW S, NEW Y, NEW E, NEW D,
         NEW c, c = Built(d, P, R, S, Y, E, D), d.edges \subseteq E,
         \A e \in d.symbols \cap d.palace \cap Stored(d) : e \in Y \/ <<e, "distill">> \in E
  PROVE  Follows(d, c) /\ c.done = D
BY BuiltIs DEF Follows

LEMMA MigratedFollows ==
  ASSUME NEW d, Shaped(d), NEW n \in 1..Latest
  PROVE  Follows(d, Migrated(d, n)) /\ Migrated(d, n).done = d.done
<1> DEFINE Good(c) == Follows(d, c) /\ c.done = d.done
<1>0. d.rows \in [Stored(d) -> Row] /\ Good(d)
  BY FollowsSelf DEF Shaped
<1>1. ASSUME NEW P, NEW R \in [Stored(d) -> Row], NEW S
      PROVE  Good(Built(d, P, R, S, d.symbols, d.edges, d.done))
  BY BuiltFollows
<1>2. ASSUME NEW P, NEW R \in [Stored(d) -> Row]
      PROVE  Good(Built(d, P, R, d.sessions, d.symbols \cap d.palace, d.edges, d.done))
  BY BuiltFollows
<1>3. Good(V14(d))
  <2> DEFINE E == d.edges \cup {<<e, "distill">> : e \in d.symbols \cap d.palace \cap Stored(d)}
  <2>1. /\ d.edges \subseteq E
        /\ \A e \in d.symbols \cap d.palace \cap Stored(d) : <<e, "distill">> \in E
    OBVIOUS
  <2>2. V14(d) = Built(d, d.parts \ Drops[14], d.rows, d.sessions, {}, E, d.done)
    BY V14Is
  <2> HIDE DEF E
  <2> QED BY <1>0, <2>1, <2>2, BuiltFollows
<1> HIDE DEF Good
<1>4. ASSUME NEW P
      PROVE  Good(With(d, P))
  <2>1. Good(Built(d, d.parts \cup P, d.rows, d.sessions, d.symbols, d.edges, d.done))
    BY <1>0, <1>1
  <2> QED BY <2>1, WithIs
<1>5. Good(V2(d))
  <2>1. CASE Has(d, "exchanges")
    <3>1. PICK R \in [Stored(d) -> Row] :
                 V2(d) = Built(d, d.parts \cup Adds[2], R, d.sessions, d.symbols, d.edges, d.done)
      BY <2>1, V2Is
    <3> QED BY <1>1, <3>1
  <2>2. CASE ~Has(d, "exchanges")
    BY <1>0, <2>2 DEF V2
  <2> QED BY <2>1, <2>2
<1>6. Good(V7(d))
  <2>1. CASE Has(d, "exchanges") /\ Has(d, "palace_objects")
    BY <1>2, <2>1, V7Is
  <2>2. CASE ~(Has(d, "exchanges") /\ Has(d, "palace_objects"))
    BY <1>0, <1>2, <2>2, V7Bare
  <2> QED BY <2>1, <2>2
<1>7. Good(V8(d))
  <2>1. CASE Has(d, "exchanges")
    <3>1. PICK R \in [Stored(d) -> Row] :
                 \E S : V8(d) = Built(d, d.parts \cup Adds[8], R, S, d.symbols, d.edges, d.done)
      BY <2>1, V8Is
    <3> QED BY <1>1, <3>1
  <2>2. CASE ~Has(d, "exchanges")
    BY <1>0, <2>2 DEF V8
  <2> QED BY <2>1, <2>2
<1>8. Good(V11(d))
  <2>1. CASE Has(d, "exchanges")
    <3>1. PICK R \in [Stored(d) -> Row] :
                 \E S : V11(d) = Built(d, d.parts \cup Adds[11], R, S, d.symbols, d.edges, d.done)
      BY <2>1, V11Is
    <3> QED BY <1>1, <3>1
  <2>2. CASE ~Has(d, "exchanges")
    BY <1>4, <2>2 DEF V11
  <2> QED BY <2>1, <2>2
<1>9. Good(V13(d))
  <2>1. CASE Has(d, "exchanges")
    <3>1. PICK R \in [Stored(d) -> Row] :
                 \E S : V13(d) = Built(d, d.parts, R, S, d.symbols, d.edges, d.done)
      BY <2>1, V13Is
    <3> QED BY <1>1, <3>1
  <2>2. CASE ~Has(d, "exchanges")
    BY <1>0, <2>2 DEF V13
  <2> QED BY <2>1, <2>2
<1>10. Good(V1(d)) /\ Good(V3(d)) /\ Good(V4(d)) /\ Good(V5(d)) /\ Good(V9(d)) /\ Good(V10(d))
       /\ Good(V12(d)) /\ Good(V15(d))
  BY <1>0, <1>4 DEF V1, V3, V4, V5, V9, V10, V12, V15
<1>11. Good(Migrated(d, n))
  BY <1>0, <1>3, <1>5, <1>6, <1>7, <1>8, <1>9, <1>10 DEF Migrated, Latest
<1> QED BY <1>11 DEF Good

LEMMA FollowsOn ==
  ASSUME NEW a, NEW b, NEW c, Follows(a, b), Follows(b, c)
  PROVE  Follows(a, c) /\ (Reach(a) => Reach(c))
BY DEF Follows, Reach

LEMMA BackfilledFollows ==
  ASSUME NEW d, Shaped(d), "legacy_edges" \in d.done => Reach(d)
  PROVE  LET c == Backfilled(d) IN
         Follows(d, c) /\ "legacy_edges" \in c.done /\ Reach(c)
<1> DEFINE a1 == Provenance(d)
           a2 == CanonicalIds(a1)
           a3 == ParentRefs(a2)
           a4 == LegacyEdges(a3)
           a5 == TouchTimeEdges(a4)
           c  == With(a5, {"vec_palace"})
<1>1. Follows(d, a1) /\ a1.done = d.done
  <2>1. PICK R \in [Stored(d) -> Row] :
               \E S : a1 = Built(d, d.parts, R, S, d.symbols, d.edges, d.done)
    BY ProvenanceIs
  <2> QED BY <2>1, BuiltFollows
<1> HIDE DEF a1
<1>2. Follows(a1, a2) /\ a2.done = a1.done
  <2>0. Shaped(a1)
    BY <1>1 DEF Follows
  <2>1. CASE Has(a1, "exchanges")
    <3>1. PICK R \in [Stored(a1) -> Row] :
                 a2 = Built(a1, a1.parts, R, a1.sessions, a1.symbols, a1.edges, a1.done)
      BY <1>1, <2>1, CanonicalIdsIs DEF Follows
    <3> QED BY <2>0, <3>1, BuiltFollows
  <2>2. CASE ~Has(a1, "exchanges")
    BY <1>1, <2>2, FollowsSelf DEF CanonicalIds, Follows
  <2> QED BY <2>1, <2>2
<1> HIDE DEF a2
<1>3. Follows(a2, a3) /\ a3.done = a2.done
  <2>0. Shaped(a2)
    BY <1>2 DEF Follows
  <2>1. CASE Has(a2, "parent_session_ref")
    <3>1. PICK R \in [Stored(a2) -> Row] :
                 a3 = Built(a2, a2.parts, R, a2.sessions, a2.symbols, a2.edges, a2.done)
      BY <1>2, <2>1, ParentRefsIs DEF Follows
    <3> QED BY <2>0, <3>1, BuiltFollows
  <2>2. CASE ~Has(a2, "parent_session_ref")
    BY <1>2, <2>2, FollowsSelf DEF ParentRefs, Follows
  <2> QED BY <2>1, <2>2
<1> HIDE DEF a3
<1>4. Follows(d, a3) /\ ("legacy_edges" \in a3.done => Reach(a3))
  <2>1. Follows(d, a2) /\ (Reach(d) => Reach(a2))
    BY <1>1, <1>2, FollowsOn
  <2>2. Follows(d, a3) /\ (Reach(d) => Reach(a3))
    BY <1>3, <2>1, FollowsOn DEF Follows, Reach
  <2> QED BY <1>1, <1>2, <1>3, <2>2
<1>5. Follows(a3, a4) /\ "legacy_edges" \in a4.done /\ Reach(a4)
  <2>1. CASE "legacy_edges" \in a3.done
    BY <1>4, <2>1, FollowsSelf DEF LegacyEdges, Follows
  <2>2. CASE "legacy_edges" \notin a3.done
    <3>1. Shaped(a3) /\ a3.rows \in [Stored(a3) -> Row]
      BY <1>3 DEF Follows, Shaped
    <3>2. PICK E :
            /\ a4 = Built(a3, a3.parts \cup {"meta"}, a3.rows, a3.sessions, a3.symbols, E,
                          a3.done \cup {"legacy_edges"})
            /\ a3.edges \subseteq E
            /\ \A e \in a3.files : \E edge \in E : edge[1] = e
      BY <2>2, <3>1, LegacyEdgesIs
    <3>3. Follows(a3, a4) /\ a4.done = a3.done \cup {"legacy_edges"}
      BY <3>1, <3>2, BuiltFollows
    <3>4. a4.edges = E /\ a4.files = a3.files
      BY <3>2 DEF Built
    <3> QED BY <3>2, <3>3, <3>4 DEF Reach
  <2> QED BY <2>1, <2>2
<1> HIDE DEF a4
<1>6. Follows(a4, a5) /\ "legacy_edges" \in a5.done
  <2>1. Shaped(a4) /\ a4.rows \in [Stored(a4) -> Row]
    BY <1>5 DEF Follows, Shaped
  <2>2. PICK E, D :
          /\ a5 = Built(a4, a4.parts, a4.rows, a4.sessions, a4.symbols, E, D)
          /\ a4.edges \subseteq E
          /\ D \ {"touch_time_edges"} = a4.done \ {"touch_time_edges"}
    BY <2>1, TouchTimeEdgesIs
  <2>3. Follows(a4, a5) /\ a5.done = D
    BY <2>1, <2>2, BuiltFollows
  <2> QED BY <1>5, <2>2, <2>3
<1> HIDE DEF a5
<1>7. Follows(a5, c) /\ c.done = a5.done
  <2>1. Shaped(a5) /\ a5.rows \in [Stored(a5) -> Row]
    BY <1>6 DEF Follows, Shaped
  <2>2. c = Built(a5, a5.parts \cup {"vec_palace"}, a5.rows, a5.sessions, a5.symbols, a5.edges,
                  a5.done)
    BY <2>1, WithIs
  <2> QED BY <2>1, <2>2, BuiltFollows
<1>8. Follows(d, c) /\ "legacy_edges" \in c.done /\ Reach(c)
  <2> HIDE DEF c
  <2>1. Follows(d, a4)
    BY <1>4, <1>5, FollowsOn
  <2>2. Follows(a4, c) /\ Reach(c)
    BY <1>5, <1>6, <1>7, FollowsOn
  <2> QED BY <1>6, <1>7, <2>1, <2>2, FollowsOn
<1>9. Backfilled(d) = c
  BY DEF Backfilled, a1, a2, a3, a4, a5
<1> HIDE DEF c
<1> QED BY <1>8, <1>9

-----------------------------------------------------------------------------
(* What a migration leaves owed, of a database of the past                 *)

\* What was promised of d is true of c, and nothing is to be distilled again.
Settles(d, c) ==
    /\ PartsFollow(d, c) /\ Fits(c)
    /\ \A m \in 1..Latest : Owed(m, d) => Owed(m, c)
    /\ \A e \in Stored(d) \cap d.palace :
         d.rows[e].status = "distilled" => c.rows[e].status = "distilled"
    /\ RightLabels(d) => RightLabels(c)

LEMMA OwedSettle ==
  ASSUME NEW d, NEW c, PartsFollow(d, c),
         RowsOwed(2, d) => RowsOwed(2, c), RowsOwed(7, d) => RowsOwed(7, c),
         RowsOwed(11, d) => RowsOwed(11, c), RowsOwed(13, d) => RowsOwed(13, c)
  PROVE  \A m \in 1..Latest : Owed(m, d) => Owed(m, c)
<1> SUFFICES ASSUME NEW m \in 1..Latest, Owed(m, d)
             PROVE  Owed(m, c)
  OBVIOUS
<1>1. PartsOwed(m, c)
  BY PartsStayOwed DEF Owed
<1>2. RowsOwed(m, d)
  BY DEF Owed
<1>3. CASE m \in {2, 7, 11, 13}
  BY <1>1, <1>2, <1>3 DEF Owed
<1>4. CASE m \notin {2, 7, 11, 13}
  BY <1>1, <1>4 DEF Owed, RowsOwed
<1> QED BY <1>3, <1>4

\* c has the rows of d but for branch and parent, and no part of d is lost.
Plain(d, c) ==
    /\ Stored(c) = Stored(d) /\ c.palace = d.palace
    /\ c.symbols \subseteq d.symbols /\ d.sessions \subseteq c.sessions
    /\ \A e \in Stored(d) :
         /\ c.rows[e].status = d.rows[e].status /\ c.rows[e].at = d.rows[e].at
         /\ c.rows[e].harness = d.rows[e].harness /\ c.rows[e].session = d.rows[e].session
         /\ c.rows[e].canonical = d.rows[e].canonical

LEMMA BasicsStay ==
  ASSUME NEW d, NEW c, PartsFollow(d, c)
  PROVE  /\ Basics \subseteq d.parts => Basics \subseteq c.parts
         /\ "canonical_exchange_id" \in d.parts => "canonical_exchange_id" \in c.parts
BY DEF PartsFollow, Basics, Dropped

LEMMA PlainSettles ==
  ASSUME NEW d, NEW c, Fits(d), PartsFollow(d, c), Plain(d, c)
  PROVE  Settles(d, c)
<1>1. Fits(c)
  BY BasicsStay DEF Fits, RowFits, Plain
<1>2. /\ RowsOwed(2, d) => RowsOwed(2, c)
      /\ RowsOwed(7, d) => RowsOwed(7, c)
      /\ RowsOwed(11, d) => RowsOwed(11, c)
      /\ RowsOwed(13, d) => RowsOwed(13, c)
  BY DEF RowsOwed, Plain
<1> QED BY <1>1, <1>2, OwedSettle DEF Settles, Plain, RightLabels

\* c has the labels of d.
SameLabels(d, c) ==
    /\ Stored(c) = Stored(d) /\ d.sessions \subseteq c.sessions
    /\ \A e \in Stored(d) :
         /\ c.rows[e].harness = d.rows[e].harness /\ c.rows[e].session = d.rows[e].session
         /\ c.rows[e].canonical = d.rows[e].canonical

LEMMA LabelsStay ==
  ASSUME NEW d, NEW c, SameLabels(d, c), PartsFollow(d, c), Fits(d)
  PROVE  /\ RowsOwed(11, d) => RowsOwed(11, c)
         /\ RowsOwed(13, d) => RowsOwed(13, c)
         /\ (\A e \in Stored(c) : c.rows[e].at = "skipped" => c.rows[e].status # "distilled")
              => Fits(c)
<1>1. (RowsOwed(11, d) => RowsOwed(11, c)) /\ (RowsOwed(13, d) => RowsOwed(13, c))
  BY DEF SameLabels, RowsOwed
<1>2. ASSUME \A e \in Stored(c) : c.rows[e].at = "skipped" => c.rows[e].status # "distilled"
      PROVE  Fits(c)
  BY <1>2, BasicsStay DEF SameLabels, Fits, RowFits
<1> QED BY <1>1, <1>2

\* The migrations that leave the rows alone.
LEMMA WithSettles ==
  ASSUME NEW d, Shaped(d), Fits(d), NEW P,
         \A p \in P \cap Dropped : p = "touch_symbols" /\ "code_touches" \notin d.parts
  PROVE  Settles(d, With(d, P)) /\ With(d, P).parts = d.parts \cup P
<1> DEFINE c == With(d, P)
<1>1. c = Built(d, d.parts \cup P, d.rows, d.sessions, d.symbols, d.edges, d.done)
      /\ d.rows \in [Stored(d) -> Row]
  BY WithIs DEF Shaped
<1> HIDE DEF c
<1>2. Plain(d, c) /\ c.parts = d.parts \cup P
  BY <1>1, BuiltIs DEF Plain
<1>3. PartsFollow(d, c)
  BY <1>2 DEF PartsFollow
<1> QED BY <1>2, <1>3, PlainSettles DEF c

LEMMA SettlesSelf ==
  ASSUME NEW d, Fits(d)
  PROVE  Settles(d, d)
BY PlainSettles DEF Plain, PartsFollow

LEMMA AddingSettles ==
  ASSUME NEW d, Shaped(d), Fits(d), NEW n \in {1, 3, 4, 5, 6, 9, 10, 12, 15}, ~Raises(d, n)
  PROVE  Settles(d, Migrated(d, n)) /\ Owed(n, Migrated(d, n))
<1>1. ASSUME NEW P, P \cap Dropped = {}, Migrated(d, n) = With(d, P), Adds[n] \subseteq P, n # 9
      PROVE  Settles(d, Migrated(d, n)) /\ Owed(n, Migrated(d, n))
  <2>1. Settles(d, With(d, P)) /\ With(d, P).parts = d.parts \cup P
    BY <1>1, WithSettles
  <2>2. Drops[n] = {}
    BY DropsAre DEF Latest
  <2> QED BY <1>1, <2>1, <2>2 DEF Owed, PartsOwed, RowsOwed
<1>2. Has(d, "exchanges") /\ Has(d, "rooms")
  BY DEF Fits, Basics, Has
<1>3. CASE n \in {1, 3, 4, 5, 10, 12, 15}
  <2>1. Migrated(d, n) = With(d, Adds[n])
    BY <1>2, <1>3 DEF Migrated, V1, V3, V4, V5, V10, V12, V15
  <2>2. Adds[n] \cap Dropped = {}
    BY <1>3, AddsAre DEF Dropped
  <2> QED BY <1>1, <1>3, <2>1, <2>2
<1>4. CASE n = 6
  BY <1>4, SettlesSelf, AddsAre, DropsAre
     DEF Migrated, Owed, PartsOwed, RowsOwed, Latest
<1>5. CASE n = 9
  <2> DEFINE P == IF Has(d, "code_touches") THEN Adds[9] \ {"touch_symbols"} ELSE Adds[9]
  <2>1. Migrated(d, n) = With(d, P)
    BY <1>5 DEF Migrated, V9
  <2>2. \A p \in P \cap Dropped : p = "touch_symbols" /\ "code_touches" \notin d.parts
    BY AddsAre DEF Dropped, Has
  <2>3. Adds[9] \ Drops[14] \subseteq P /\ Drops[9] = {}
    BY AddsAre, DropsAre DEF Latest
  <2> HIDE DEF P
  <2>4. Settles(d, With(d, P)) /\ With(d, P).parts = d.parts \cup P
    BY <2>2, WithSettles
  <2> QED BY <1>5, <2>1, <2>3, <2>4 DEF Owed, PartsOwed, RowsOwed
<1> QED BY <1>3, <1>4, <1>5

LEMMA V2Settles ==
  ASSUME NEW d, Shaped(d), Fits(d)
  PROVE  Settles(d, V2(d)) /\ Owed(2, V2(d))
<1> DEFINE c == V2(d)
<1>1. Has(d, "exchanges")
  BY DEF Fits, Basics, Has
<1>2. PICK R \in [Stored(d) -> Row] :
        /\ c = Built(d, d.parts \cup Adds[2], R, d.sessions, d.symbols, d.edges, d.done)
        /\ \A e \in Stored(d) :
             /\ R[e].harness = d.rows[e].harness /\ R[e].session = d.rows[e].session
             /\ R[e].canonical = d.rows[e].canonical
             /\ R[e].at = IF d.rows[e].at = "skipped" THEN None ELSE d.rows[e].at
             /\ R[e].status = IF d.rows[e].at = "skipped" THEN "skipped"
                              ELSE IF d.rows[e].at = "time" THEN "distilled"
                              ELSE Or(d.rows[e].status, "pending")
  BY <1>1, V2Is
<1> HIDE DEF c
<1>3. /\ Stored(c) = Stored(d) /\ c.rows = R /\ c.parts = d.parts \cup Adds[2]
      /\ c.sessions = d.sessions /\ c.symbols = d.symbols /\ c.palace = d.palace
  BY <1>2, BuiltIs
<1>4. PartsFollow(d, c) /\ PartsOwed(2, c)
  BY <1>3, AddsAre, DropsAre DEF PartsFollow, PartsOwed, Dropped, Latest
<1>4a. \A e \in Stored(d) :
        /\ c.rows[e].at = IF d.rows[e].at = "skipped" THEN None ELSE d.rows[e].at
        /\ c.rows[e].status = IF d.rows[e].at = "skipped" THEN "skipped"
                              ELSE IF d.rows[e].at = "time" THEN "distilled"
                              ELSE Or(d.rows[e].status, "pending")
  BY <1>2, <1>3
<1>5. SameLabels(d, c)
  BY <1>2, <1>3 DEF SameLabels
<1>5a. Fits(c)
  BY <1>3, <1>4a, <1>4, <1>5, LabelsStay DEF None
<1>6. RowsOwed(2, c)
  BY <1>3, <1>4a DEF RowsOwed, Or, None
<1>7. RowsOwed(7, d) => RowsOwed(7, c)
  BY <1>3, <1>4a DEF RowsOwed, Or, None
<1>8. (RowsOwed(11, d) => RowsOwed(11, c)) /\ (RowsOwed(13, d) => RowsOwed(13, c))
  BY <1>4, <1>5, LabelsStay
<1>9. \A e \in Stored(d) : d.rows[e].status = "distilled" => c.rows[e].status = "distilled"
  BY <1>4a DEF Fits, RowFits, Or, None
<1>10. \A m \in 1..Latest : Owed(m, d) => Owed(m, c)
  BY <1>4, <1>6, <1>7, <1>8, OwedSettle
<1>11. Settles(d, c)
  BY <1>3, <1>4, <1>5, <1>5a, <1>9, <1>10 DEF Settles, SameLabels, RightLabels
<1> QED BY <1>4, <1>6, <1>11 DEF Owed, c

LEMMA V7Settles ==
  ASSUME NEW d, Shaped(d), Fits(d), Owed(2, d)
  PROVE  Settles(d, V7(d)) /\ Owed(7, V7(d))
<1> DEFINE c == V7(d)
<1>1. Has(d, "exchanges") /\ Has(d, "palace_objects")
  BY DEF Fits, Basics, Has
<1>2. PICK R \in [Stored(d) -> Row] :
        /\ c = Built(d, d.parts \ Drops[7], R, d.sessions, d.symbols \cap d.palace, d.edges,
                     d.done)
        /\ \A e \in Stored(d) :
             /\ R[e].harness = d.rows[e].harness /\ R[e].session = d.rows[e].session
             /\ R[e].canonical = d.rows[e].canonical
             /\ R[e].at = IF d.rows[e].status = "distilled" /\ e \notin d.palace
                          THEN None ELSE d.rows[e].at
             /\ R[e].status = IF d.rows[e].status = "distilled" /\ e \notin d.palace
                              THEN "pending" ELSE d.rows[e].status
  BY <1>1, V7Is
<1> HIDE DEF c
<1>3. /\ Stored(c) = Stored(d) /\ c.rows = R /\ c.parts = d.parts \ Drops[7]
      /\ c.sessions = d.sessions /\ c.symbols = d.symbols \cap d.palace /\ c.palace = d.palace
  BY <1>2, BuiltIs
<1>4. PartsFollow(d, c) /\ PartsOwed(7, c)
  BY <1>3, AddsAre, DropsAre DEF PartsFollow, PartsOwed, Dropped
<1>4a. \A e \in Stored(d) :
        /\ c.rows[e].at = IF d.rows[e].status = "distilled" /\ e \notin d.palace
                          THEN None ELSE d.rows[e].at
        /\ c.rows[e].status = IF d.rows[e].status = "distilled" /\ e \notin d.palace
                              THEN "pending" ELSE d.rows[e].status
  BY <1>2, <1>3
<1>5. SameLabels(d, c)
  BY <1>2, <1>3 DEF SameLabels
<1>5a. Fits(c)
  BY <1>3, <1>4a, <1>4, <1>5, LabelsStay DEF Fits, RowFits, None
<1>6. RowsOwed(2, c)
  BY <1>3, <1>4a DEF Owed, RowsOwed, None
<1>7. RowsOwed(7, c)
  BY <1>3, <1>4a DEF Owed, RowsOwed, None
<1>8. (RowsOwed(11, d) => RowsOwed(11, c)) /\ (RowsOwed(13, d) => RowsOwed(13, c))
  BY <1>4, <1>5, LabelsStay
<1>9. \A m \in 1..Latest : Owed(m, d) => Owed(m, c)
  BY <1>4, <1>6, <1>7, <1>8, OwedSettle
<1>10. Settles(d, c)
  BY <1>3, <1>4a, <1>4, <1>5, <1>5a, <1>9 DEF Settles, SameLabels, RightLabels
<1> QED BY <1>4, <1>7, <1>10 DEF Owed, c

LEMMA V8Settles ==
  ASSUME NEW d, Shaped(d), Fits(d)
  PROVE  Settles(d, V8(d)) /\ Owed(8, V8(d))
<1> DEFINE c == V8(d)
<1>1. Has(d, "exchanges")
  BY DEF Fits, Basics, Has
<1>2. PICK R \in [Stored(d) -> Row] :
        /\ c = Built(d, d.parts \cup Adds[8], R, d.sessions, d.symbols, d.edges, d.done)
        /\ \A e \in Stored(d) :
             /\ R[e].status = d.rows[e].status /\ R[e].at = d.rows[e].at
             /\ R[e].harness = d.rows[e].harness /\ R[e].session = d.rows[e].session
             /\ R[e].canonical = d.rows[e].canonical
  BY <1>1, V8Is
<1> HIDE DEF c
<1>3. /\ Stored(c) = Stored(d) /\ c.rows = R /\ c.parts = d.parts \cup Adds[8]
      /\ c.sessions = d.sessions /\ c.symbols = d.symbols /\ c.palace = d.palace
  BY <1>2, BuiltIs
<1>4. PartsFollow(d, c) /\ PartsOwed(8, c)
  BY <1>3, AddsAre, DropsAre DEF PartsFollow, PartsOwed, Dropped, Latest
<1>5. Plain(d, c)
  BY <1>2, <1>3 DEF Plain
<1> QED BY <1>4, <1>5, PlainSettles DEF Owed, RowsOwed, c

LEMMA V11Settles ==
  ASSUME NEW d, Shaped(d), Fits(d), RightLabels(d)
  PROVE  Settles(d, V11(d)) /\ Owed(11, V11(d))
<1> DEFINE c == V11(d)
           S == {<<Inferred(e), e>> : e \in Stored(d)}
<1>1. Has(d, "exchanges")
  BY DEF Fits, Basics, Has
<1>2. PICK R \in [Stored(d) -> Row] :
        /\ c = Built(d, d.parts \cup Adds[11], R, d.sessions \cup S, d.symbols, d.edges, d.done)
        /\ \A e \in Stored(d) :
             /\ R[e].status = d.rows[e].status /\ R[e].at = d.rows[e].at
             /\ R[e].canonical = d.rows[e].canonical
             /\ R[e].session = Inferred(e) /\ R[e].harness = Or(d.rows[e].harness, Inferred(e))
  BY <1>1, V11Is
<1>3. \A e \in Stored(d) : <<Inferred(e), e>> \in S
  OBVIOUS
<1> HIDE DEF c, S
<1>4. /\ Stored(c) = Stored(d) /\ c.rows = R /\ c.parts = d.parts \cup Adds[11]
      /\ c.sessions = d.sessions \cup S /\ c.symbols = d.symbols /\ c.palace = d.palace
  BY <1>2, BuiltIs
<1>5. PartsFollow(d, c) /\ PartsOwed(11, c)
  BY <1>4, AddsAre, DropsAre DEF PartsFollow, PartsOwed, Dropped, Latest
<1>6. \A e \in Stored(d) :
        /\ c.rows[e].status = d.rows[e].status /\ c.rows[e].at = d.rows[e].at
        /\ c.rows[e].canonical = d.rows[e].canonical
        /\ c.rows[e].session = Inferred(e) /\ c.rows[e].harness = Inferred(e)
  BY <1>2, <1>4 DEF RightLabels, Or
<1>7. Fits(c)
  BY <1>4, <1>5, <1>6, BasicsStay DEF Fits, RowFits, RightLabels
<1>8. RowsOwed(11, c)
  BY <1>3, <1>4, <1>6 DEF RowsOwed, Inferred, None
<1>9. /\ RowsOwed(2, d) => RowsOwed(2, c)
      /\ RowsOwed(7, d) => RowsOwed(7, c)
      /\ RowsOwed(13, d) => RowsOwed(13, c)
  BY <1>4, <1>6 DEF RowsOwed
<1>10. \A m \in 1..Latest : Owed(m, d) => Owed(m, c)
  BY <1>5, <1>8, <1>9, OwedSettle
<1>11. Settles(d, c)
  BY <1>4, <1>5, <1>6, <1>7, <1>10 DEF Settles, RightLabels
<1> QED BY <1>5, <1>8, <1>11 DEF Owed, c

LEMMA V13Settles ==
  ASSUME NEW d, Shaped(d), Fits(d), Owed(11, d)
  PROVE  Settles(d, V13(d)) /\ Owed(13, V13(d))
<1> DEFINE c == V13(d)
           wrong == Mislabelled(d)
           A == {<<Inferred(e), e>> : e \in wrong}
           G(rows) == {<<"claude", e>> : e \in {x \in wrong : rows[x].session # "claude"}}
<1>1. Has(d, "exchanges")
  BY DEF Fits, Basics, Has
<1>2. PICK R \in [Stored(d) -> Row] :
        /\ c = Built(d, d.parts, R, (d.sessions \cup A) \ G(R), d.symbols, d.edges, d.done)
        /\ \A e \in Stored(d) :
             /\ R[e].status = d.rows[e].status /\ R[e].at = d.rows[e].at
             /\ e \notin wrong => R[e] = d.rows[e]
             /\ e \in wrong =>
                  /\ R[e].harness = Inferred(e) /\ R[e].session = Inferred(e)
                  /\ R[e].canonical = IF Has(d, "canonical_exchange_id")
                                      THEN Inferred(e) ELSE d.rows[e].canonical
  BY <1>1, V13Is
<1>3. \A e \in wrong : <<Inferred(e), e>> \in A
  OBVIOUS
<1>4. \A x, e : <<x, e>> \in G(R) => x = "claude" /\ e \in wrong /\ R[e].session # "claude"
  OBVIOUS
<1> HIDE DEF c, A, G, wrong
<1>5. /\ Stored(c) = Stored(d) /\ c.rows = R /\ c.parts = d.parts
      /\ c.sessions = (d.sessions \cup A) \ G(R)
      /\ c.symbols = d.symbols /\ c.palace = d.palace
  BY <1>2, BuiltIs
<1>6. PartsFollow(d, c) /\ PartsOwed(13, c)
  BY <1>5, AddsAre, DropsAre DEF PartsFollow, PartsOwed, Dropped, Latest
<1>7. \A e \in Stored(d) : d.rows[e].harness # None
  BY DEF Owed, RowsOwed
<1>8. \A e \in Stored(d) :
        /\ c.rows[e].status = d.rows[e].status /\ c.rows[e].at = d.rows[e].at
        /\ c.rows[e].harness = Inferred(e) /\ c.rows[e].session = Inferred(e)
        /\ c.rows[e].canonical \in {None, Inferred(e)}
        /\ ~Has(d, "canonical_exchange_id") => c.rows[e].canonical = None
  <2> SUFFICES ASSUME NEW e \in Stored(d)
               PROVE  /\ c.rows[e].status = d.rows[e].status /\ c.rows[e].at = d.rows[e].at
                      /\ c.rows[e].harness = Inferred(e) /\ c.rows[e].session = Inferred(e)
                      /\ c.rows[e].canonical \in {None, Inferred(e)}
                      /\ ~Has(d, "canonical_exchange_id") => c.rows[e].canonical = None
    OBVIOUS
  <2>1. RowFits(d.rows[e]) /\ (~Has(d, "canonical_exchange_id") => d.rows[e].canonical = None)
    BY DEF Fits, Has
  <2>2. CASE e \in wrong
    BY <1>2, <1>5, <2>1, <2>2
  <2>3. CASE e \notin wrong
    <3>1. d.rows[e].harness = Inferred(e)
      BY <1>7, <2>3 DEF wrong, Mislabelled
    <3>2. c.rows[e] = d.rows[e]
      BY <1>2, <1>5, <2>3
    <3> QED BY <2>1, <3>1, <3>2 DEF RowFits
  <2> QED BY <2>2, <2>3
<1>9. Fits(c)
  BY <1>5, <1>6, <1>8, BasicsStay DEF Fits, RowFits, Has
<1>10. RowsOwed(13, c)
  BY <1>5, <1>8 DEF RowsOwed
<1>11. \A e \in Stored(d) : <<Inferred(e), e>> \in c.sessions
  <2> SUFFICES ASSUME NEW e \in Stored(d)
               PROVE  <<Inferred(e), e>> \in c.sessions
    OBVIOUS
  <2>1. <<Inferred(e), e>> \notin G(R)
    BY <1>4, <1>5, <1>8
  <2>2. CASE e \in wrong
    BY <1>3, <1>5, <2>1, <2>2
  <2>3. CASE e \notin wrong
    <3>1. <<d.rows[e].session, e>> \in d.sessions
      BY DEF Owed, RowsOwed
    <3>2. c.rows[e] = d.rows[e]
      BY <1>2, <1>5, <2>3
    <3> QED BY <1>5, <1>8, <2>1, <3>1, <3>2
  <2> QED BY <2>2, <2>3
<1>12. RowsOwed(11, c)
  BY <1>5, <1>8, <1>11 DEF RowsOwed, Inferred, None
<1>13. (RowsOwed(2, d) => RowsOwed(2, c)) /\ (RowsOwed(7, d) => RowsOwed(7, c))
  BY <1>5, <1>8 DEF RowsOwed
<1>14. \A m \in 1..Latest : Owed(m, d) => Owed(m, c)
  BY <1>6, <1>10, <1>12, <1>13, OwedSettle
<1>15. Settles(d, c)
  BY <1>5, <1>6, <1>8, <1>9, <1>14 DEF Settles, RightLabels
<1> QED BY <1>6, <1>10, <1>15 DEF Owed, c

LEMMA V14Settles ==
  ASSUME NEW d, Shaped(d), Fits(d), Owed(9, d)
  PROVE  Settles(d, V14(d)) /\ Owed(14, V14(d))
<1> DEFINE c == V14(d)
           E == d.edges \cup {<<e, "distill">> : e \in d.symbols \cap d.palace \cap Stored(d)}
<1>1. c = Built(d, d.parts \ Drops[14], d.rows, d.sessions, {}, E, d.done)
      /\ d.rows \in [Stored(d) -> Row]
  BY V14Is DEF Shaped
<1> HIDE DEF c, E
<1>2. /\ Stored(c) = Stored(d) /\ c.rows = d.rows /\ c.parts = d.parts \ Drops[14]
      /\ c.sessions = d.sessions /\ c.symbols = {} /\ c.palace = d.palace
  BY <1>1, BuiltIs
<1>3. PartsFollow(d, c)
  BY <1>2, DropsAre DEF PartsFollow, Dropped
<1>4. "code_touches" \in d.parts
  BY AddsAre, DropsAre DEF Owed, PartsOwed
<1>5. PartsOwed(14, c)
  BY <1>2, <1>4, AddsAre, DropsAre DEF PartsOwed
<1>6. Plain(d, c)
  BY <1>2 DEF Plain
<1> QED BY <1>3, <1>5, <1>6, PlainSettles DEF Owed, RowsOwed, c

LEMMA MigratedSettles ==
  ASSUME NEW d, Shaped(d), Fits(d), NEW n \in 1..Latest, ~Raises(d, n),
         \A m \in 1..Latest : m < n => Owed(m, d),
         n = 11 => RightLabels(d)
  PROVE  Settles(d, Migrated(d, n)) /\ Owed(n, Migrated(d, n))
<1>1. CASE n \in {1, 3, 4, 5, 6, 9, 10, 12, 15}
  BY <1>1, AddingSettles
<1>2. CASE n = 2
  BY <1>2, V2Settles DEF Migrated
<1>7. CASE n = 7
  BY <1>7, V7Settles DEF Migrated, Latest
<1>8. CASE n = 8
  BY <1>8, V8Settles DEF Migrated
<1>11. CASE n = 11
  BY <1>11, V11Settles DEF Migrated
<1>13. CASE n = 13
  BY <1>13, V13Settles DEF Migrated, Latest
<1>14. CASE n = 14
  BY <1>14, V14Settles DEF Migrated, Latest
<1> QED BY <1>1, <1>2, <1>7, <1>8, <1>11, <1>13, <1>14 DEF Latest

LEMMA SettlesOn ==
  ASSUME NEW a, NEW b, NEW c, Follows(a, b), Settles(a, b), Settles(b, c)
  PROVE  Settles(a, c)
<1>1. PartsFollow(a, c)
  BY DEF Settles, PartsFollow, Dropped
<1>2. \A e \in Stored(a) \cap a.palace :
        a.rows[e].status = "distilled" => c.rows[e].status = "distilled"
  BY DEF Settles, Follows
<1> QED BY <1>1, <1>2 DEF Settles

LEMMA ProvenanceSettles ==
  ASSUME NEW d, Shaped(d), Fits(d)
  PROVE  Settles(d, Provenance(d)) /\ Follows(d, Provenance(d))
         /\ Provenance(d).parts = d.parts
<1> DEFINE c == Provenance(d)
           S == d.sessions \cup {<<Inferred(e), e>> : e \in Unattributed(d)}
<1>1. PICK R \in [Stored(d) -> Row] :
        /\ c = Built(d, d.parts, R, S, d.symbols, d.edges, d.done)
        /\ \A e \in Stored(d) :
             /\ R[e].status = d.rows[e].status /\ R[e].at = d.rows[e].at
             /\ R[e].canonical = d.rows[e].canonical
             /\ R[e].session = Or(d.rows[e].session, Inferred(e))
             /\ R[e].harness = Or(d.rows[e].harness, Inferred(e))
  BY ProvenanceIs
<1>2. d.sessions \subseteq S
  OBVIOUS
<1> HIDE DEF c, S
<1>3. /\ Stored(c) = Stored(d) /\ c.rows = R /\ c.parts = d.parts
      /\ c.sessions = S /\ c.symbols = d.symbols /\ c.palace = d.palace
  BY <1>1, BuiltIs
<1>4. PartsFollow(d, c)
  BY <1>3 DEF PartsFollow
<1>5. \A e \in Stored(d) :
        /\ c.rows[e].status = d.rows[e].status /\ c.rows[e].at = d.rows[e].at
        /\ c.rows[e].canonical = d.rows[e].canonical
        /\ c.rows[e].session = Or(d.rows[e].session, Inferred(e))
        /\ c.rows[e].harness = Or(d.rows[e].harness, Inferred(e))
  BY <1>1, <1>3
<1>6. Fits(c)
  BY <1>3, <1>5 DEF Fits, RowFits, Or
<1>7. RowsOwed(11, d) => RowsOwed(11, c)
  BY <1>2, <1>3, <1>5 DEF RowsOwed, Or
<1>8. RowsOwed(13, d) => RowsOwed(13, c)
  BY <1>3, <1>5 DEF RowsOwed, Or
<1>9. (RowsOwed(2, d) => RowsOwed(2, c)) /\ (RowsOwed(7, d) => RowsOwed(7, c))
  BY <1>3, <1>5 DEF RowsOwed
<1>10. \A m \in 1..Latest : Owed(m, d) => Owed(m, c)
  BY <1>4, <1>7, <1>8, <1>9, OwedSettle
<1>11. Settles(d, c)
  BY <1>3, <1>4, <1>5, <1>6, <1>10 DEF Settles, RightLabels, Or
<1>12. Follows(d, c)
  BY <1>1, BuiltFollows
<1> QED BY <1>3, <1>11, <1>12 DEF c

LEMMA CanonicalIdsSettles ==
  ASSUME NEW d, Shaped(d), Fits(d), Has(d, "canonical_exchange_id")
  PROVE  Settles(d, CanonicalIds(d)) /\ Follows(d, CanonicalIds(d))
<1> DEFINE c == CanonicalIds(d)
<1>1. Has(d, "exchanges")
  BY DEF Fits, Basics, Has
<1>2. PICK R \in [Stored(d) -> Row] :
        /\ c = Built(d, d.parts, R, d.sessions, d.symbols, d.edges, d.done)
        /\ \A e \in Stored(d) :
             /\ R[e].status = d.rows[e].status /\ R[e].at = d.rows[e].at
             /\ R[e].session = d.rows[e].session /\ R[e].harness = d.rows[e].harness
             /\ R[e].canonical = Or(d.rows[e].canonical, d.rows[e].harness)
  BY <1>1, CanonicalIdsIs
<1> HIDE DEF c
<1>3. /\ Stored(c) = Stored(d) /\ c.rows = R /\ c.parts = d.parts
      /\ c.sessions = d.sessions /\ c.symbols = d.symbols /\ c.palace = d.palace
  BY <1>2, BuiltIs
<1>4. PartsFollow(d, c)
  BY <1>3 DEF PartsFollow
<1>5. \A e \in Stored(d) :
        /\ c.rows[e].status = d.rows[e].status /\ c.rows[e].at = d.rows[e].at
        /\ c.rows[e].session = d.rows[e].session /\ c.rows[e].harness = d.rows[e].harness
        /\ c.rows[e].canonical = Or(d.rows[e].canonical, d.rows[e].harness)
  BY <1>2, <1>3
<1>6. Fits(c)
  BY <1>3, <1>5 DEF Fits, RowFits, Or, Has
<1>7. (RowsOwed(11, d) => RowsOwed(11, c)) /\ (RowsOwed(13, d) => RowsOwed(13, c))
  BY <1>3, <1>5 DEF RowsOwed, Or
<1>8. (RowsOwed(2, d) => RowsOwed(2, c)) /\ (RowsOwed(7, d) => RowsOwed(7, c))
  BY <1>3, <1>5 DEF RowsOwed
<1>9. \A m \in 1..Latest : Owed(m, d) => Owed(m, c)
  BY <1>4, <1>7, <1>8, OwedSettle
<1>10. Settles(d, c)
  BY <1>3, <1>4, <1>5, <1>6, <1>9 DEF Settles, RightLabels
<1>11. Follows(d, c)
  BY <1>2, BuiltFollows
<1> QED BY <1>10, <1>11 DEF c

\* The passes that leave the rows and their labels alone.
LEMMA BuiltSettles ==
  ASSUME NEW d, Shaped(d), Fits(d), NEW P, P \cap Dropped = {}, NEW R \in [Stored(d) -> Row],
         NEW E, d.edges \subseteq E, NEW D,
         \A e \in Stored(d) :
            /\ R[e].status = d.rows[e].status /\ R[e].at = d.rows[e].at
            /\ R[e].harness = d.rows[e].harness /\ R[e].session = d.rows[e].session
            /\ R[e].canonical = d.rows[e].canonical,
         NEW c, c = Built(d, d.parts \cup P, R, d.sessions, d.symbols, E, D)
  PROVE  Settles(d, c) /\ Follows(d, c)
<1>1. /\ Stored(c) = Stored(d) /\ c.rows = R /\ c.parts = d.parts \cup P
      /\ c.sessions = d.sessions /\ c.symbols = d.symbols /\ c.palace = d.palace
  BY BuiltIs
<1>2. PartsFollow(d, c)
  BY <1>1 DEF PartsFollow
<1>3. Plain(d, c)
  BY <1>1 DEF Plain
<1>4. Follows(d, c)
  BY BuiltFollows
<1> QED BY <1>2, <1>3, <1>4, PlainSettles

LEMMA BackfilledSettles ==
  ASSUME NEW d, Shaped(d), Fits(d), Has(d, "canonical_exchange_id")
  PROVE  Settles(d, Backfilled(d))
<1> DEFINE a1 == Provenance(d)
           a2 == CanonicalIds(a1)
           a3 == ParentRefs(a2)
           a4 == LegacyEdges(a3)
           a5 == TouchTimeEdges(a4)
           c  == With(a5, {"vec_palace"})
           Good(x) == Shaped(x) /\ Fits(x) /\ Follows(d, x) /\ Settles(d, x)
<1>1. ASSUME NEW x, NEW y, Good(x), Settles(x, y), Follows(x, y)
      PROVE  Good(y)
  BY <1>1, SettlesOn, FollowsOn DEF Settles, Follows
<1>2. ASSUME NEW x, Good(x)
      PROVE  Shaped(x) /\ Fits(x) /\ x.rows \in [Stored(x) -> Row]
  BY <1>2 DEF Shaped
<1>3. Good(a1) /\ Has(a1, "canonical_exchange_id")
  BY ProvenanceSettles DEF Has, Follows, Settles
<1> HIDE DEF a1, Good
<1>4. Good(a2)
  BY <1>1, <1>2, <1>3, CanonicalIdsSettles
<1> HIDE DEF a2
<1>5. Good(a3)
  <2>1. CASE Has(a2, "parent_session_ref")
    <3>1. PICK R \in [Stored(a2) -> Row] :
            /\ a3 = Built(a2, a2.parts \cup {}, R, a2.sessions, a2.symbols, a2.edges, a2.done)
            /\ \A e \in Stored(a2) :
                 /\ R[e].status = a2.rows[e].status /\ R[e].at = a2.rows[e].at
                 /\ R[e].harness = a2.rows[e].harness /\ R[e].session = a2.rows[e].session
                 /\ R[e].canonical = a2.rows[e].canonical
      <4>1. a2.parts \cup {} = a2.parts
        OBVIOUS
      <4> QED BY <1>2, <1>4, <2>1, <4>1, ParentRefsIs
    <3>2. Settles(a2, a3) /\ Follows(a2, a3)
      BY <1>2, <1>4, <3>1, BuiltSettles
    <3> QED BY <1>1, <1>4, <3>2
  <2>2. CASE ~Has(a2, "parent_session_ref")
    BY <1>4, <2>2 DEF ParentRefs
  <2> QED BY <2>1, <2>2
<1> HIDE DEF a3
<1>6. Good(a4)
  <2>1. CASE "legacy_edges" \in a3.done
    BY <1>5, <2>1 DEF LegacyEdges
  <2>2. CASE "legacy_edges" \notin a3.done
    <3>1. PICK E :
            /\ a4 = Built(a3, a3.parts \cup {"meta"}, a3.rows, a3.sessions, a3.symbols, E,
                          a3.done \cup {"legacy_edges"})
            /\ a3.edges \subseteq E
      BY <1>2, <1>5, <2>2, LegacyEdgesIs
    <3>2. {"meta"} \cap Dropped = {}
      BY DEF Dropped
    <3>3. Settles(a3, a4) /\ Follows(a3, a4)
      BY <1>2, <1>5, <3>1, <3>2, BuiltSettles
    <3> QED BY <1>1, <1>5, <3>3
  <2> QED BY <2>1, <2>2
<1> HIDE DEF a4
<1>7. Good(a5)
  <2>1. PICK E, D :
          /\ a5 = Built(a4, a4.parts \cup {}, a4.rows, a4.sessions, a4.symbols, E, D)
          /\ a4.edges \subseteq E
    <3>1. a4.parts \cup {} = a4.parts
      OBVIOUS
    <3> QED BY <1>2, <1>6, <3>1, TouchTimeEdgesIs
  <2>2. Settles(a4, a5) /\ Follows(a4, a5)
    BY <1>2, <1>6, <2>1, BuiltSettles
  <2> QED BY <1>1, <1>6, <2>2
<1> HIDE DEF a5
<1>8. Good(c)
  <2>1. c = Built(a5, a5.parts \cup {"vec_palace"}, a5.rows, a5.sessions, a5.symbols, a5.edges,
                  a5.done)
    BY <1>2, <1>7, WithIs
  <2>2. {"vec_palace"} \cap Dropped = {}
    BY DEF Dropped
  <2>3. Settles(a5, c) /\ Follows(a5, c)
    BY <1>2, <1>7, <2>1, <2>2, BuiltSettles
  <2> QED BY <1>1, <1>7, <2>3
<1>9. Backfilled(d) = c
  BY DEF Backfilled, a1, a2, a3, a4, a5
<1> HIDE DEF c
<1> QED BY <1>8, <1>9 DEF Good

-----------------------------------------------------------------------------
(* Initial states                                                          *)

LEMMA NothingShaped ==
  Shaped(NoDatabase) /\ Stored(NoDatabase) = {}
<1> DEFINE z == <<>>
<1>1. DOMAIN z = {} /\ z \in [{} -> Row]
  OBVIOUS
<1> HIDE DEF z
<1>2. NoDatabase = [version |-> 0, parts |-> {}, rows |-> z, sessions |-> {}, palace |-> {},
                    symbols |-> {}, files |-> {}, touches |-> {}, edges |-> {}, done |-> {}]
  BY DEF NoDatabase, z
<1> QED BY <1>1, <1>2 DEF Shaped, Stored

\* What hangs on the exchanges of a database that was found.
Loose(v, d) ==
    /\ d.files \subseteq Exchanges /\ d.touches \subseteq Exchanges
    /\ d.edges = d.touches \X {"mention"}
    /\ d.sessions = IF v < 11 THEN {} ELSE {<<d.rows[e].harness, e>> : e \in Stored(d)}

\* What a database of version v, left by an older version of the program, holds.
LEMMA LegacyIs ==
  ASSUME NEW v \in 0..Latest, NEW canonical \in BOOLEAN, canonical => v >= 11,
         NEW past \in [Exchanges -> Pasts(v)], NEW d, d = Legacy(v, canonical, past)
  PROVE  /\ Shaped(d) /\ d.version = v /\ d.done = {}
         /\ d.parts = PartsAt(v) \cup
              (IF canonical THEN {"canonical_exchange_id", "canonical_index"} ELSE {})
         /\ Stored(d) = {e \in Exchanges : past[e].stored}
         /\ \A e \in Stored(d) : d.rows[e] = LegacyRow(v, e, past[e].at, canonical)
         /\ v >= 11 => \A e \in Stored(d) : <<d.rows[e].harness, e>> \in d.sessions
         /\ d.palace = {e \in Exchanges : past[e].palace}
         /\ d.symbols = {e \in Exchanges : past[e].symbols}
         /\ Loose(v, d)
<1> DEFINE X == {e \in Exchanges : past[e].stored}
           R == [e \in X |-> LegacyRow(v, e, past[e].at, canonical)]
           P == PartsAt(v) \cup
                  (IF canonical THEN {"canonical_exchange_id", "canonical_index"} ELSE {})
           S == IF v < 11 THEN {} ELSE {<<R[e].harness, e>> : e \in X}
           A == {e \in Exchanges : past[e].palace}
           Y == {e \in Exchanges : past[e].symbols}
           F == {e \in Exchanges : past[e].files}
           T == {e \in Exchanges : past[e].touched}
           E == T \X {"mention"}
<1>1. d = [version |-> v, parts |-> P, rows |-> R, sessions |-> S, palace |-> A, symbols |-> Y,
           files |-> F, touches |-> T, edges |-> E, done |-> {}]
  BY DEF Legacy
<1>2. \A e \in X : LegacyRow(v, e, past[e].at, canonical) \in Row
  <2> SUFFICES ASSUME NEW e \in X
               PROVE  LegacyRow(v, e, past[e].at, canonical) \in Row
    OBVIOUS
  <2>1. past[e].at \in {None, "time", "skipped"}
    BY DEF Pasts
  <2> QED BY <2>1 DEF LegacyRow, Row, Inferred, None
<1>3. R \in [X -> Row] /\ DOMAIN R = X /\ \A e \in X : R[e] = LegacyRow(v, e, past[e].at, canonical)
  BY <1>2
<1>4. v >= 11 => \A e \in X : <<R[e].harness, e>> \in S
  OBVIOUS
<1>9. F \subseteq Exchanges /\ T \subseteq Exchanges
  OBVIOUS
<1> HIDE DEF X, R, P, S, A, Y, F, T, E
<1>5. /\ d.version = v /\ d.parts = P /\ d.rows = R /\ d.sessions = S /\ d.palace = A
      /\ d.symbols = Y /\ d.files = F /\ d.touches = T /\ d.edges = E /\ d.done = {}
  BY <1>1
<1>6. Shaped(d) /\ Stored(d) = X
  BY <1>1, <1>3, <1>5 DEF Shaped, Stored
<1>7. d.parts = PartsAt(v) \cup
        (IF canonical THEN {"canonical_exchange_id", "canonical_index"} ELSE {})
  BY <1>5 DEF P
<1>8. v >= 11 => \A e \in Stored(d) : <<d.rows[e].harness, e>> \in d.sessions
  BY <1>4, <1>5, <1>6
<1>10. d.edges = d.touches \X {"mention"}
  BY <1>5 DEF E
<1>11. d.sessions = IF v < 11 THEN {} ELSE {<<d.rows[e].harness, e>> : e \in Stored(d)}
  BY <1>5, <1>6 DEF S
<1>12. Loose(v, d)
  BY <1>5, <1>9, <1>10, <1>11 DEF Loose
<1>13. Stored(d) = {e \in Exchanges : past[e].stored}
  BY <1>6 DEF X
<1>14. \A e \in Stored(d) : d.rows[e] = LegacyRow(v, e, past[e].at, canonical)
  BY <1>3, <1>5, <1>6
<1> QED BY <1>5, <1>6, <1>7, <1>8, <1>12, <1>13, <1>14 DEF A, Y

LEMMA PartsAtOwed ==
  ASSUME NEW v \in 0..Latest
  PROVE  /\ Basics \subseteq PartsAt(v)
         /\ "canonical_exchange_id" \notin PartsAt(v)
         /\ \A n \in 1..v : Adds[n] \ Drops[14] \subseteq PartsAt(v)
         /\ \A n \in 1..v : Drops[n] \cap PartsAt(v) = {}
         /\ v >= 14 => "code_touches" \in PartsAt(v)
<1>1. \A n \in 1..v : n \in 1..Latest
  BY DEF Latest
<1>2. UNION {Drops[n] : n \in 1..v} \subseteq Dropped
  BY <1>1, DropsFew
<1>3. Basics \subseteq PartsAt(v)
  BY <1>2 DEF PartsAt, Basics, Original, Dropped
<1>4. "canonical_exchange_id" \notin PartsAt(v)
  <2>1. \A n \in 1..Latest : "canonical_exchange_id" \notin Adds[n]
    BY AddsAre DEF Latest
  <2> QED BY <1>1, <2>1 DEF PartsAt, Original
<1>5. \A n \in 1..v : Adds[n] \ Drops[14] \subseteq PartsAt(v)
  BY <1>1, <1>2, AddsStay DEF PartsAt
<1>6. \A n \in 1..v : Drops[n] \cap PartsAt(v) = {}
  BY DEF PartsAt
<1>7. v >= 14 => "code_touches" \in Adds[9] \ Drops[14] /\ 9 \in 1..v
  BY AddsAre, DropsAre
<1> QED BY <1>3, <1>4, <1>5, <1>6, <1>7

LEMMA LegacyOwed ==
  ASSUME NEW v \in 0..Latest, NEW canonical \in BOOLEAN, canonical => v >= 11,
         NEW past \in [Exchanges -> Pasts(v)], NEW d, d = Legacy(v, canonical, past)
  PROVE  /\ Fits(d) /\ (v < 11 => RightLabels(d))
         /\ \A n \in 1..v : Owed(n, d)
<1>1. /\ Stored(d) = {e \in Exchanges : past[e].stored}
      /\ \A e \in Stored(d) : d.rows[e] = LegacyRow(v, e, past[e].at, canonical)
      /\ v >= 11 => \A e \in Stored(d) : <<d.rows[e].harness, e>> \in d.sessions
      /\ d.palace = {e \in Exchanges : past[e].palace}
      /\ d.symbols = {e \in Exchanges : past[e].symbols}
      /\ PartsAt(v) \subseteq d.parts
      /\ \A p \in d.parts \ PartsAt(v) : canonical /\ p \in {"canonical_exchange_id", "canonical_index"}
      /\ canonical => "canonical_exchange_id" \in d.parts
  BY LegacyIs
<1>2. \A e \in Stored(d) :
        /\ d.rows[e].at = past[e].at
        /\ d.rows[e].at \in {None, "time", "skipped"}
        /\ d.rows[e].status = IF v < 2 THEN None ELSE IF past[e].at = "time" THEN "distilled"
                              ELSE IF past[e].at = "skipped" THEN "skipped" ELSE "pending"
        /\ d.rows[e].harness = IF v < 11 THEN None ELSE IF v < 13 THEN "claude" ELSE Inferred(e)
        /\ d.rows[e].session = d.rows[e].harness
        /\ d.rows[e].canonical = IF canonical THEN d.rows[e].harness ELSE None
  <2> SUFFICES ASSUME NEW e \in Stored(d)
               PROVE  /\ d.rows[e].at = past[e].at
                      /\ d.rows[e].at \in {None, "time", "skipped"}
                      /\ d.rows[e].status = IF v < 2 THEN None
                                            ELSE IF past[e].at = "time" THEN "distilled"
                                            ELSE IF past[e].at = "skipped" THEN "skipped"
                                            ELSE "pending"
                      /\ d.rows[e].harness = IF v < 11 THEN None
                                             ELSE IF v < 13 THEN "claude" ELSE Inferred(e)
                      /\ d.rows[e].session = d.rows[e].harness
                      /\ d.rows[e].canonical = IF canonical THEN d.rows[e].harness ELSE None
    OBVIOUS
  <2>1. past[e].at \in {None, "time", "skipped"}
    BY <1>1 DEF Pasts
  <2>2. d.rows[e] = LegacyRow(v, e, past[e].at, canonical)
    BY <1>1
  <2> QED BY <2>1, <2>2 DEF LegacyRow
<1>3. \A e \in Stored(d) : RowFits(d.rows[e])
  BY <1>2 DEF RowFits, None
<1>4. Fits(d)
  BY <1>1, <1>2, <1>3, PartsAtOwed DEF Fits
<1>5. v < 11 => RightLabels(d)
  BY <1>2 DEF RightLabels
<1>6. ASSUME NEW n \in 1..v
      PROVE  PartsOwed(n, d)
  <2>1. n \in 1..Latest
    BY DEF Latest
  <2>2. Drops[n] \cap {"canonical_exchange_id", "canonical_index"} = {}
    BY <2>1, DropsFew DEF Dropped
  <2> QED BY <1>1, <2>2, PartsAtOwed DEF PartsOwed
<1>7. v >= 2 => RowsOwed(2, d)
  BY <1>2 DEF RowsOwed, None
<1>8. v >= 7 => RowsOwed(7, d)
  <2> SUFFICES ASSUME v >= 7
               PROVE  RowsOwed(7, d)
    OBVIOUS
  <2>1. \A e \in Exchanges : /\ past[e].palace <=> past[e].at = "time"
                             /\ past[e].symbols => past[e].palace
    BY DEF Pasts
  <2> QED BY <1>1, <1>2, <2>1 DEF RowsOwed, None
<1>9. v >= 11 => RowsOwed(11, d)
  BY <1>1, <1>2 DEF RowsOwed, Inferred, None
<1>10. v >= 13 => RowsOwed(13, d)
  BY <1>2 DEF RowsOwed
<1>11. ASSUME NEW n \in 1..v
       PROVE  RowsOwed(n, d)
  <2>1. CASE n \in {2, 7, 11, 13}
    BY <1>7, <1>8, <1>9, <1>10, <2>1
  <2>2. CASE n \notin {2, 7, 11, 13}
    BY <2>2 DEF RowsOwed
  <2> QED BY <2>1, <2>2
<1> QED BY <1>4, <1>5, <1>6, <1>11 DEF Owed

LEMMA Initial == Init => IInv
<1> SUFFICES ASSUME Init
             PROVE  IInv
  OBVIOUS
<1> USE MigrationsAssumption
<1>1. found = db /\ pc = [o \in Openers |-> "closed"] /\ target = [o \in Openers |-> 1]
  BY DEF Init
<1>2. CASE db = NoDatabase
  <2>1. Shaped(db) /\ Stored(db) = {} /\ db.version = 0 /\ db.done = {} /\ db.symbols = {}
    BY <1>2, NothingShaped DEF NoDatabase
  <2> QED BY <1>1, <1>2, <2>1 DEF IInv, Places, Carried, Marked, Latest
<1>3. CASE db # NoDatabase
  <2>1. PICK v \in LegacyVersions, canonical \in BOOLEAN :
          /\ canonical => v >= 11
          /\ \E past \in [Exchanges -> Pasts(v)] : db = Legacy(v, canonical, past)
    BY <1>3 DEF Init
  <2>2. PICK past \in [Exchanges -> Pasts(v)] : db = Legacy(v, canonical, past)
    BY <2>1
  <2>3. v \in 0..Latest
    OBVIOUS
  <2>4. Shaped(db) /\ db.version = v /\ db.done = {}
    BY <2>1, <2>2, <2>3, LegacyIs
  <2>5. Fits(db) /\ (v < 11 => RightLabels(db)) /\ \A n \in 1..v : Owed(n, db)
    BY <2>1, <2>2, <2>3, LegacyOwed
  <2>6. Places /\ Carried /\ Marked
    BY <1>1, <2>3, <2>4 DEF Places, Carried, Marked
  <2>7. Upgrading
    BY <1>1, <2>3, <2>4, <2>5 DEF Upgrading, Since, Reached, Underway, Latest
  <2> QED BY <2>4, <2>6, <2>7 DEF IInv
<1> QED BY <1>2, <1>3

-----------------------------------------------------------------------------
(* Steps                                                                   *)

\* c carries over what d has.
Carries(d, c) ==
    /\ Shaped(c) /\ Stored(d) \subseteq Stored(c)
    /\ c.palace = d.palace /\ c.files = d.files
    /\ d.edges \subseteq c.edges
    /\ \A e \in d.symbols \cap d.palace \cap Stored(d) :
         e \in c.symbols \/ <<e, "distill">> \in c.edges
    /\ "legacy_edges" \in d.done => "legacy_edges" \in c.done
    /\ "legacy_edges" \in c.done => "legacy_edges" \in d.done \/ Reach(c)

LEMMA FollowsCarries ==
  ASSUME NEW d, NEW c, Follows(d, c), c.done = d.done
  PROVE  Carries(d, c)
BY DEF Follows, Carries

LEMMA CarriedOn ==
  ASSUME Carried, Marked, Carries(db, db'), UNCHANGED found,
         \A o \in Openers : pc'[o] = "ready" => pc[o] = "ready" \/ "legacy_edges" \in db'.done
  PROVE  Carried' /\ Marked'
<1>1. Carried'
  BY DEF Carried, Carries, Stored
<1>2. Reach(db) => Reach(db')
  BY DEF Carries, Reach
<1>3. Marked'
  BY <1>2 DEF Marked, Carries, Reach
<1> QED BY <1>1, <1>3

\* The version of a database is stamped.
LEMMA StampIs ==
  ASSUME NEW d, Shaped(d), NEW n, NEW c, c = [d EXCEPT !.version = n]
  PROVE  /\ Shaped(c) /\ c.version = n /\ c.rows = d.rows /\ Stored(c) = Stored(d)
         /\ c.parts = d.parts /\ c.sessions = d.sessions /\ c.palace = d.palace
         /\ c.symbols = d.symbols /\ c.files = d.files /\ c.touches = d.touches
         /\ c.edges = d.edges /\ c.done = d.done
         /\ Fits(d) => Settles(d, c)
<1> DEFINE T == [Stored(d) -> Row]
<1>1. /\ d = [version |-> d.version, parts |-> d.parts, rows |-> d.rows,
              sessions |-> d.sessions, palace |-> d.palace, symbols |-> d.symbols,
              files |-> d.files, touches |-> d.touches, edges |-> d.edges, done |-> d.done]
      /\ d.rows \in T
  BY DEF Shaped
<1> HIDE DEF T
<1>2. c = [version |-> n, parts |-> d.parts, rows |-> d.rows,
           sessions |-> d.sessions, palace |-> d.palace, symbols |-> d.symbols,
           files |-> d.files, touches |-> d.touches, edges |-> d.edges, done |-> d.done]
  BY <1>1
<1>3. /\ c.version = n /\ c.rows = d.rows
      /\ c.parts = d.parts /\ c.sessions = d.sessions /\ c.palace = d.palace
      /\ c.symbols = d.symbols /\ c.files = d.files /\ c.touches = d.touches
      /\ c.edges = d.edges /\ c.done = d.done
  BY <1>2
<1>4. Shaped(c) /\ Stored(c) = Stored(d)
  BY <1>1, <1>2, <1>3 DEF Shaped, Stored, T
<1>5. Plain(d, c) /\ PartsFollow(d, c)
  BY <1>3, <1>4 DEF Plain, PartsFollow
<1> QED BY <1>3, <1>4, <1>5, PlainSettles

LEMMA WithCarries ==
  ASSUME NEW d, Shaped(d), NEW P
  PROVE  /\ Carries(d, With(d, P)) /\ With(d, P).version = d.version
         /\ With(d, P).parts = d.parts \cup P /\ With(d, P).done = d.done
         /\ Stored(With(d, P)) = Stored(d)
<1>1. With(d, P) = Built(d, d.parts \cup P, d.rows, d.sessions, d.symbols, d.edges, d.done)
      /\ d.rows \in [Stored(d) -> Row]
  BY WithIs DEF Shaped
<1>2. Follows(d, With(d, P)) /\ With(d, P).done = d.done
  BY <1>1, BuiltFollows
<1> QED BY <1>1, <1>2, FollowsCarries DEF Built, Follows

\* This step resets no row that is distilled and has its palace object.
KeepsDistilled ==
    \A e \in Stored(db) \cap db.palace :
       db.rows[e].status = "distilled" => e \in db'.palace /\ db'.rows[e].status = "distilled"

LEMMA NothingDistilled ==
  ASSUME IInv, found = NoDatabase
  PROVE  KeepsDistilled
BY DEF IInv, Carried, NoDatabase, KeepsDistilled

\* Only the openers move, and none gets ahead of what is done.
LEMMA Moving ==
  ASSUME IInv, UNCHANGED <<db, found>>, Places',
         \A o \in Openers : pc'[o] = "ready" => pc[o] = "ready",
         found # NoDatabase =>
            \A o \in Openers :
               /\ pc'[o] # "create"
               /\ pc'[o] \in {"migrate", "index"} =>
                    /\ target'[o] > found.version
                    /\ \A n \in 1..Latest : n < target'[o] => Reached(n)
  PROVE  IInv' /\ KeepsDistilled
<1>1. Shaped(db') /\ Carried' /\ Marked'
  BY DEF IInv, Carried, Marked
<1>2. ASSUME found # NoDatabase
      PROVE  Upgrading'
  <2>1. Fits(db') /\ \A o \in Openers : pc'[o] # "create"
    BY <1>2 DEF IInv, Upgrading
  <2>2. Since(found.version)'
    BY <1>2 DEF IInv, Upgrading, Since, Underway
  <2>3. ASSUME NEW n \in 1..Latest, Reached(n)'
        PROVE  Owed(n, db)
    BY <1>2, <2>3 DEF IInv, Upgrading, Reached, Underway
  <2> QED BY <2>1, <2>2, <2>3 DEF Upgrading
<1> QED BY <1>1, <1>2 DEF IInv, KeepsDistilled

\* The database changes and keeps what was promised, and the version stays.
LEMMA Changing ==
  ASSUME IInv, UNCHANGED found, Places', Carries(db, db'), db'.version = db.version,
         \A o \in Openers : pc'[o] = "ready" => pc[o] = "ready" \/ "legacy_edges" \in db'.done,
         found # NoDatabase =>
            /\ Settles(db, db')
            /\ \A o \in Openers :
                 /\ pc'[o] # "create"
                 /\ pc'[o] \in {"migrate", "index"} => Underway(o) /\ target'[o] = target[o]
  PROVE  IInv' /\ KeepsDistilled
<1>1. Shaped(db') /\ Carried' /\ Marked'
  BY CarriedOn DEF IInv, Carries
<1>2. ASSUME found # NoDatabase
      PROVE  Upgrading'
  <2>1. Fits(db') /\ \A o \in Openers : pc'[o] # "create"
    BY <1>2 DEF Settles
  <2>2. Since(found.version)'
    BY <1>2 DEF IInv, Upgrading, Since, Underway, Settles, RightLabels, Stored
  <2>3. ASSUME NEW n \in 1..Latest, Reached(n)'
        PROVE  Owed(n, db')
    BY <1>2, <2>3 DEF IInv, Upgrading, Reached, Underway, Settles
  <2> QED BY <2>1, <2>2, <2>3 DEF Upgrading
<1>3. KeepsDistilled
  BY NothingDistilled DEF Settles, Carries, KeepsDistilled
<1> QED BY <1>1, <1>2, <1>3 DEF IInv

LEMMA OpenKeeps ==
  ASSUME IInv, NEW o \in Openers, Open(o)
  PROVE  IInv' /\ KeepsDistilled
<1>1. found # NoDatabase => pc'[o] = "version"
  BY DEF IInv, Upgrading, Fits, Basics, Open, Goto, Has, Places
<1>2. Places'
  BY DEF IInv, Places, Open, Goto
<1>3. \A p \in Openers : pc'[p] = "ready" => pc[p] = "ready"
  BY DEF IInv, Places, Open, Goto
<1>4. ASSUME found # NoDatabase, NEW p \in Openers
      PROVE  /\ pc'[p] # "create"
             /\ pc'[p] \in {"migrate", "index"} => Underway(p) /\ target'[p] = target[p]
  BY <1>1, <1>4 DEF IInv, Places, Upgrading, Open, Goto, Underway
<1>5. ASSUME found # NoDatabase, NEW p \in Openers, Underway(p)
      PROVE  target[p] > found.version
             /\ \A n \in 1..Latest : n < target[p] => Reached(n)
  BY <1>5 DEF IInv, Upgrading, Since, Reached
<1> QED BY <1>2, <1>3, <1>4, <1>5, Moving DEF Open

LEMMA CreateTableKeeps ==
  ASSUME IInv, NEW o \in Openers, CreateTable(o)
  PROVE  IInv' /\ KeepsDistilled
<1>1. found = NoDatabase
  BY DEF IInv, Upgrading, CreateTable
<1>2. Carries(db, db') /\ db'.version = db.version
  BY WithCarries DEF IInv, CreateTable
<1>3. Places'
  BY <1>2 DEF IInv, Places, CreateTable
<1> QED BY <1>1, <1>2, <1>3, Changing DEF CreateTable

LEMMA StampKeeps ==
  ASSUME IInv, NEW o \in Openers, Stamp(o)
  PROVE  IInv' /\ KeepsDistilled
<1>1. found = NoDatabase
  BY DEF IInv, Upgrading, Stamp
<1> DEFINE P == IF Has(db, "canonical_exchange_id") THEN {}
                ELSE {"canonical_exchange_id", "canonical_index"}
           w == With(db, P)
           s == [w EXCEPT !.version = NewVersion]
<1>2. db' = Backfilled(s)
  BY DEF Stamp
<1> HIDE DEF P
<1>3. Carries(db, w)
  BY WithCarries DEF IInv
<1>4. w.done = db.done
  BY WithCarries DEF IInv
<1> HIDE DEF w
<1>5. /\ Shaped(s) /\ s.version = Latest /\ s.rows = w.rows /\ Stored(s) = Stored(w)
      /\ s.palace = w.palace /\ s.symbols = w.symbols /\ s.files = w.files
      /\ s.edges = w.edges /\ s.done = w.done
  BY <1>3, StampIs DEF Carries, NewVersion
<1> HIDE DEF s
<1>6. "legacy_edges" \in s.done => Reach(s)
  BY <1>3, <1>4, <1>5 DEF IInv, Marked, Carries, Reach
<1>7. Follows(s, db') /\ "legacy_edges" \in db'.done /\ Reach(db')
  BY <1>2, <1>5, <1>6, BackfilledFollows
<1>8. Carries(db, db') /\ db'.version = Latest
  BY <1>3, <1>5, <1>7 DEF Carries, Follows
<1>9. Carried' /\ Marked'
  BY <1>7, <1>8, CarriedOn DEF IInv, Stamp
<1>10. Places'
  BY <1>8 DEF IInv, Places, Stamp, Goto, Latest
<1> QED BY <1>1, <1>8, <1>9, <1>10, NothingDistilled DEF IInv, Carries, Stamp

LEMMA ReadVersionKeeps ==
  ASSUME IInv, NEW o \in Openers, ReadVersion(o)
  PROVE  IInv' /\ KeepsDistilled
<1>1. Places' /\ \A p \in Openers : pc'[p] = "ready" => pc[p] = "ready"
  BY DEF IInv, Places, ReadVersion, Goto, Pending
<1>2. ASSUME found # NoDatabase, NEW p \in Openers
      PROVE  /\ pc'[p] # "create"
             /\ pc'[p] \in {"migrate", "index"} =>
                  /\ target'[p] > found.version
                  /\ \A n \in 1..Latest : n < target'[p] => Reached(n)
  <2>1. CASE p = o
    <3>1. pc'[p] = "migrate" /\ target'[p] = db.version + 1
      BY <2>1 DEF IInv, Places, ReadVersion, Goto, Pending
    <3>2. db.version >= found.version /\ db.version \in Nat
      BY <1>2 DEF IInv, Upgrading, Since, Places
    <3>3. \A n \in 1..Latest : n < target'[p] => Reached(n)
      BY <3>1, <3>2 DEF Reached, Latest
    <3> QED BY <3>1, <3>2, <3>3 DEF IInv, Places
  <2>2. CASE p # o
    BY <1>2, <2>2 DEF IInv, Places, Upgrading, Since, ReadVersion, Goto, Reached, Underway
  <2> QED BY <2>1, <2>2
<1> QED BY <1>1, <1>2, Moving DEF ReadVersion

LEMMA MigrateKeeps ==
  ASSUME IInv, NEW o \in Openers, Migrate(o)
  PROVE  IInv' /\ KeepsDistilled
<1> USE DEF Latest
<1> DEFINE n == target[o]
           m == Migrated(db, n)
<1>1. n \in 1..Latest /\ db' = [m EXCEPT !.version = n]
  BY DEF IInv, Places, Migrate, Stamped
<1>2. Follows(db, m) /\ m.done = db.done
  BY <1>1, MigratedFollows DEF IInv
<1> HIDE DEF m
<1>3. /\ Shaped(db') /\ db'.version = n /\ db'.rows = m.rows /\ Stored(db') = Stored(m)
      /\ db'.palace = m.palace /\ db'.symbols = m.symbols /\ db'.files = m.files
      /\ db'.edges = m.edges /\ db'.done = m.done
      /\ Fits(m) => Settles(m, db')
  BY <1>1, <1>2, StampIs DEF Follows
<1>4. Carries(db, db')
  BY <1>2, <1>3 DEF Carries, Follows
<1>5. Carried' /\ Marked'
  BY <1>4, CarriedOn DEF IInv, Migrate
<1>6. Places'
  BY <1>1, <1>3 DEF IInv, Places, Migrate
<1>7. ASSUME found # NoDatabase
      PROVE  Upgrading' /\ KeepsDistilled
  <2>1. n > found.version /\ Fits(db) /\ Underway(o)
    BY <1>7 DEF IInv, Upgrading, Since, Underway, Migrate
  <2>2. \A k \in 1..Latest : k < n => Owed(k, db)
    BY <1>7, <2>1 DEF IInv, Upgrading, Reached
  <2>3. n = 11 => RightLabels(db)
    BY <1>7, <2>1 DEF IInv, Upgrading, Since, Places
  <2>4. Settles(db, m) /\ Owed(n, m)
    BY <1>1, <2>1, <2>2, <2>3, MigratedSettles DEF IInv, Migrate, m
  <2>5. Settles(m, db')
    BY <1>3, <2>4 DEF Settles
  <2>6. Settles(db, db') /\ Owed(n, db')
    <3>1. Settles(db, db')
      BY <1>2, <2>4, <2>5, SettlesOn
    <3>2. Owed(n, db')
      BY <1>1, <2>4, <2>5 DEF Settles
    <3> QED BY <3>1, <3>2
  <2>7. Since(found.version)'
    BY <1>1, <1>3, <1>7, <2>1, <2>6
       DEF IInv, Upgrading, Since, Underway, Migrate, Settles, RightLabels, Places
  <2>8. ASSUME NEW k \in 1..Latest, Reached(k)'
        PROVE  Owed(k, db')
    <3>1. CASE k = n
      BY <2>6, <3>1
    <3>2. CASE k # n
      <4>1. Reached(k)
        BY <1>1, <1>3, <2>1, <2>8, <3>2 DEF Reached, Underway, Migrate, IInv, Places
      <4> QED BY <1>7, <2>6, <4>1 DEF IInv, Upgrading, Settles
    <3> QED BY <3>1, <3>2
  <2>9. Fits(db') /\ \A p \in Openers : pc'[p] # "create"
    BY <1>7, <2>6 DEF IInv, Upgrading, Settles, Migrate
  <2>10. KeepsDistilled
    BY <1>4, <2>6 DEF Carries, Settles, KeepsDistilled
  <2> QED BY <2>7, <2>8, <2>9, <2>10, <1>7 DEF Upgrading, Migrate
<1> QED BY <1>3, <1>5, <1>6, <1>7, NothingDistilled DEF IInv, Migrate

\* An opener gives up, closes or is killed.
LEMMA LeavingKeeps ==
  ASSUME IInv, NEW o \in Openers, Goto(o, "closed"), UNCHANGED <<db, target, found>>
  PROVE  IInv' /\ KeepsDistilled
<1>1. Places' /\ \A p \in Openers : pc'[p] = "ready" => pc[p] = "ready"
  BY DEF IInv, Places, Goto
<1>2. ASSUME found # NoDatabase, NEW p \in Openers
      PROVE  /\ pc'[p] # "create"
             /\ pc'[p] \in {"migrate", "index"} =>
                  /\ target'[p] > found.version
                  /\ \A n \in 1..Latest : n < target'[p] => Reached(n)
  BY <1>2 DEF IInv, Places, Upgrading, Since, Goto, Reached, Underway
<1> QED BY <1>1, <1>2, Moving

\* The canonical column or its index is added outside a transaction.
LEMMA AddingKeeps ==
  ASSUME IInv, NEW o \in Openers, Underway(o), NEW P, P \cap Dropped = {}, db' = With(db, P),
         NEW place \in {"migrate", "index"}, Goto(o, place), UNCHANGED <<target, found>>
  PROVE  IInv' /\ KeepsDistilled
<1>1. Carries(db, db') /\ db'.version = db.version
  BY WithCarries DEF IInv
<1>2. Places'
  BY <1>1 DEF IInv, Places, Goto
<1>3. \A p \in Openers : pc'[p] = "ready" => pc[p] = "ready"
  BY DEF IInv, Places, Goto
<1>4. ASSUME found # NoDatabase
      PROVE  Settles(db, db')
  BY <1>4, WithSettles DEF IInv, Upgrading
<1>5. ASSUME found # NoDatabase, NEW p \in Openers
      PROVE  /\ pc'[p] # "create"
             /\ pc'[p] \in {"migrate", "index"} => Underway(p) /\ target'[p] = target[p]
  BY <1>5 DEF IInv, Places, Upgrading, Goto, Underway
<1> QED BY <1>1, <1>2, <1>3, <1>4, <1>5, Changing

LEMMA BackfillKeeps ==
  ASSUME IInv, NEW o \in Openers, Backfill(o)
  PROVE  IInv' /\ KeepsDistilled
<1> DEFINE missing == Has(db, "exchanges") /\ ~Has(db, "canonical_exchange_id")
           w == IF missing THEN With(db, {"canonical_exchange_id", "canonical_index"}) ELSE db
<1>1. db' = Backfilled(w)
  BY DEF Backfill
<1>2. Carries(db, w) /\ w.done = db.done /\ w.version = db.version
  <2>1. Carries(db, db)
    BY FollowsSelf, FollowsCarries DEF IInv
  <2> QED BY <2>1, WithCarries DEF IInv
<1>3. ASSUME found # NoDatabase
      PROVE  Settles(db, w) /\ Fits(w) /\ Has(w, "canonical_exchange_id") /\ Stored(w) = Stored(db)
  <2>1. Shaped(db) /\ Fits(db) /\ Has(db, "exchanges")
    BY <1>3 DEF IInv, Upgrading, Fits, Basics, Has
  <2>2. CASE missing
    <3>1. {"canonical_exchange_id", "canonical_index"} \cap Dropped = {}
      BY DEF Dropped
    <3>2. w = With(db, {"canonical_exchange_id", "canonical_index"})
      BY <2>2
    <3>3. Settles(db, w) /\ w.parts = db.parts \cup {"canonical_exchange_id", "canonical_index"}
      BY <2>1, <3>1, <3>2, WithSettles
    <3>4. Stored(w) = Stored(db)
      BY <2>1, <3>2, WithCarries
    <3> QED BY <3>3, <3>4 DEF Settles, Has
  <2>3. CASE ~missing
    BY <2>1, <2>3, SettlesSelf
  <2> QED BY <2>2, <2>3
<1> HIDE DEF w, missing
<1>4. "legacy_edges" \in w.done => Reach(w)
  BY <1>2 DEF IInv, Marked, Carries, Reach
<1>5. Follows(w, db') /\ "legacy_edges" \in db'.done /\ Reach(db')
  BY <1>1, <1>2, <1>4, BackfilledFollows DEF Carries
<1>6. Carries(db, db') /\ db'.version = db.version
  BY <1>2, <1>5 DEF Carries, Follows
<1>7. ASSUME found # NoDatabase
      PROVE  Settles(db, db')
  <2>1. Settles(w, db')
    BY <1>1, <1>2, <1>3, <1>7, BackfilledSettles DEF Carries
  <2>2. PartsFollow(db, db')
    BY <1>3, <1>7, <2>1 DEF Settles, PartsFollow, Dropped
  <2> QED BY <1>2, <1>3, <1>7, <2>1, <2>2 DEF Settles, Carries
<1>8. Places'
  BY <1>6 DEF IInv, Places, Backfill, Goto
<1>9. ASSUME found # NoDatabase, NEW p \in Openers
      PROVE  /\ pc'[p] # "create"
             /\ pc'[p] \in {"migrate", "index"} => Underway(p) /\ target'[p] = target[p]
  BY <1>9 DEF IInv, Places, Upgrading, Backfill, Goto, Underway
<1> QED BY <1>5, <1>6, <1>7, <1>8, <1>9, Changing DEF Backfill

LEMMA IngestKeeps ==
  ASSUME IInv, NEW o \in Openers, Ingest(o)
  PROVE  IInv' /\ KeepsDistilled
<1>1. PICK e \in Exchanges \ Stored(db) :
        LET row == [status |-> "pending", at |-> None, branch |-> "main",
                    harness |-> Inferred(e), session |-> Inferred(e),
                    canonical |-> Inferred(e), parent |-> e \in AgentTurns]
        IN  db' = [db EXCEPT
                     !.rows = [x \in Stored(db) \cup {e} |->
                                 IF x = e THEN row ELSE db.rows[x]],
                     !.sessions = @ \cup {<<Inferred(e), e>>}]
  BY DEF Ingest
<1> DEFINE row == [status |-> "pending", at |-> None, branch |-> "main",
                   harness |-> Inferred(e), session |-> Inferred(e),
                   canonical |-> Inferred(e), parent |-> e \in AgentTurns]
           X == Stored(db) \cup {e}
           R == [x \in X |-> IF x = e THEN row ELSE db.rows[x]]
           S == db.sessions \cup {<<Inferred(e), e>>}
           w == [db EXCEPT !.rows = R]
<1>2. row \in Row /\ row.status = "pending" /\ row.at = None /\ row.harness = Inferred(e)
      /\ row.session = Inferred(e) /\ row.canonical = Inferred(e)
  BY DEF Row, Inferred, None
<1> HIDE DEF row
<1>3. /\ R \in [X -> Row] /\ DOMAIN R = X /\ R[e] = row
      /\ \A x \in Stored(db) : R[x] = db.rows[x]
  BY <1>1, <1>2 DEF IInv, Shaped
<1>4. /\ db'.rows = R /\ db'.sessions = S
      /\ db' = [version |-> db.version, parts |-> db.parts, rows |-> R, sessions |-> S,
                palace |-> db.palace, symbols |-> db.symbols, files |-> db.files,
                touches |-> db.touches, edges |-> db.edges, done |-> db.done]
  <2>1. db' = [w EXCEPT !.sessions = @ \cup {<<Inferred(e), e>>}]
    BY <1>1 DEF row
  <2> HIDE DEF R, X
  <2>2. w = [version |-> db.version, parts |-> db.parts, rows |-> R, sessions |-> db.sessions,
             palace |-> db.palace, symbols |-> db.symbols, files |-> db.files,
             touches |-> db.touches, edges |-> db.edges, done |-> db.done]
    BY DEF IInv, Shaped
  <2> HIDE DEF w
  <2>3. db' = [w EXCEPT !.sessions = S]
    BY <2>1, <2>2
  <2> HIDE DEF S
  <2> QED BY <2>2, <2>3
<1> DEFINE T == [X -> Row]
<1>5. R \in T /\ T = [X -> Row]
  BY <1>3
<1> HIDE DEF R, T
<1>6. /\ db'.version = db.version /\ db'.parts = db.parts /\ db'.palace = db.palace
      /\ db'.symbols = db.symbols /\ db'.files = db.files /\ db'.edges = db.edges
      /\ db'.done = db.done
  <2> HIDE DEF X, S
  <2> QED BY <1>4
<1>7. Shaped(db') /\ Stored(db') = X
  <2>1. DOMAIN db'.rows = X /\ db'.rows \in T
    BY <1>3, <1>4, <1>5
  <2>2. db' = [version |-> db'.version, parts |-> db'.parts, rows |-> db'.rows,
               sessions |-> db'.sessions, palace |-> db'.palace, symbols |-> db'.symbols,
               files |-> db'.files, touches |-> db'.touches, edges |-> db'.edges,
               done |-> db'.done]
    <3> HIDE DEF X, S
    <3> QED BY <1>4, <1>6
  <2> QED BY <1>5, <2>1, <2>2 DEF Shaped, Stored
<1>8. Carries(db, db')
  BY <1>6, <1>7 DEF Carries
<1>9. Places'
  BY <1>6 DEF IInv, Places, Ingest
<1>10. (\A x \in Stored(db) : db'.rows[x] = db.rows[x]) /\ db'.rows[e] = row
  BY <1>3, <1>4
<1>11. ASSUME found # NoDatabase
       PROVE  Settles(db, db')
  <2>1. Fits(db) /\ "canonical_exchange_id" \in db.parts
    <3>1. "canonical_exchange_id" \in Required
      <4> DEFINE U == UNION {CoreSchema[i] : i \in DOMAIN CoreSchema}
      <4>1. Required = U \cup {"canonical_exchange_id", "canonical_index", "vec_palace"}
        BY DEF Required
      <4> HIDE DEF U
      <4> QED BY <4>1
    <3> QED BY <1>11, <3>1 DEF IInv, Upgrading, Ingest
  <2>2. PartsFollow(db, db')
    BY <1>6 DEF PartsFollow
  <2>3. Fits(db')
    BY <1>2, <1>6, <1>7, <1>10, <2>1 DEF Fits, RowFits
  <2>4. RowsOwed(2, db) => RowsOwed(2, db')
    BY <1>2, <1>7, <1>10 DEF RowsOwed, None
  <2>5. RowsOwed(7, db) => RowsOwed(7, db')
    BY <1>2, <1>6, <1>7, <1>10 DEF RowsOwed, None
  <2>6. RowsOwed(11, db) => RowsOwed(11, db')
    <3>1. Inferred(e) # None
      BY DEF Inferred, None
    <3>2. db.sessions \subseteq db'.sessions /\ <<Inferred(e), e>> \in db'.sessions
      BY <1>4
    <3>3. \A x \in Stored(db') : x = e \/ x \in Stored(db)
      BY <1>7
    <3> HIDE DEF S, X
    <3> QED BY <1>2, <1>10, <3>1, <3>2, <3>3 DEF RowsOwed
  <2>7. RowsOwed(13, db) => RowsOwed(13, db')
    BY <1>2, <1>7, <1>10 DEF RowsOwed
  <2>8. \A m \in 1..Latest : Owed(m, db) => Owed(m, db')
    BY <2>2, <2>4, <2>5, <2>6, <2>7, OwedSettle
  <2>9. RightLabels(db) => RightLabels(db')
    BY <1>2, <1>7, <1>10 DEF RightLabels
  <2> QED BY <1>10, <2>2, <2>3, <2>8, <2>9 DEF Settles
<1>12. ASSUME found # NoDatabase, NEW p \in Openers
       PROVE  /\ pc'[p] # "create"
              /\ pc'[p] \in {"migrate", "index"} => Underway(p) /\ target'[p] = target[p]
  BY <1>12 DEF IInv, Upgrading, Ingest, Underway
<1> QED BY <1>6, <1>8, <1>9, <1>11, <1>12, Changing DEF Ingest

LEMMA Inductive == IInv /\ [Next]_vars => IInv' /\ KeepsDistilled
<1> SUFFICES ASSUME IInv, [Next]_vars
             PROVE  IInv' /\ KeepsDistilled
  OBVIOUS
<1>1. CASE UNCHANGED vars
  BY <1>1 DEF vars, IInv, Places, Carried, Marked, Upgrading, Since, Reached, Underway, KeepsDistilled
<1>2. ASSUME NEW o \in Openers, Step(o) \/ Ingest(o) \/ Crash(o)
      PROVE  IInv' /\ KeepsDistilled
  <2>1. CASE Open(o)
    BY <2>1, OpenKeeps
  <2>2. CASE CreateTable(o)
    BY <2>2, CreateTableKeeps
  <2>3. CASE Stamp(o)
    BY <2>3, StampKeeps
  <2>4. CASE ReadVersion(o)
    BY <2>4, ReadVersionKeeps
  <2>5. CASE Migrate(o)
    BY <2>5, MigrateKeeps
  <2>6. CASE FailMigration(o)
    BY <2>6, LeavingKeeps DEF FailMigration
  <2>7. CASE AddCanonicalColumn(o)
    <3>1. {"canonical_exchange_id"} \cap Dropped = {}
      BY DEF Dropped
    <3> QED BY <2>7, <3>1, AddingKeeps DEF AddCanonicalColumn, Migrating, Underway
  <2>8. CASE AddCanonicalIndex(o)
    <3>1. {"canonical_index"} \cap Dropped = {}
      BY DEF Dropped
    <3> QED BY <2>8, <3>1, AddingKeeps DEF AddCanonicalIndex, Underway
  <2>9. CASE Backfill(o)
    BY <2>9, BackfillKeeps
  <2>10. CASE Close(o)
    BY <2>10, LeavingKeeps DEF Close
  <2>11. CASE Ingest(o)
    BY <2>11, IngestKeeps
  <2>12. CASE Crash(o)
    BY <2>12, LeavingKeeps DEF Crash
  <2> QED BY <1>2, <2>1, <2>2, <2>3, <2>4, <2>5, <2>6, <2>7, <2>8, <2>9, <2>10, <2>11, <2>12
          DEF Step
<1> QED BY <1>1, <1>2 DEF Next

LEMMA Invariance == Spec => []IInv
BY Initial, Inductive, PTL DEF Spec

-----------------------------------------------------------------------------
(* Types: what a database holds is of the known kinds                      *)

Known == Required \cup Original \cup {"touch_symbols"}

Harnesses == {"claude", "codex"}

Kinds == {"mention", "distill", "line"}

\* What a database holds, apart from its rows' columns, is of the known kinds.
Filled(d) ==
    /\ d.parts \subseteq Known
    /\ Stored(d) \subseteq Exchanges
    /\ d.sessions \subseteq Harnesses \X Exchanges
    /\ d.palace \subseteq Exchanges /\ d.symbols \subseteq Exchanges
    /\ d.files \subseteq Exchanges /\ d.touches \subseteq Exchanges
    /\ d.edges \subseteq Exchanges \X Kinds
    /\ d.done \subseteq {"legacy_edges", "touch_time_edges"}

LEMMA FilledIsDatabase ==
  ASSUME NEW d, Shaped(d), Filled(d), d.version \in 0..Latest
  PROVE  Database(d)
<1>1. DOMAIN d = DOMAIN NoDatabase
  <2>1. DOMAIN NoDatabase = {"version", "parts", "rows", "sessions", "palace", "symbols", "files",
                             "touches", "edges", "done"}
    BY DEF NoDatabase
  <2>2. DOMAIN d = {"version", "parts", "rows", "sessions", "palace", "symbols", "files",
                    "touches", "edges", "done"}
    <3> DEFINE r == [version |-> d.version, parts |-> d.parts, rows |-> d.rows,
                     sessions |-> d.sessions, palace |-> d.palace, symbols |-> d.symbols,
                     files |-> d.files, touches |-> d.touches, edges |-> d.edges,
                     done |-> d.done]
    <3>1. d = r
      BY DEF Shaped
    <3>2. DOMAIN r = {"version", "parts", "rows", "sessions", "palace", "symbols", "files",
                      "touches", "edges", "done"}
      OBVIOUS
    <3> HIDE DEF r
    <3> QED BY <3>1, <3>2
  <2> QED BY <2>1, <2>2
<1> QED BY <1>1 DEF Shaped, Filled, Database, Known, Harnesses, Kinds

LEMMA DatabaseIsFilled ==
  ASSUME NEW d, Database(d)
  PROVE  Filled(d)
BY DEF Filled, Database, Known, Harnesses, Kinds

\* Every table, column or index a migration or the schema makes is known.
LEMMA SchemaKnown ==
  /\ Len(CoreSchema) = 15 /\ Len(CoreSchema) = Latest
  /\ \A i \in 1..Len(CoreSchema) : CoreSchema[i] \subseteq Known
<1>1. DOMAIN CoreSchema = 1..15 /\ Len(CoreSchema) = 15
  BY DEF CoreSchema
<1> HIDE DEF CoreSchema
<1>2. \A i \in 1..15 : CoreSchema[i] \subseteq Known
  BY <1>1 DEF Known, Required
<1> QED BY <1>1, <1>2 DEF Latest

LEMMA RequiredAre ==
  {"sessions", "last_ply_end", "parent_session_ref", "distill_status", "git_branch", "provenance",
   "ply_index", "session_index", "exchange_files", "meta", "lookup_indexes", "code_touches",
   "code_symbols", "code_edges", "file_renames"} \subseteq Known
<1>1. /\ CoreSchema[1] = {"sessions"}
      /\ CoreSchema[2] = {"conversations", "last_ply_end", "parent_session_ref"}
      /\ CoreSchema[3] = {"exchanges", "distill_status", "git_branch", "provenance"}
      /\ CoreSchema[4] = {"ply_index"} /\ CoreSchema[5] = {"session_index"}
      /\ CoreSchema[9] = {"exchange_files"} /\ CoreSchema[10] = {"meta"}
      /\ CoreSchema[11] = {"lookup_indexes"} /\ CoreSchema[12] = {"code_touches"}
      /\ CoreSchema[13] = {"code_symbols"} /\ CoreSchema[14] = {"code_edges"}
      /\ CoreSchema[15] = {"file_renames"}
  BY DEF CoreSchema
<1>2. \A i \in {1, 2, 3, 4, 5, 9, 10, 11, 12, 13, 14, 15} : CoreSchema[i] \subseteq Known
  BY SchemaKnown
<1> HIDE DEF CoreSchema
<1> QED BY <1>1, <1>2

LEMMA AddsKnown ==
  /\ \A n \in 1..Latest : Adds[n] \subseteq Known
  /\ {"canonical_exchange_id", "canonical_index", "vec_palace", "meta", "sessions"} \subseteq Known
<1>1. \A n \in 1..Latest : Adds[n] \subseteq Known
  <2> SUFFICES ASSUME NEW n \in 1..Latest
               PROVE  Adds[n] \subseteq Known
    OBVIOUS
  <2>1. "touch_symbols" \in Known
    BY DEF Known
  <2> QED BY <2>1, RequiredAre, AddsAre DEF Latest
<1>2. {"canonical_exchange_id", "canonical_index", "vec_palace"} \subseteq Known
  <2> DEFINE U == UNION {CoreSchema[i] : i \in DOMAIN CoreSchema}
  <2>1. Required = U \cup {"canonical_exchange_id", "canonical_index", "vec_palace"}
    BY DEF Required
  <2> HIDE DEF U
  <2> QED BY <2>1 DEF Known
<1> QED BY <1>1, <1>2, RequiredAre

LEMMA BuiltFilled ==
  ASSUME NEW d, Filled(d), NEW P, NEW R \in [Stored(d) -> Row], NEW S, NEW Y, NEW E, NEW D,
         P \subseteq Known, S \subseteq Harnesses \X Exchanges, Y \subseteq Exchanges,
         E \subseteq Exchanges \X Kinds, D \subseteq {"legacy_edges", "touch_time_edges"},
         NEW c, c = Built(d, P, R, S, Y, E, D)
  PROVE  Filled(c)
<1>1. /\ Stored(c) = Stored(d) /\ c.palace = d.palace /\ c.files = d.files
      /\ c.touches = d.touches
      /\ c.parts = P /\ c.sessions = S /\ c.symbols = Y /\ c.edges = E /\ c.done = D
  BY BuiltIs
<1> QED BY <1>1 DEF Filled

LEMMA WithFilled ==
  ASSUME NEW d, Shaped(d), Filled(d), NEW P, P \subseteq Known
  PROVE  Filled(With(d, P))
<1>1. d.rows \in [Stored(d) -> Row]
  BY DEF Shaped
<1>2. /\ d.parts \cup P \subseteq Known /\ d.sessions \subseteq Harnesses \X Exchanges
      /\ d.symbols \subseteq Exchanges /\ d.edges \subseteq Exchanges \X Kinds
      /\ d.done \subseteq {"legacy_edges", "touch_time_edges"}
  BY DEF Filled
<1> DEFINE Q == d.parts \cup P
           c == With(d, P)
<1>3. c = Built(d, Q, d.rows, d.sessions, d.symbols, d.edges, d.done)
  BY WithIs
<1> HIDE DEF c
<1>4. Q \subseteq Known
  BY <1>2
<1> HIDE DEF Q
<1>5. Filled(c)
  BY <1>1, <1>2, <1>3, <1>4, BuiltFilled
<1> QED BY <1>5 DEF c

LEMMA SameFilled ==
  ASSUME NEW d, Shaped(d), Filled(d)
  PROVE  /\ d.rows \in [Stored(d) -> Row]
         /\ d.parts \subseteq Known /\ d.sessions \subseteq Harnesses \X Exchanges
         /\ d.symbols \subseteq Exchanges /\ d.edges \subseteq Exchanges \X Kinds
         /\ d.done \subseteq {"legacy_edges", "touch_time_edges"}
BY DEF Shaped, Filled

LEMMA LabelKnown ==
  ASSUME NEW d, Filled(d)
  PROVE  \A e \in Stored(d) : <<Inferred(e), e>> \in Harnesses \X Exchanges
BY DEF Filled, Inferred, Harnesses

LEMMA MigratedFilled ==
  ASSUME NEW d, Shaped(d), Filled(d), NEW n \in 1..Latest
  PROVE  Filled(Migrated(d, n))
<1>0. /\ d.rows \in [Stored(d) -> Row]
      /\ d.parts \subseteq Known /\ d.sessions \subseteq Harnesses \X Exchanges
      /\ d.symbols \subseteq Exchanges /\ d.edges \subseteq Exchanges \X Kinds
      /\ d.done \subseteq {"legacy_edges", "touch_time_edges"}
  BY SameFilled
<1>1. \A m \in 1..Latest : Filled(With(d, Adds[m]))
  BY AddsKnown, WithFilled
<1>2. Filled(V2(d))
  <2>1. CASE Has(d, "exchanges")
    <3>1. PICK R \in [Stored(d) -> Row] :
            V2(d) = Built(d, d.parts \cup Adds[2], R, d.sessions, d.symbols, d.edges, d.done)
      BY <2>1, V2Is
    <3>2. d.parts \cup Adds[2] \subseteq Known
      BY <1>0, AddsKnown DEF Latest
    <3> QED BY <1>0, <3>1, <3>2, BuiltFilled
  <2>2. CASE ~Has(d, "exchanges")
    BY <2>2 DEF V2
  <2> QED BY <2>1, <2>2
<1>3. Filled(V7(d))
  <2>1. d.parts \ Drops[7] \subseteq Known /\ d.symbols \cap d.palace \subseteq Exchanges
    BY <1>0
  <2>2. CASE Has(d, "exchanges") /\ Has(d, "palace_objects")
    <3>1. PICK R \in [Stored(d) -> Row] :
            V7(d) = Built(d, d.parts \ Drops[7], R, d.sessions, d.symbols \cap d.palace,
                          d.edges, d.done)
      BY <2>2, V7Is
    <3> QED BY <1>0, <2>1, <3>1, BuiltFilled
  <2>3. CASE ~(Has(d, "exchanges") /\ Has(d, "palace_objects"))
    <3>1. V7(d) = Built(d, d.parts \ Drops[7], d.rows, d.sessions, d.symbols \cap d.palace,
                        d.edges, d.done)
      BY <2>3, V7Bare
    <3> QED BY <1>0, <2>1, <3>1, BuiltFilled
  <2> QED BY <2>2, <2>3
<1>4. Filled(V8(d))
  <2>1. CASE Has(d, "exchanges")
    <3>1. PICK R \in [Stored(d) -> Row] :
            V8(d) = Built(d, d.parts \cup Adds[8], R, d.sessions, d.symbols, d.edges, d.done)
      BY <2>1, V8Is
    <3>2. d.parts \cup Adds[8] \subseteq Known
      BY <1>0, AddsKnown DEF Latest
    <3> QED BY <1>0, <3>1, <3>2, BuiltFilled
  <2>2. CASE ~Has(d, "exchanges")
    BY <2>2 DEF V8
  <2> QED BY <2>1, <2>2
<1>5. Filled(V11(d))
  <2>1. CASE Has(d, "exchanges")
    <3> DEFINE S == d.sessions \cup {<<Inferred(e), e>> : e \in Stored(d)}
    <3>1. PICK R \in [Stored(d) -> Row] :
            V11(d) = Built(d, d.parts \cup Adds[11], R, S, d.symbols, d.edges, d.done)
      BY <2>1, V11Is
    <3>2. d.parts \cup Adds[11] \subseteq Known /\ S \subseteq Harnesses \X Exchanges
      BY <1>0, AddsKnown, LabelKnown DEF Latest
    <3> HIDE DEF S
    <3> QED BY <1>0, <3>1, <3>2, BuiltFilled
  <2>2. CASE ~Has(d, "exchanges")
    BY <2>2, AddsKnown, WithFilled DEF V11
  <2> QED BY <2>1, <2>2
<1>6. Filled(V13(d))
  <2>1. CASE Has(d, "exchanges")
    <3> DEFINE A == d.sessions \cup {<<Inferred(e), e>> : e \in Mislabelled(d)}
    <3>1. PICK R \in [Stored(d) -> Row] :
            V13(d) = Built(d, d.parts, R,
                           A \ {<<"claude", e>> : e \in {x \in Mislabelled(d) :
                                                            R[x].session # "claude"}},
                           d.symbols, d.edges, d.done)
      BY <2>1, V13Is
    <3>2. A \subseteq Harnesses \X Exchanges
      BY <1>0, LabelKnown DEF Mislabelled
    <3> DEFINE S == A \ {<<"claude", e>> : e \in {x \in Mislabelled(d) :
                                                       R[x].session # "claude"}}
    <3> HIDE DEF A
    <3>3. S \subseteq Harnesses \X Exchanges /\ V13(d) = Built(d, d.parts, R, S, d.symbols, d.edges, d.done)
      BY <3>1, <3>2
    <3> HIDE DEF S
    <3> QED BY <1>0, <3>3, BuiltFilled
  <2>2. CASE ~Has(d, "exchanges")
    BY <2>2 DEF V13
  <2> QED BY <2>1, <2>2
<1>7. Filled(V14(d))
  <2> DEFINE E == d.edges \cup {<<e, "distill">> : e \in d.symbols \cap d.palace \cap Stored(d)}
  <2>1. E \subseteq Exchanges \X Kinds
    BY <1>0 DEF Kinds
  <2>2. V14(d) = Built(d, d.parts \ Drops[14], d.rows, d.sessions, {}, E, d.done)
    BY V14Is
  <2>3. d.parts \ Drops[14] \subseteq Known
    BY <1>0
  <2> HIDE DEF E
  <2> QED BY <1>0, <2>1, <2>2, <2>3, BuiltFilled
<1>8. Filled(V9(d))
  <2>1. Adds[9] \subseteq Known /\ Adds[9] \ {"touch_symbols"} \subseteq Known
    BY AddsKnown DEF Latest
  <2> QED BY <2>1, WithFilled DEF V9
<1>9. /\ Filled(V1(d)) /\ Filled(V3(d)) /\ Filled(V4(d)) /\ Filled(V5(d)) /\ Filled(V10(d))
      /\ Filled(V12(d)) /\ Filled(V15(d))
  BY <1>1 DEF V1, V3, V4, V5, V10, V12, V15, Latest
<1>10. n \in {1, 2, 3, 4, 5, 6, 7, 8, 9, 10, 11, 12, 13, 14, 15}
  BY DEF Latest
<1> QED BY <1>2, <1>3, <1>4, <1>5, <1>6, <1>7, <1>8, <1>9, <1>10 DEF Migrated

LEMMA BackfilledFilled ==
  ASSUME NEW d, Shaped(d), Filled(d)
  PROVE  Shaped(Backfilled(d)) /\ Filled(Backfilled(d)) /\ Backfilled(d).version = d.version
<1> DEFINE a1 == Provenance(d)
           a2 == CanonicalIds(a1)
           a3 == ParentRefs(a2)
           a4 == LegacyEdges(a3)
           a5 == TouchTimeEdges(a4)
           Good(c) == Shaped(c) /\ Filled(c) /\ c.version = d.version
<1>0. ASSUME NEW b, Good(b), NEW P, NEW R \in [Stored(b) -> Row], NEW S, NEW Y, NEW E, NEW D,
             P \subseteq Known, S \subseteq Harnesses \X Exchanges, Y \subseteq Exchanges,
             E \subseteq Exchanges \X Kinds, D \subseteq {"legacy_edges", "touch_time_edges"},
             NEW c, c = Built(b, P, R, S, Y, E, D)
      PROVE  Good(c)
  <2>1. Shaped(c) /\ c.version = b.version
    BY <1>0, BuiltIs
  <2>2. Filled(c)
    BY <1>0, BuiltFilled
  <2> QED BY <1>0, <2>1, <2>2
<1>1. Good(d)
  OBVIOUS
<1>2. Good(a1)
  <2> DEFINE S == d.sessions \cup {<<Inferred(e), e>> : e \in Unattributed(d)}
  <2>1. PICK R \in [Stored(d) -> Row] :
          a1 = Built(d, d.parts, R, S, d.symbols, d.edges, d.done)
    BY ProvenanceIs
  <2>2. S \subseteq Harnesses \X Exchanges
    BY SameFilled, LabelKnown DEF Unattributed
  <2> HIDE DEF S, a1, Good
  <2> QED BY <1>0, <1>1, <2>1, <2>2, SameFilled
<1> HIDE DEF a1
<1>3. Good(a2)
  <2>1. CASE Has(a1, "exchanges")
    <3>1. PICK R \in [Stored(a1) -> Row] :
            a2 = Built(a1, a1.parts, R, a1.sessions, a1.symbols, a1.edges, a1.done)
      BY <1>2, <2>1, CanonicalIdsIs
    <3>2. /\ a1.parts \subseteq Known /\ a1.sessions \subseteq Harnesses \X Exchanges
          /\ a1.symbols \subseteq Exchanges /\ a1.edges \subseteq Exchanges \X Kinds
          /\ a1.done \subseteq {"legacy_edges", "touch_time_edges"}
      BY <1>2, SameFilled
    <3> HIDE DEF a2, Good
    <3> QED BY <1>0, <1>2, <3>1, <3>2
  <2>2. CASE ~Has(a1, "exchanges")
    BY <1>2, <2>2 DEF CanonicalIds
  <2> QED BY <2>1, <2>2
<1> HIDE DEF a2
<1>4. Good(a3)
  <2>1. CASE Has(a2, "parent_session_ref")
    <3>1. PICK R \in [Stored(a2) -> Row] :
            a3 = Built(a2, a2.parts, R, a2.sessions, a2.symbols, a2.edges, a2.done)
      BY <1>3, <2>1, ParentRefsIs
    <3>2. /\ a2.parts \subseteq Known /\ a2.sessions \subseteq Harnesses \X Exchanges
          /\ a2.symbols \subseteq Exchanges /\ a2.edges \subseteq Exchanges \X Kinds
          /\ a2.done \subseteq {"legacy_edges", "touch_time_edges"}
      BY <1>3, SameFilled
    <3> HIDE DEF a3, Good
    <3> QED BY <1>0, <1>3, <3>1, <3>2
  <2>2. CASE ~Has(a2, "parent_session_ref")
    BY <1>3, <2>2 DEF ParentRefs
  <2> QED BY <2>1, <2>2
<1> HIDE DEF a3
<1>5. Good(a4)
  <2>1. CASE "legacy_edges" \in a3.done
    BY <1>4, <2>1 DEF LegacyEdges
  <2>2. CASE "legacy_edges" \notin a3.done
    <3> DEFINE P == a3.parts \cup {"meta"}
               D == a3.done \cup {"legacy_edges"}
    <3>1. PICK E :
            /\ a4 = Built(a3, P, a3.rows, a3.sessions, a3.symbols, E, D)
            /\ E \subseteq a3.edges \cup (a3.files \X {"mention"})
      BY <1>4, <2>2, LegacyEdgesIs
    <3>2. /\ a3.parts \subseteq Known /\ a3.sessions \subseteq Harnesses \X Exchanges
          /\ a3.symbols \subseteq Exchanges /\ a3.edges \subseteq Exchanges \X Kinds
          /\ a3.done \subseteq {"legacy_edges", "touch_time_edges"}
          /\ a3.rows \in [Stored(a3) -> Row] /\ a3.files \subseteq Exchanges
      BY <1>4, SameFilled DEF Filled
    <3>3. E \subseteq Exchanges \X Kinds
      BY <3>1, <3>2 DEF Kinds
    <3>4. P \subseteq Known /\ D \subseteq {"legacy_edges", "touch_time_edges"}
      BY <3>2, AddsKnown
    <3> HIDE DEF a4, Good, P, D
    <3> QED BY <1>0, <1>4, <3>1, <3>2, <3>3, <3>4
  <2> QED BY <2>1, <2>2
<1> HIDE DEF a4
<1>6. Good(a5)
  <2>1. PICK E, D :
          /\ a5 = Built(a4, a4.parts, a4.rows, a4.sessions, a4.symbols, E, D)
          /\ E \subseteq a4.edges \cup (a4.touches \X {"line"})
          /\ D \ {"touch_time_edges"} = a4.done \ {"touch_time_edges"}
    BY <1>5, TouchTimeEdgesIs
  <2>2. /\ a4.parts \subseteq Known /\ a4.sessions \subseteq Harnesses \X Exchanges
        /\ a4.symbols \subseteq Exchanges /\ a4.edges \subseteq Exchanges \X Kinds
        /\ a4.done \subseteq {"legacy_edges", "touch_time_edges"}
        /\ a4.rows \in [Stored(a4) -> Row] /\ a4.touches \subseteq Exchanges
    BY <1>5, SameFilled DEF Filled
  <2>3. E \subseteq Exchanges \X Kinds
    BY <2>1, <2>2 DEF Kinds
  <2>4. D \subseteq {"legacy_edges", "touch_time_edges"}
    BY <2>1, <2>2
  <2> HIDE DEF a5, Good
  <2> QED BY <1>0, <1>5, <2>1, <2>2, <2>3, <2>4
<1> HIDE DEF a5
<1>7. Backfilled(d) = With(a5, {"vec_palace"})
  BY DEF Backfilled, a1, a2, a3, a4, a5
<1>8. {"vec_palace"} \subseteq Known
  BY AddsKnown
<1> DEFINE b == With(a5, {"vec_palace"})
<1>9. Filled(b)
  BY <1>6, <1>8, WithFilled
<1>10. Shaped(b) /\ b.version = a5.version
  BY <1>6, WithCarries DEF Carries
<1> HIDE DEF b
<1>11. Backfilled(d) = b
  BY <1>7 DEF b
<1> QED BY <1>6, <1>9, <1>10, <1>11

LEMMA StampFilled ==
  ASSUME NEW d, Shaped(d), Filled(d), NEW n, NEW c, c = [d EXCEPT !.version = n]
  PROVE  Shaped(c) /\ Filled(c) /\ c.version = n
BY StampIs DEF Filled

\* The databases that are found.
LEMMA FoundFilled ==
  ASSUME Init
  PROVE  Filled(db)
<1> USE MigrationsAssumption
<1>1. CASE db = NoDatabase
  <2>1. Stored(db) = {}
    BY <1>1, NothingShaped
  <2> QED BY <1>1, <2>1 DEF NoDatabase, Filled
<1>2. CASE db # NoDatabase
  <2>1. PICK v \in LegacyVersions, canonical \in BOOLEAN :
          /\ canonical => v >= 11
          /\ \E past \in [Exchanges -> Pasts(v)] : db = Legacy(v, canonical, past)
    BY <1>2 DEF Init
  <2>2. PICK past \in [Exchanges -> Pasts(v)] : db = Legacy(v, canonical, past)
    BY <2>1
  <2>3. v \in 0..Latest
    OBVIOUS
  <2>4. /\ db.done = {} /\ Loose(v, db)
        /\ db.parts = PartsAt(v) \cup
             (IF canonical THEN {"canonical_exchange_id", "canonical_index"} ELSE {})
        /\ Stored(db) = {e \in Exchanges : past[e].stored}
        /\ \A e \in Stored(db) : db.rows[e] = LegacyRow(v, e, past[e].at, canonical)
        /\ db.palace = {e \in Exchanges : past[e].palace}
        /\ db.symbols = {e \in Exchanges : past[e].symbols}
    BY <2>1, <2>2, <2>3, LegacyIs
  <2>5. db.parts \subseteq Known
    <3>1. UNION {Adds[n] : n \in 1..v} \subseteq Known
      BY <2>3, AddsKnown DEF Latest
    <3>2. PartsAt(v) \subseteq Known
      BY <3>1 DEF PartsAt, Known
    <3> QED BY <2>4, <3>2, AddsKnown
  <2>6. db.sessions \subseteq Harnesses \X Exchanges
    <3>1. ASSUME NEW e \in Stored(db), v >= 11
          PROVE  db.rows[e].harness \in Harnesses
      <4>1. past[e].at \in {None, "time", "skipped"}
        BY <2>4 DEF Pasts
      <4>2. db.rows[e] = LegacyRow(v, e, past[e].at, canonical)
        BY <2>4
      <4>3. db.rows[e].harness = IF v < 13 THEN "claude" ELSE Inferred(e)
        BY <2>3, <3>1, <4>1, <4>2 DEF LegacyRow, Latest
      <4> QED BY <4>3 DEF Harnesses, Inferred
    <3>2. Stored(db) \subseteq Exchanges
      BY <2>4
    <3>3. db.sessions = IF v < 11 THEN {} ELSE {<<db.rows[e].harness, e>> : e \in Stored(db)}
      BY <2>4 DEF Loose
    <3>4. CASE v < 11
      BY <3>3, <3>4
    <3>5. CASE ~(v < 11)
      <4>1. \A e \in Stored(db) : db.rows[e].harness \in Harnesses
        BY <2>3, <3>1, <3>5 DEF Latest
      <4> QED BY <3>2, <3>3, <3>5, <4>1
    <3> QED BY <3>4, <3>5
  <2>7. db.edges \subseteq Exchanges \X Kinds
    BY <2>4 DEF Loose, Kinds
  <2>8. /\ Stored(db) \subseteq Exchanges /\ db.palace \subseteq Exchanges
        /\ db.symbols \subseteq Exchanges
    BY <2>4
  <2> QED BY <2>4, <2>5, <2>6, <2>7, <2>8 DEF Filled, Loose
<1> QED BY <1>1, <1>2

\* The types, with the shape of the database known.
Types ==
    /\ Filled(db)
    /\ Database(found)
    /\ pc \in [Openers -> {"closed", "version", "create", "migrate", "index", "ready"}]
    /\ target \in [Openers -> 1..Latest + 1]
    /\ crashes \in 0..MaxCrashes

LEMMA TypesAre == IInv /\ Types => TypeOK
BY SchemaKnown, FilledIsDatabase DEF IInv, Places, Types, TypeOK

LEMMA InitTypes == Init => Types
<1> SUFFICES ASSUME Init
             PROVE  Types
  OBVIOUS
<1>1. Shaped(db) /\ db.version \in 0..Latest
  BY Initial DEF IInv, Places
<1>2. Filled(db) /\ Database(db)
  BY <1>1, FoundFilled, FilledIsDatabase
<1>3. 1 \in 1..Latest + 1 /\ 0 \in 0..MaxCrashes
  BY MigrationsAssumption DEF Latest
<1> QED BY <1>2, <1>3 DEF Init, Types

LEMMA StepTypes == IInv /\ Types /\ [Next]_vars => Types'
<1> SUFFICES ASSUME IInv, Types, [Next]_vars
             PROVE  Types'
  OBVIOUS
<1> USE DEF Latest
<1>0. /\ Shaped(db) /\ Filled(db) /\ db.version \in 0..Latest
      /\ pc \in [Openers -> {"closed", "version", "create", "migrate", "index", "ready"}]
      /\ target \in [Openers -> 1..Latest + 1]
      /\ crashes \in 0..MaxCrashes
  BY DEF IInv, Places, Types
<1>1. CASE UNCHANGED vars
  BY <1>1 DEF vars, Types, Filled, Database, Stored
<1>2. ASSUME NEW o \in Openers, Step(o) \/ Ingest(o) \/ Crash(o)
      PROVE  Types'
  <2>1. found' = found
    BY <1>2 DEF Step, Open, CreateTable, Stamp, ReadVersion, Migrate, FailMigration,
                AddCanonicalColumn, AddCanonicalIndex, Backfill, Close, Ingest, Crash
  <2>2. Database(found)'
    BY <2>1 DEF Types, Database, Stored
  <2>3. pc' \in [Openers -> {"closed", "version", "create", "migrate", "index", "ready"}]
    BY <1>0, <1>2
       DEF Step, Open, CreateTable, Stamp, ReadVersion, Migrate, FailMigration, Goto,
           AddCanonicalColumn, AddCanonicalIndex, Backfill, Close, Ingest, Crash
  <2>4. target' \in [Openers -> 1..Latest + 1]
    <3>1. CASE CreateTable(o)
      BY <1>0, <3>1, SchemaKnown DEF CreateTable
    <3>2. CASE Migrate(o)
      BY <1>0, <3>2 DEF Migrate
    <3>3. CASE ReadVersion(o)
      BY <1>0, <3>3 DEF ReadVersion, Pending
    <3>4. CASE Open(o)
      BY <1>0, <3>4 DEF Open
    <3>5. CASE UNCHANGED target
      BY <1>0, <3>5
    <3> QED BY <1>2, <3>1, <3>2, <3>3, <3>4, <3>5
            DEF Step, Stamp, FailMigration, AddCanonicalColumn, AddCanonicalIndex, Backfill,
                Close, Ingest, Crash
  <2>5. crashes' \in 0..MaxCrashes
    <3>1. crashes' = crashes \/ (crashes < MaxCrashes /\ crashes' = crashes + 1)
      BY <1>2
         DEF Step, Open, CreateTable, Stamp, ReadVersion, Migrate, FailMigration,
             AddCanonicalColumn, AddCanonicalIndex, Backfill, Close, Ingest, Crash
    <3> QED BY <1>0, <3>1, MigrationsAssumption
  <2>6. Filled(db')
    <3>1. CASE CreateTable(o)
      <4>1. CoreSchema[target[o]] \subseteq Known
        BY <1>0, <3>1, SchemaKnown DEF CreateTable
      <4> QED BY <1>0, <3>1, <4>1, WithFilled DEF CreateTable
    <3>2. CASE Stamp(o)
      <4> DEFINE P == IF Has(db, "canonical_exchange_id") THEN {}
                      ELSE {"canonical_exchange_id", "canonical_index"}
                 w == With(db, P)
                 s == [w EXCEPT !.version = NewVersion]
      <4>1. db' = Backfilled(s)
        BY <3>2 DEF Stamp
      <4>2. P \subseteq Known
        BY AddsKnown
      <4> HIDE DEF P
      <4>3. Shaped(w) /\ Filled(w)
        BY <1>0, <4>2, WithFilled, WithCarries DEF Carries
      <4> HIDE DEF w
      <4>4. Shaped(s) /\ Filled(s)
        BY <4>3, StampFilled
      <4> HIDE DEF s
      <4> QED BY <4>1, <4>4, BackfilledFilled
    <3>3. CASE Migrate(o)
      <4> DEFINE m == Migrated(db, target[o])
      <4>1. target[o] \in 1..Latest /\ db' = [m EXCEPT !.version = target[o]]
        BY <1>0, <3>3 DEF Migrate, Stamped
      <4>2. Shaped(m) /\ Filled(m)
        BY <1>0, <4>1, MigratedFilled, MigratedFollows DEF Follows
      <4> HIDE DEF m
      <4> QED BY <4>1, <4>2, StampFilled
    <3>4. CASE AddCanonicalColumn(o)
      <4>1. {"canonical_exchange_id"} \subseteq Known
        BY AddsKnown
      <4> QED BY <1>0, <3>4, <4>1, WithFilled DEF AddCanonicalColumn
    <3>5. CASE AddCanonicalIndex(o)
      <4>1. {"canonical_index"} \subseteq Known
        BY AddsKnown
      <4> QED BY <1>0, <3>5, <4>1, WithFilled DEF AddCanonicalIndex
    <3>6. CASE Backfill(o)
      <4> DEFINE P == {"canonical_exchange_id", "canonical_index"}
                 missing == Has(db, "exchanges") /\ ~Has(db, "canonical_exchange_id")
                 w == IF missing THEN With(db, P) ELSE db
      <4>1. db' = Backfilled(w)
        BY <3>6 DEF Backfill
      <4>2. P \subseteq Known
        BY AddsKnown
      <4> HIDE DEF P, missing
      <4>3. Shaped(With(db, P)) /\ Filled(With(db, P))
        BY <1>0, <4>2, WithFilled, WithCarries DEF Carries
      <4>4. Shaped(w) /\ Filled(w)
        BY <1>0, <4>3
      <4> HIDE DEF w
      <4> QED BY <4>1, <4>4, BackfilledFilled
    <3>7. CASE Ingest(o)
      <4>1. PICK e \in Exchanges \ Stored(db) : \E row :
              db' = [db EXCEPT !.rows = [x \in Stored(db) \cup {e} |->
                                           IF x = e THEN row ELSE db.rows[x]],
                               !.sessions = @ \cup {<<Inferred(e), e>>}]
        BY <3>7 DEF Ingest
      <4>2. PICK row :
              db' = [db EXCEPT !.rows = [x \in Stored(db) \cup {e} |->
                                           IF x = e THEN row ELSE db.rows[x]],
                               !.sessions = @ \cup {<<Inferred(e), e>>}]
        BY <4>1
      <4> DEFINE X == Stored(db) \cup {e}
                 R == [x \in X |-> IF x = e THEN row ELSE db.rows[x]]
                 S == db.sessions \cup {<<Inferred(e), e>>}
                 w == [db EXCEPT !.rows = R]
      <4>3. DOMAIN R = X /\ X \subseteq Exchanges
        BY <1>0 DEF Filled
      <4>4. S \subseteq Harnesses \X Exchanges
        BY <1>0 DEF Filled, Inferred, Harnesses
      <4>5. db' = [w EXCEPT !.sessions = @ \cup {<<Inferred(e), e>>}]
        BY <4>2
      <4> HIDE DEF R, X
      <4>6. w = [version |-> db.version, parts |-> db.parts, rows |-> R,
                 sessions |-> db.sessions, palace |-> db.palace, symbols |-> db.symbols,
                 files |-> db.files, touches |-> db.touches, edges |-> db.edges,
                 done |-> db.done]
        BY <1>0 DEF Shaped
      <4> HIDE DEF w
      <4>7. db' = [w EXCEPT !.sessions = S]
        BY <4>5, <4>6
      <4> HIDE DEF S
      <4>8. /\ db'.rows = R /\ db'.sessions = S /\ db'.parts = db.parts
            /\ db'.palace = db.palace /\ db'.symbols = db.symbols /\ db'.files = db.files
            /\ db'.touches = db.touches /\ db'.edges = db.edges /\ db'.done = db.done
        BY <4>6, <4>7
      <4> QED BY <1>0, <4>3, <4>4, <4>8 DEF Filled, Stored
    <3>8. CASE UNCHANGED db
      BY <1>0, <3>8
    <3> QED BY <1>2, <3>1, <3>2, <3>3, <3>4, <3>5, <3>6, <3>7, <3>8
            DEF Step, Open, ReadVersion, FailMigration, Close, Crash
  <2> QED BY <2>2, <2>3, <2>4, <2>5, <2>6 DEF Types, Filled, Stored
<1> QED BY <1>1, <1>2 DEF Next

-----------------------------------------------------------------------------
(* What holds of every opening                                             *)

\* The version of a database promises nothing of its tables and rows that has
\* not been done, whoever migrates it, from whatever version, killed anywhere.
THEOREM PromisesKept == Spec => []VersionKeepsItsPromises
<1>1. IInv => VersionKeepsItsPromises
  <2> SUFFICES ASSUME IInv, found # NoDatabase, NEW n \in 1..db.version
               PROVE  Promise(n, db)
    BY DEF VersionKeepsItsPromises
  <2>1. n \in 1..Latest /\ Reached(n)
    BY DEF IInv, Places, Reached, Latest
  <2> QED BY <2>1, PromiseIsOwed DEF IInv, Upgrading
<1> QED BY <1>1, Invariance, PTL

\* The symbols of a palace object found lead to its exchange after any number
\* of migrations, also repeated ones.
THEOREM SymbolsSurvive == Spec => []SymbolsCarriedOver
<1>1. IInv => SymbolsCarriedOver
  BY DEF IInv, Carried, SymbolsCarriedOver
<1> QED BY <1>1, Invariance, PTL

\* When a command works with the database, every exchange with files found in
\* it has an edge.
THEOREM FilesHaveEdges == Spec => []FilesReachable
<1>1. IInv => FilesReachable
  BY DEF IInv, Carried, Marked, Reach, FilesReachable
<1> QED BY <1>1, Invariance, PTL

\* A row that is distilled and has its palace object is never reset.
THEOREM NeverDistilledAgain == Spec => DistilledStays
<1>1. IInv /\ [Next]_vars => [KeepsDistilled]_vars
  BY Inductive
<1>2. [][KeepsDistilled]_vars <=> DistilledStays
  BY PTL DEF KeepsDistilled, DistilledStays
<1> QED BY <1>1, <1>2, Invariance, PTL DEF Spec

\* Nothing is ever in the database that the program does not know, and nothing
\* in it belongs to an exchange that is none.
THEOREM TypeCorrect == Spec => []TypeOK
<1>1. Init => IInv /\ Types
  BY Initial, InitTypes
<1>2. IInv /\ Types /\ [Next]_vars => (IInv /\ Types)'
  BY Inductive, StepTypes
<1>3. IInv /\ Types => TypeOK
  BY TypesAre
<1> QED BY <1>1, <1>2, <1>3, PTL DEF Spec
=============================================================================
