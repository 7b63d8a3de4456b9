------------------------ MODULE CodeProvenanceProofs ------------------------
(***************************************************************************)
(* Proofs about CodeProvenance, for any paths, names, sessions, layouts and*)
(* bounds: what leads to an exchange from the files it wrote, the names    *)
(* they have now and the symbols it rewrote, what edges may name, what     *)
(* moves a symbol, and how often a call is counted.                        *)
(***************************************************************************)
EXTENDS CodeProvenance, FiniteSetTheorems, WellFoundedInduction, TLAPS

-----------------------------------------------------------------------------
(* Least and greatest elements                                             *)

\* A nonempty set of naturals has a least element.
LEMMA LeastElement ==
  ASSUME NEW T \in SUBSET Nat, T # {}
  PROVE  \E x \in T : \A y \in T : x <= y
<1> DEFINE R == OpToRel(<, Nat)
<1>1. IsWellFoundedOn(R, Nat)
  BY NatLessThanWellFounded
<1>2. PICK x \in T : \A y \in T : ~ (<<y, x>> \in R)
  <2> HIDE DEF R
  <2> QED BY <1>1, WFMin
<1>3. \A a, b \in Nat : (<<a, b>> \in R) <=> a < b
  BY DEF OpToRel
<1> HIDE DEF R
<1>4. ASSUME NEW y \in T PROVE x <= y
  <2>1. x \in Nat /\ y \in Nat
    OBVIOUS
  <2>2. ~ (y < x)
    BY <1>2, <1>3, <2>1
  <2> QED BY <2>1, <2>2
<1> QED BY <1>4

\* A nonempty bounded set of naturals has a greatest element.
LEMMA GreatestElement ==
  ASSUME NEW n \in Nat, NEW T \in SUBSET (0..n), T # {}
  PROVE  \E x \in T : \A y \in T : y <= x
<1> DEFINE U == {n - t : t \in T}
<1>1. U \in SUBSET Nat
  OBVIOUS
<1>2. U # {}
  OBVIOUS
<1>3. PICK u \in U : \A v \in U : u <= v
  <2> HIDE DEF U
  <2> QED BY <1>1, <1>2, LeastElement
<1>4. PICK x \in T : u = n - x
  OBVIOUS
<1>5. ASSUME NEW y \in T PROVE y <= x
  <2>1. n - x <= n - y
    BY <1>3, <1>4
  <2>2. x \in Int /\ y \in Int
    OBVIOUS
  <2> QED BY <2>1, <2>2
<1> QED BY <1>5


-----------------------------------------------------------------------------
(* Tables                                                                  *)

LEMMA WithNewKeeps ==
  ASSUME NEW old, NEW new
  PROVE  /\ DOMAIN WithNew(old, new) = DOMAIN old \cup DOMAIN new
         /\ \A k \in DOMAIN old : WithNew(old, new)[k] = old[k]
         /\ \A k \in DOMAIN new \ DOMAIN old : WithNew(old, new)[k] = new[k]
BY DEF WithNew

LEMMA ReplacedKeeps ==
  ASSUME NEW old, NEW found
  PROVE  /\ DOMAIN SymbolsReplaced(old, found) = DOMAIN old \cup DOMAIN found
         /\ \A k \in DOMAIN old \ DOMAIN found : SymbolsReplaced(old, found)[k] = old[k]
BY WithNewKeeps DEF SymbolsReplaced

LEMMA FilledInKeeps ==
  ASSUME NEW old, NEW new
  PROVE  /\ DOMAIN SymbolsFilledIn(old, new) = DOMAIN old \cup DOMAIN new
         /\ \A k \in DOMAIN old : SymbolsFilledIn(old, new)[k] = old[k]
BY WithNewKeeps DEF SymbolsFilledIn

-----------------------------------------------------------------------------
(* What storing an exchange adds, whichever files it is matched with       *)

LinksOf(e, layouts, i) ==
    {Edge(e, log[e].touches[i].path, n, "edit") : n \in TouchToEdges(log[e].touches[i], layouts[i])}

FoundAt(e, layouts, i) == {log[e].touches[i].path} \X ToSet(layouts[i])

NewEdges(e, layouts) == UNION {LinksOf(e, layouts, i) : i \in NewTouches(log[e].touches)}

NewSymbols(e, layouts) == UNION {FoundAt(e, layouts, i) : i \in NewTouches(log[e].touches)}

LEMMA PersistAdds ==
  ASSUME NEW e, NEW layouts, PersistArtifacts(e, layouts)
  PROVE  /\ DOMAIN symbols' = DOMAIN symbols \cup NewSymbols(e, layouts)
         /\ \A k \in DOMAIN symbols : symbols'[k] # symbols[k] => k \in NewSymbols(e, layouts)
         /\ DOMAIN edges' = DOMAIN edges \cup NewEdges(e, layouts)
         /\ \A k \in DOMAIN edges : edges'[k] = edges[k]
         /\ \A k \in DOMAIN edges' \ DOMAIN edges :
              edges'[k] = Cardinality({i \in NewTouches(log[e].touches) : k \in LinksOf(e, layouts, i)})
         /\ touches' = touches \cup Rows(e, NewTouches(log[e].touches))
<1> DEFINE S == NewTouches(log[e].touches)
           found == [k \in UNION {FoundAt(e, layouts, i) : i \in S} |->
                       LineOf(k[2], layouts[Max({i \in S : k \in FoundAt(e, layouts, i)})])]
           linked == [k \in UNION {LinksOf(e, layouts, i) : i \in S} |->
                        Cardinality({i \in S : k \in LinksOf(e, layouts, i)})]
<1>1. symbols' = SymbolsReplaced(symbols, found)
  BY DEF PersistArtifacts, FoundAt
<1>2. edges' = WithNew(edges, linked)
  BY DEF PersistArtifacts, LinksOf
<1>3. touches' = touches \cup Rows(e, S)
  BY DEF PersistArtifacts
<1>4. DOMAIN found = UNION {FoundAt(e, layouts, i) : i \in S}
  OBVIOUS
<1>5. /\ DOMAIN linked = UNION {LinksOf(e, layouts, i) : i \in S}
      /\ \A k \in DOMAIN linked : linked[k] = Cardinality({i \in S : k \in LinksOf(e, layouts, i)})
  OBVIOUS
<1> HIDE DEF S, found, linked
<1>6. /\ DOMAIN symbols' = DOMAIN symbols \cup DOMAIN found
      /\ \A k \in DOMAIN symbols \ DOMAIN found : symbols'[k] = symbols[k]
  BY <1>1, ReplacedKeeps
<1>7. /\ DOMAIN edges' = DOMAIN edges \cup DOMAIN linked
      /\ \A k \in DOMAIN edges : edges'[k] = edges[k]
      /\ \A k \in DOMAIN linked \ DOMAIN edges : edges'[k] = linked[k]
  <2>1. /\ DOMAIN WithNew(edges, linked) = DOMAIN edges \cup DOMAIN linked
        /\ \A k \in DOMAIN edges : WithNew(edges, linked)[k] = edges[k]
        /\ \A k \in DOMAIN linked \ DOMAIN edges : WithNew(edges, linked)[k] = linked[k]
    BY WithNewKeeps
  <2> QED BY <1>2, <2>1
<1> QED BY <1>3, <1>4, <1>5, <1>6, <1>7 DEF S, NewEdges, NewSymbols

\* A symbol an edge names is among those of the file it was matched with.
LEMMA LinksAreFound ==
  ASSUME NEW e, NEW layouts, NEW i, NEW k \in LinksOf(e, layouts, i), k.name # None
  PROVE  <<k.path, k.name>> \in FoundAt(e, layouts, i)
<1>1. PICK n \in TouchToEdges(log[e].touches[i], layouts[i]) :
        k = Edge(e, log[e].touches[i].path, n, "edit")
  BY DEF LinksOf
<1>2. n # None /\ k.path = log[e].touches[i].path /\ k.name = n
  BY <1>1 DEF Edge
<1>3. n \in ToSet(layouts[i])
  BY <1>1, <1>2 DEF TouchToEdges, IntersectSpan, ToSet
<1> QED BY <1>2, <1>3 DEF FoundAt

-----------------------------------------------------------------------------
(* Symbols                                                                 *)

\* The two ways an exchange's artifacts are stored.
Persists(e) == \E layouts : PersistArtifacts(e, layouts)

\* The steps that change no table: of the agent, the user and git, and of a version
\* that stored files only.
Quiet ==
    \/ \E s \in Sessions : Edit(s) \/ Move(s)
    \/ UserMove \/ Commit
    \/ \E e \in 1..MaxExchanges : IngestFilesOnly(e)

LEMMA QuietChangesNothing == Quiet => UNCHANGED <<touches, symbols, edges>>
BY DEF Quiet, Edit, Move, UserMove, Commit, IngestFilesOnly, db

LEMMA Cases ==
  ASSUME [Next]_vars
  PROVE  \/ UNCHANGED vars
         \/ Quiet
         \/ Upgrade
         \/ \E e \in 1..MaxExchanges : Store(e) /\ Persists(e)
         \/ \E e \in 1..MaxExchanges : Distill(e)
BY DEF Next, Quiet, Ingest, IngestAgainstLive, Persists

\* What the backfill of old touches adds.
DatedEdges ==
    UNION {{Edge(r.e, r.touch.path, n, "edit") :
              n \in IntersectSpan(r.touch, BatchResolve(r.touch.path, r.touch.ts))} : r \in Datable}

DatedSymbols ==
    UNION {{r.touch.path} \X ToSet(BatchResolve(r.touch.path, r.touch.ts)) : r \in Datable}

BareEdges ==
    UNION {{Edge(e, p, None, "mention") : p \in Files(e)} : e \in stored \ {k.e : k \in DOMAIN edges}}

LEMMA UpgradeAdds ==
  ASSUME Upgrade
  PROVE  /\ DOMAIN edges' = DOMAIN edges \cup BareEdges \cup DatedEdges
         /\ \A k \in DOMAIN edges : edges'[k] = edges[k]
         /\ \A k \in BareEdges \ DOMAIN edges : edges'[k] = 0
         /\ \A k \in DatedEdges \ (DOMAIN edges \cup BareEdges) : edges'[k] = 1
         /\ DOMAIN symbols' = DOMAIN symbols \cup DatedSymbols
         /\ \A k \in DOMAIN symbols : symbols'[k] = symbols[k]
<1> DEFINE bare == [k \in BareEdges |-> 0]
           dated == [k \in DatedEdges |-> 1]
           M == MentionEdges(edges)
<1>1. edges' = WithNew(M, dated)
  BY DEF Upgrade, DatedEdges
<1>2. M = WithNew(edges, bare)
  BY DEF MentionEdges, BareEdges
<1>3. PICK line : DOMAIN line = DatedSymbols /\ symbols' = SymbolsFilledIn(symbols, line)
  BY DEF Upgrade, DatedSymbols
<1>4. /\ DOMAIN symbols' = DOMAIN symbols \cup DatedSymbols
      /\ \A k \in DOMAIN symbols : symbols'[k] = symbols[k]
  BY <1>3, FilledInKeeps
<1>5. DOMAIN bare = BareEdges /\ \A k \in BareEdges : bare[k] = 0
  OBVIOUS
<1>6. DOMAIN dated = DatedEdges /\ \A k \in DatedEdges : dated[k] = 1
  OBVIOUS
<1> HIDE DEF bare, dated, M
<1>7. /\ DOMAIN M = DOMAIN edges \cup BareEdges
      /\ \A k \in DOMAIN edges : M[k] = edges[k]
      /\ \A k \in BareEdges \ DOMAIN edges : M[k] = 0
  <2>1. /\ DOMAIN WithNew(edges, bare) = DOMAIN edges \cup DOMAIN bare
        /\ \A k \in DOMAIN edges : WithNew(edges, bare)[k] = edges[k]
        /\ \A k \in DOMAIN bare \ DOMAIN edges : WithNew(edges, bare)[k] = bare[k]
    BY WithNewKeeps
  <2> QED BY <1>2, <1>5, <2>1
<1>8. /\ DOMAIN edges' = DOMAIN M \cup DatedEdges
      /\ \A k \in DOMAIN M : edges'[k] = M[k]
      /\ \A k \in DatedEdges \ DOMAIN M : edges'[k] = 1
  <2>1. /\ DOMAIN WithNew(M, dated) = DOMAIN M \cup DOMAIN dated
        /\ \A k \in DOMAIN M : WithNew(M, dated)[k] = M[k]
        /\ \A k \in DOMAIN dated \ DOMAIN M : WithNew(M, dated)[k] = dated[k]
    BY WithNewKeeps
  <2> QED BY <1>1, <1>6, <2>1
<1> QED BY <1>4, <1>7, <1>8

LEMMA DatedAreKnown ==
  ASSUME NEW k \in DatedEdges
  PROVE  <<k.path, k.name>> \in DatedSymbols
<1>1. PICK r \in Datable : \E n \in IntersectSpan(r.touch, BatchResolve(r.touch.path, r.touch.ts)) :
        k = Edge(r.e, r.touch.path, n, "edit")
  BY DEF DatedEdges
<1>2. k.path = r.touch.path /\ k.name \in IntersectSpan(r.touch, BatchResolve(r.touch.path, r.touch.ts))
  BY <1>1 DEF Edge
<1>3. k.name \in ToSet(BatchResolve(r.touch.path, r.touch.ts))
  BY <1>2 DEF IntersectSpan, ToSet
<1> QED BY <1>2, <1>3 DEF DatedSymbols

Spoken(e) == {k \in Files(e) \X log[e].mentions : k[2] \in ToSet(live[k[1]].layout)}

SpokenEdges(e) == {Edge(e, x[1], x[2], "distill") : x \in Spoken(e)}

LEMMA DistillAdds ==
  ASSUME NEW e, Distill(e)
  PROVE  /\ DOMAIN edges' = DOMAIN edges \cup SpokenEdges(e)
         /\ \A k \in DOMAIN edges : edges'[k] = edges[k]
         /\ \A k \in SpokenEdges(e) \ DOMAIN edges : edges'[k] = 0
         /\ DOMAIN symbols' = DOMAIN symbols \cup Spoken(e)
         /\ \A k \in DOMAIN symbols : symbols'[k] = symbols[k]
<1> DEFINE new == SpokenEdges(e)
           zero == [k \in new |-> 0]
           line == [k \in Spoken(e) |-> LineOf(k[2], live[k[1]].layout)]
<1>1. edges' = WithNew(edges, zero)
  BY DEF Distill, Spoken, SpokenEdges
<1>2. symbols' = SymbolsFilledIn(symbols, line)
  BY DEF Distill, Spoken
<1>3. DOMAIN zero = new /\ \A k \in new : zero[k] = 0
  OBVIOUS
<1>4. DOMAIN line = Spoken(e)
  OBVIOUS
<1> HIDE DEF zero, line, new
<1>5. /\ DOMAIN WithNew(edges, zero) = DOMAIN edges \cup DOMAIN zero
      /\ \A k \in DOMAIN edges : WithNew(edges, zero)[k] = edges[k]
      /\ \A k \in DOMAIN zero \ DOMAIN edges : WithNew(edges, zero)[k] = zero[k]
  BY WithNewKeeps
<1>6. /\ DOMAIN edges' = DOMAIN edges \cup new
      /\ \A k \in DOMAIN edges : edges'[k] = edges[k]
      /\ \A k \in new \ DOMAIN edges : edges'[k] = 0
  BY <1>1, <1>3, <1>5
<1>7. /\ DOMAIN symbols' = DOMAIN symbols \cup Spoken(e)
      /\ \A k \in DOMAIN symbols : symbols'[k] = symbols[k]
  BY <1>2, <1>4, FilledInKeeps
<1> QED BY <1>6, <1>7 DEF new

\* Whatever adds an edge has added the symbol it names: with the edge (touches_to_edges
\* and INSERT OR REPLACE in ingest), or by INSERT OR IGNORE before (both backfills
\* and save_palace_object).
THEOREM EdgesAreKnown == Spec => []EdgesNameKnownSymbols
<1>1. Init => EdgesNameKnownSymbols
  BY DEF Init, EdgesNameKnownSymbols
<1>2. EdgesNameKnownSymbols /\ [Next]_vars => EdgesNameKnownSymbols'
  <2> SUFFICES ASSUME EdgesNameKnownSymbols, [Next]_vars PROVE EdgesNameKnownSymbols'
    OBVIOUS
  <2> USE DEF EdgesNameKnownSymbols
  <2>1. CASE UNCHANGED vars
    BY <2>1 DEF vars, db
  <2>2. CASE Quiet
    BY <2>2, QuietChangesNothing
  <2>3. CASE Upgrade
    <3>1. ASSUME NEW k \in BareEdges PROVE k.name = None
      BY DEF BareEdges, Edge
    <3> QED BY <2>3, <3>1, UpgradeAdds, DatedAreKnown
  <2>4. ASSUME NEW e \in 1..MaxExchanges, Persists(e) PROVE EdgesNameKnownSymbols'
    <3>1. PICK layouts : PersistArtifacts(e, layouts)
      BY <2>4 DEF Persists
    <3>2. /\ DOMAIN symbols' = DOMAIN symbols \cup NewSymbols(e, layouts)
          /\ DOMAIN edges' = DOMAIN edges \cup NewEdges(e, layouts)
      BY <3>1, PersistAdds
    <3>3. ASSUME NEW k \in DOMAIN edges', k.name # None
          PROVE  <<k.path, k.name>> \in DOMAIN symbols'
      <4>1. CASE k \in DOMAIN edges
        BY <3>2, <3>3, <4>1
      <4>2. CASE k \in NewEdges(e, layouts)
        <5>1. PICK i \in NewTouches(log[e].touches) : k \in LinksOf(e, layouts, i)
          BY <4>2 DEF NewEdges
        <5>2. <<k.path, k.name>> \in FoundAt(e, layouts, i)
          BY <3>3, <5>1, LinksAreFound
        <5> QED BY <3>2, <5>1, <5>2 DEF NewSymbols
      <4> QED BY <3>2, <3>3, <4>1, <4>2
    <3> QED BY <3>3
  <2>5. ASSUME NEW e \in 1..MaxExchanges, Distill(e) PROVE EdgesNameKnownSymbols'
    <3>1. ASSUME NEW k \in SpokenEdges(e) PROVE <<k.path, k.name>> \in Spoken(e)
      BY DEF SpokenEdges, Edge, Spoken
    <3> QED BY <2>5, <3>1, DistillAdds
  <2> QED BY <2>1, <2>2, <2>3, <2>4, <2>5, Cases
<1> QED BY <1>1, <1>2, PTL DEF Spec

\* INSERT OR IGNORE fills in and never puts back: a symbol `loci context` knows is
\* moved only by a newly stored exchange that edits its file.
THEOREM SymbolsStay == Spec => OnlyEditsMoveSymbols
<1> DEFINE A == \A k \in DOMAIN symbols :
                  k \notin DOMAIN symbols' \/ symbols'[k] # symbols[k] =>
                    \E e \in stored' \ stored : k[1] \in Files(e)
<1>1. [Next]_vars => [A]_vars
  <2> SUFFICES ASSUME [Next]_vars PROVE A \/ UNCHANGED vars
    OBVIOUS
  <2>1. CASE Quiet
    BY <2>1, QuietChangesNothing
  <2>2. CASE Upgrade
    BY <2>2, UpgradeAdds
  <2>3. ASSUME NEW e \in 1..MaxExchanges, Store(e), Persists(e) PROVE A
    <3>1. PICK layouts : PersistArtifacts(e, layouts)
      BY <2>3 DEF Persists
    <3>2. /\ DOMAIN symbols \subseteq DOMAIN symbols'
          /\ \A k \in DOMAIN symbols : symbols'[k] # symbols[k] => k \in NewSymbols(e, layouts)
      BY <3>1, PersistAdds
    <3>3. ASSUME NEW k \in NewSymbols(e, layouts) PROVE k[1] \in Files(e)
      BY DEF NewSymbols, FoundAt, Files, NewTouches
    <3>4. e \in stored' \ stored
      BY <2>3 DEF Store, NextOf
    <3> QED BY <3>2, <3>3, <3>4
  <2>4. ASSUME NEW e \in 1..MaxExchanges, Distill(e) PROVE A
    BY <2>4, DistillAdds
  <2> QED BY <2>1, <2>2, <2>3, <2>4, Cases
<1> QED BY <1>1, PTL DEF Spec, OnlyEditsMoveSymbols

-----------------------------------------------------------------------------
(* The log                                                                 *)

File == [layout : Seq(Names), id : Nat, moves : Nat]

Call == [path : Paths, first : Nat, last : Nat, ts : Nat, names : SUBSET Names,
         plain : BOOLEAN, file : Nat]

Exchange == [session : Sessions, touches : Seq(Call), moves : SUBSET (Paths \X Paths),
             mentions : SUBSET Names]

\* A call's time is its own, so it identifies it.
OneCall(x) ==
    \A i, j \in DOMAIN x.touches : x.touches[i].ts = x.touches[j].ts => x.touches[i] = x.touches[j]

Past(x, t) == \A i \in DOMAIN x.touches : x.touches[i].ts <= t

WorldOK ==
    /\ clock \in Nat
    /\ live \in [Paths -> File]
    /\ log \in Seq(Exchange)
    /\ stored \subseteq DOMAIN log
    /\ \A e \in DOMAIN log : Past(log[e], clock) /\ OneCall(log[e])

LEMMA EditedTypes ==
  ASSUME WorldOK, NEW p \in Paths, NEW x \in Edited(p)
  PROVE  /\ x.layout \in Seq(Names) /\ x.first \in Nat /\ x.last \in Nat
         /\ x.plain \in BOOLEAN
         /\ \A i \in x.first..x.last \ {0} : x.layout[i] \in Names
<1> DEFINE l == live[p].layout
<1>0. l \in Seq(Names) /\ DOMAIN l = 1..Len(l) /\ Len(l) \in Nat
  BY DEF WorldOK, File
<1>1. CASE \E i \in DOMAIN l : x = [layout |-> l, first |-> i, last |-> i, plain |-> TRUE]
  BY <1>0, <1>1
<1>2. CASE \E i \in 1..Len(l) + 1, n \in Names \ ToSet(l) :
             x = [layout |-> InsertAt(l, i, n), first |-> i, last |-> i, plain |-> FALSE]
  <2>1. PICK i \in 1..Len(l) + 1, n \in Names :
           x = [layout |-> InsertAt(l, i, n), first |-> i, last |-> i, plain |-> FALSE]
    BY <1>2
  <2> DEFINE before == SubSeq(l, 1, i - 1)
             after  == SubSeq(l, i, Len(l))
  <2>2. before \in Seq(Names) /\ after \in Seq(Names) /\ <<n>> \in Seq(Names)
    BY <1>0
  <2>3. Len(before) = i - 1
    BY <1>0
  <2> HIDE DEF before, after
  <2>4. before \o <<n>> \in Seq(Names) /\ Len(before \o <<n>>) = i /\ (before \o <<n>>)[i] = n
    BY <2>2, <2>3
  <2> DEFINE head == before \o <<n>>
  <2>5. InsertAt(l, i, n) = head \o after
    BY DEF InsertAt, before, after
  <2> HIDE DEF head
  <2>6. head \in Seq(Names) /\ Len(head) = i
    BY <2>4 DEF head
  <2>7. head \o after \in Seq(Names) /\ Len(head \o after) >= i
    BY <2>2, <2>6
  <2>8. (head \o after)[i] \in Names
    BY <2>7
  <2> QED BY <2>1, <2>5, <2>7, <2>8
<1>3. CASE \E i \in DOMAIN l : x = [layout |-> l, first |-> 0, last |-> 0, plain |-> FALSE]
  BY <1>0, <1>3
<1>4. CASE \E m \in Layouts : x = [layout |-> m, first |-> 1, last |-> Len(m), plain |-> FALSE]
  <2>1. PICK m \in Layouts : x = [layout |-> m, first |-> 1, last |-> Len(m), plain |-> FALSE]
    BY <1>4
  <2>2. PICK n : n \in 0..Cardinality(Names) /\ m \in [1..n -> Names]
    BY <2>1 DEF Layouts
  <2>3. m \in Seq(Names)
    BY <2>2
  <2>4. Len(m) \in Nat /\ \A i \in 1..Len(m) : m[i] \in Names
    BY <2>3
  <2> QED BY <2>1, <2>3, <2>4
<1> QED BY <1>1, <1>2, <1>3, <1>4 DEF Edited

LEMMA TouchTypes ==
  ASSUME WorldOK, CodeProvenanceAssumption, NEW p \in Paths, NEW x \in Edited(p)
  PROVE  /\ Touch(p, x) \in Call /\ Touch(p, x).ts = clock + 1
         /\ [layout |-> x.layout, id |-> Touch(p, x).file, moves |-> live[p].moves] \in File
<1>1. /\ clock \in Nat /\ live[p] \in File
  BY DEF WorldOK
<1>2. /\ x.layout \in Seq(Names) /\ x.first \in Nat /\ x.last \in Nat /\ x.plain \in BOOLEAN
      /\ \A i \in x.first..x.last \ {0} : x.layout[i] \in Names
  BY EditedTypes
<1>3. {x.layout[i] : i \in x.first..x.last \ {0}} \in SUBSET Names
  BY <1>2
<1>4. (x.plain /\ Clean(p)) \in BOOLEAN
  OBVIOUS
<1>5. (IF Exists(p) THEN live[p].id ELSE clock + 1) \in Nat
  BY <1>1 DEF File
<1> QED BY <1>1, <1>2, <1>3, <1>4, <1>5 DEF Touch, Call, File

LEMMA GrownOK ==
  ASSUME NEW e \in Exchange, NEW calls \in Seq(Call), NEW moved \in SUBSET (Paths \X Paths),
         NEW spoken \in SUBSET Names, NEW t \in Nat, Past(e, t), OneCall(e),
         \A i \in DOMAIN calls : calls[i].ts = t + 1,
         \A i, j \in DOMAIN calls : calls[i] = calls[j]
  PROVE  /\ Grown(e, calls, moved, spoken) \in Exchange
         /\ Past(Grown(e, calls, moved, spoken), t + 1)
         /\ OneCall(Grown(e, calls, moved, spoken))
<1> DEFINE g == Grown(e, calls, moved, spoken)
           old == e.touches
           new == old \o calls
<1>2. /\ old \in Seq(Call) /\ e.session \in Sessions
      /\ e.moves \in SUBSET (Paths \X Paths) /\ e.mentions \in SUBSET Names
  BY DEF Exchange
<1>1. g.touches = new /\ g \in Exchange
  <2>1. new \in Seq(Call)
    BY <1>2
  <2>2. /\ e.moves \cup moved \in SUBSET (Paths \X Paths)
        /\ e.mentions \cup spoken \in SUBSET Names
    BY <1>2
  <2>3. g = [session |-> e.session, touches |-> new, moves |-> e.moves \cup moved,
             mentions |-> e.mentions \cup spoken]
    <3> DEFINE T == Seq(Call)
               M == SUBSET (Paths \X Paths)
               N == SUBSET Names
    <3>1. e \in [session : Sessions, touches : T, moves : M, mentions : N]
      BY DEF Exchange
    <3> HIDE DEF T, M, N
    <3>2. e = [session |-> e.session, touches |-> e.touches, moves |-> e.moves,
               mentions |-> e.mentions]
      BY <3>1
    <3> DEFINE a == e.moves \cup moved
               b == e.mentions \cup spoken
    <3>3. g = [e EXCEPT !.touches = new, !.moves = a, !.mentions = b]
      BY Zenon DEF Grown
    <3> HIDE DEF g, new, a, b
    <3>4. g = [session |-> e.session, touches |-> new, moves |-> a, mentions |-> b]
      BY <3>1, <3>3
    <3> QED BY <3>4 DEF a, b
  <2> HIDE DEF g, new
  <2> QED BY <1>2, <2>1, <2>2, <2>3 DEF Exchange
<1>3. ASSUME NEW i \in DOMAIN new
      PROVE  \/ i \in DOMAIN old /\ new[i] = old[i] /\ new[i].ts <= t
             \/ i - Len(old) \in DOMAIN calls /\ new[i] = calls[i - Len(old)] /\ new[i].ts = t + 1
  BY <1>2 DEF Past
<1>4. \A i \in DOMAIN old : old[i].ts \in Nat
  <2>1. \A i \in DOMAIN old : old[i] \in Call
    BY <1>2
  <2>2. \A c \in Call : c.ts \in Nat
    BY DEF Call
  <2> QED BY <2>1, <2>2
<1> HIDE DEF g, new, old
<1>5. Past(g, t + 1)
  <2> SUFFICES ASSUME NEW i \in DOMAIN new PROVE new[i].ts <= t + 1
    BY <1>1 DEF Past
  <2> QED BY <1>3, <1>4
<1>6. OneCall(g)
  <2> SUFFICES ASSUME NEW i \in DOMAIN new, NEW j \in DOMAIN new, new[i].ts = new[j].ts
               PROVE  new[i] = new[j]
    BY <1>1 DEF OneCall
  <2>1. CASE i \in DOMAIN old /\ new[i] = old[i] /\ new[i].ts <= t
    <3>1. j \in DOMAIN old /\ new[j] = old[j]
      BY <1>3, <1>4, <2>1
    <3> QED BY <2>1, <3>1 DEF OneCall, old
  <2>2. CASE i - Len(old) \in DOMAIN calls /\ new[i] = calls[i - Len(old)] /\ new[i].ts = t + 1
    <3>1. j - Len(old) \in DOMAIN calls /\ new[j] = calls[j - Len(old)]
      BY <1>3, <1>4, <2>2
    <3> QED BY <2>2, <3>1
  <2> QED BY <1>3, <2>1, <2>2
<1> QED BY <1>1, <1>5, <1>6 DEF g

LEMMA LogsKeeps ==
  ASSUME WorldOK, NEW s \in Sessions, NEW calls \in Seq(Call),
         NEW moved \in SUBSET (Paths \X Paths), NEW spoken \in SUBSET Names,
         \A i \in DOMAIN calls : calls[i].ts = clock + 1,
         \A i, j \in DOMAIN calls : calls[i] = calls[j],
         Logs(s, calls, moved, spoken)
  PROVE  /\ log' \in Seq(Exchange)
         /\ DOMAIN log \subseteq DOMAIN log'
         /\ \A e \in DOMAIN log' : Past(log'[e], clock + 1) /\ OneCall(log'[e])
         /\ \A e \in stored : log'[e] = log[e]
<1>1. /\ clock \in Nat /\ log \in Seq(Exchange) /\ stored \subseteq DOMAIN log
      /\ \A e \in DOMAIN log : log[e] \in Exchange /\ Past(log[e], clock) /\ OneCall(log[e])
  BY DEF WorldOK
<1>2. ASSUME NEW x \in Exchange, Past(x, clock)
      PROVE  Past(x, clock + 1)
  <2>1. \A i \in DOMAIN x.touches : x.touches[i] \in Call
    BY DEF Exchange
  <2>2. \A c \in Call : c.ts \in Nat
    BY DEF Call
  <2> QED BY <1>1, <1>2, <2>1, <2>2 DEF Past
<1>3. ASSUME NEW x \in Exchange, Past(x, clock), OneCall(x)
      PROVE  /\ Grown(x, calls, moved, spoken) \in Exchange
             /\ Past(Grown(x, calls, moved, spoken), clock + 1)
             /\ OneCall(Grown(x, calls, moved, spoken))
  BY <1>1, <1>3, GrownOK
<1>4. NewExchange(s) \in Exchange /\ Past(NewExchange(s), clock) /\ OneCall(NewExchange(s))
  BY DEF NewExchange, Exchange, Past, OneCall
<1>5. CASE log' = Append(log, Grown(NewExchange(s), calls, moved, spoken))
  <2> DEFINE g == Grown(NewExchange(s), calls, moved, spoken)
  <2>1. g \in Exchange /\ Past(g, clock + 1) /\ OneCall(g)
    BY <1>3, <1>4
  <2> HIDE DEF g
  <2>2. log' = Append(log, g)
    BY <1>5 DEF g
  <2>3. /\ log' \in Seq(Exchange) /\ DOMAIN log' = DOMAIN log \cup {Len(log) + 1}
        /\ \A e \in DOMAIN log : log'[e] = log[e]
        /\ log'[Len(log) + 1] = g
    BY <1>1, <2>1, <2>2
  <2> QED BY <1>1, <1>2, <2>1, <2>3
<1>6. ASSUME NEW e \in DOMAIN log \ stored,
             log' = [log EXCEPT ![e] = Grown(log[e], calls, moved, spoken)]
      PROVE  /\ log' \in Seq(Exchange)
             /\ DOMAIN log \subseteq DOMAIN log'
             /\ \A d \in DOMAIN log' : Past(log'[d], clock + 1) /\ OneCall(log'[d])
             /\ \A d \in stored : log'[d] = log[d]
  <2> DEFINE g == Grown(log[e], calls, moved, spoken)
  <2>1. g \in Exchange /\ Past(g, clock + 1) /\ OneCall(g)
    BY <1>1, <1>3
  <2> HIDE DEF g
  <2>2. log' = [log EXCEPT ![e] = g]
    BY <1>6 DEF g
  <2>3. /\ log' \in Seq(Exchange) /\ DOMAIN log' = DOMAIN log
        /\ \A d \in DOMAIN log : d # e => log'[d] = log[d]
        /\ log'[e] = g
    BY <1>1, <2>1, <2>2
  <2> QED BY <1>1, <1>2, <2>1, <2>3
<1> QED BY <1>5, <1>6 DEF Logs

LEMMA WorldInductive ==
  ASSUME CodeProvenanceAssumption, WorldOK, [Next]_vars
  PROVE  WorldOK' /\ (\A e \in stored : log'[e] = log[e]) /\ stored \subseteq stored'
<1>0. /\ clock \in Nat /\ live \in [Paths -> File] /\ log \in Seq(Exchange)
      /\ stored \subseteq DOMAIN log
      /\ \A e \in DOMAIN log : log[e] \in Exchange /\ Past(log[e], clock) /\ OneCall(log[e])
  BY DEF WorldOK
<1>1. CASE UNCHANGED vars
  BY <1>1 DEF vars, world, db, WorldOK, Past, OneCall
<1> DEFINE Goal == WorldOK' /\ (\A e \in stored : log'[e] = log[e]) /\ stored \subseteq stored'
<1>2. ASSUME NEW s \in Sessions, Edit(s) PROVE Goal
  <2>1. PICK p \in Paths : \E x \in Edited(p) :
          /\ Logs(s, IF s \in Doubling THEN <<Touch(p, x), Touch(p, x)>> ELSE <<Touch(p, x)>>, {},
                  IF s \in Terse THEN {} ELSE Touch(p, x).names)
          /\ live' = [live EXCEPT ![p] = [layout |-> x.layout, id |-> Touch(p, x).file,
                                          moves |-> live[p].moves]]
    BY <1>2 DEF Edit
  <2>11. PICK x \in Edited(p) :
          /\ Logs(s, IF s \in Doubling THEN <<Touch(p, x), Touch(p, x)>> ELSE <<Touch(p, x)>>, {},
                  IF s \in Terse THEN {} ELSE Touch(p, x).names)
          /\ live' = [live EXCEPT ![p] = [layout |-> x.layout, id |-> Touch(p, x).file,
                                          moves |-> live[p].moves]]
    BY <2>1
  <2>2. clock' = clock + 1 /\ stored' = stored
    BY <1>2 DEF Edit, db
  <2> DEFINE t == Touch(p, x)
             calls == IF s \in Doubling THEN <<t, t>> ELSE <<t>>
             spoken == IF s \in Terse THEN {} ELSE t.names
             f == [layout |-> x.layout, id |-> t.file, moves |-> live[p].moves]
  <2>3. t \in Call /\ t.ts = clock + 1 /\ f \in File
    BY TouchTypes
  <2>4. Logs(s, calls, {}, spoken) /\ live' = [live EXCEPT ![p] = f]
    BY <2>11
  <2>5. t.names \in SUBSET Names
    BY <2>3 DEF Call
  <2> HIDE DEF t, f
  <2>6. /\ calls \in Seq(Call) /\ spoken \in SUBSET Names
        /\ \A i \in DOMAIN calls : calls[i] = t
    BY <2>3, <2>5
  <2>7. /\ \A i \in DOMAIN calls : calls[i].ts = clock + 1
        /\ \A i, j \in DOMAIN calls : calls[i] = calls[j]
    BY <2>3, <2>6
  <2>8. {} \in SUBSET (Paths \X Paths)
    OBVIOUS
  <2> HIDE DEF calls, spoken
  <2>9. /\ log' \in Seq(Exchange)
        /\ DOMAIN log \subseteq DOMAIN log'
        /\ \A e \in DOMAIN log' : Past(log'[e], clock + 1) /\ OneCall(log'[e])
        /\ \A e \in stored : log'[e] = log[e]
    BY <2>4, <2>6, <2>7, <2>8, LogsKeeps
  <2>10. live' \in [Paths -> File]
    BY <1>0, <2>3, <2>4
  <2> QED BY <1>0, <2>2, <2>9, <2>10 DEF WorldOK, Past, OneCall
<1>3. ASSUME NEW p \in Paths, NEW q \in Paths, Moved(p, q) PROVE live' \in [Paths -> File]
  <2>1. Gone \in File
    BY DEF Gone, File
  <2> DEFINE f == [live[p] EXCEPT !.moves = @ + 1]
  <2>2. f \in File
    <3> DEFINE L == Seq(Names)
    <3>1. live[p] \in [layout : L, id : Nat, moves : Nat]
      BY <1>0 DEF File
    <3> HIDE DEF L
    <3>2. f \in [layout : L, id : Nat, moves : Nat]
      BY <3>1
    <3> QED BY <3>2 DEF File, L
  <2> HIDE DEF f
  <2>3. live' = [live EXCEPT ![p] = Gone, ![q] = f]
    BY <1>3 DEF Moved, f
  <2> QED BY <1>0, <2>1, <2>2, <2>3
<1>4. ASSUME NEW s \in Sessions, Move(s) PROVE Goal
  <2>1. PICK p \in Paths, q \in Paths : Moved(p, q) /\ Logs(s, <<>>, {<<p, q>>}, {})
    BY <1>4 DEF Move
  <2>2. clock' = clock + 1 /\ stored' = stored
    BY <1>4 DEF Move, db
  <2>3. /\ <<>> \in Seq(Call) /\ {<<p, q>>} \in SUBSET (Paths \X Paths) /\ {} \in SUBSET Names
        /\ DOMAIN <<>> = {}
    OBVIOUS
  <2>4. /\ log' \in Seq(Exchange)
        /\ DOMAIN log \subseteq DOMAIN log'
        /\ \A e \in DOMAIN log' : Past(log'[e], clock + 1) /\ OneCall(log'[e])
        /\ \A e \in stored : log'[e] = log[e]
    BY <2>1, <2>3, LogsKeeps
  <2> QED BY <1>0, <1>3, <2>1, <2>2, <2>4 DEF WorldOK, Past, OneCall
<1>5. ASSUME clock' = clock + 1, UNCHANGED <<log, stored>>, live' \in [Paths -> File] PROVE Goal
  <2>1. ASSUME NEW e \in DOMAIN log PROVE Past(log[e], clock + 1)
    <3>1. log[e] \in Exchange /\ Past(log[e], clock)
      BY <1>0
    <3>2. \A i \in DOMAIN log[e].touches : log[e].touches[i] \in Call
      BY <3>1 DEF Exchange
    <3>3. \A c \in Call : c.ts \in Nat
      BY DEF Call
    <3> QED BY <1>0, <3>1, <3>2, <3>3 DEF Past
  <2> QED BY <1>0, <1>5, <2>1 DEF WorldOK, Past, OneCall
<1>6. CASE UserMove
  BY <1>3, <1>5, <1>6 DEF UserMove, db
<1>7. CASE Commit
  BY <1>0, <1>5, <1>7 DEF Commit, db
<1>8. ASSUME UNCHANGED world, stored' = stored PROVE Goal
  BY <1>8 DEF world, WorldOK, Past, OneCall
<1>9. CASE Upgrade
  BY <1>8, <1>9 DEF Upgrade
<1>10. ASSUME NEW e \in 1..MaxExchanges, Distill(e) PROVE Goal
  BY <1>8, <1>10 DEF Distill
<1>11. ASSUME NEW e \in 1..MaxExchanges, Store(e) PROVE Goal
  BY <1>11 DEF Store, NextOf, world, WorldOK, Past, OneCall
<1>12. ASSUME NEW e \in 1..MaxExchanges, Ingest(e) \/ IngestFilesOnly(e) \/ IngestAgainstLive(e)
       PROVE  Store(e)
  BY <1>12 DEF Ingest, IngestFilesOnly, IngestAgainstLive
<1> QED BY <1>1, <1>2, <1>4, <1>6, <1>7, <1>9, <1>10, <1>11, <1>12 DEF Next

-----------------------------------------------------------------------------
(* What is stored of an exchange leads to it                               *)

TouchesLogged ==
    \A r \in touches : r.e \in stored /\ \E i \in DOMAIN log[r.e].touches : r.touch = log[r.e].touches[i]

EdgesStored == \A k \in DOMAIN edges : k.e \in stored

HasEdge(e) == \E k \in DOMAIN edges : k.e = e

\* Once an exchange has an edge, or the database is this version's, it has one for
\* every file it wrote.
Linked ==
    \A e \in stored : upgraded \/ HasEdge(e) =>
        \A p \in Files(e) : \E k \in DOMAIN edges : k.e = e /\ k.path = p

Counted ==
    \A k \in DOMAIN edges : edges[k] \in Nat /\ edges[k] <= Cardinality(CallsTo(k.e, k.path))

IInv == WorldOK /\ TouchesLogged /\ EdgesStored /\ Linked /\ Counted

LEMMA Logged ==
  ASSUME WorldOK, NEW e \in DOMAIN log
  PROVE  /\ log[e].touches \in Seq(Call) /\ OneCall(log[e])
         /\ DOMAIN log[e].touches = 1..Len(log[e].touches) /\ Len(log[e].touches) \in Nat
<1>1. log[e] \in Exchange /\ OneCall(log[e])
  BY DEF WorldOK
<1>2. log[e].touches \in Seq(Call)
  BY <1>1 DEF Exchange
<1> QED BY <1>1, <1>2

\* A file an exchange wrote is the file of a touch that is stored: the first of
\* those that log the same call.
LEMMA NewTouchOfFile ==
  ASSUME WorldOK, NEW e \in DOMAIN log, NEW p \in Files(e)
  PROVE  \E i \in NewTouches(log[e].touches) : log[e].touches[i].path = p
<1> DEFINE ts == log[e].touches
<1>1. ts \in Seq(Call) /\ OneCall(log[e])
  BY Logged
<1>2. PICK j \in DOMAIN ts : ts[j].path = p
  BY DEF Files
<1> DEFINE T == {i \in DOMAIN ts : ts[i].ts = ts[j].ts}
<1>3. T \in SUBSET Nat /\ T # {} /\ DOMAIN ts = 1..Len(ts)
  BY <1>1, <1>2
<1>4. PICK i \in T : \A k \in T : i <= k
  <2> HIDE DEF T
  <2> QED BY <1>3, LeastElement
<1>5. ts[i] = ts[j]
  BY <1>1, <1>2, <1>4 DEF OneCall
<1>6. i \in NewTouches(ts)
  <2>1. ASSUME NEW k \in 1..i - 1 PROVE ts[k].ts # ts[i].ts
    <3>1. k \in DOMAIN ts /\ ~(i <= k)
      BY <1>1, <1>3, <1>4
    <3> QED BY <1>4, <3>1
  <2> QED BY <1>4, <2>1 DEF NewTouches
<1> QED BY <1>2, <1>5, <1>6

LEMMA CallsFinite ==
  ASSUME WorldOK, NEW e \in DOMAIN log, NEW p
  PROVE  IsFiniteSet(CallsTo(e, p)) /\ Cardinality(CallsTo(e, p)) \in Nat
<1> DEFINE ts == log[e].touches
           D == {j \in DOMAIN ts : ts[j].path = p}
           C == CallsTo(e, p)
           f == [i \in D |-> ts[i].ts]
<1>1. ts \in Seq(Call) /\ DOMAIN ts = 1..Len(ts) /\ Len(ts) \in Nat
  BY Logged
<1>2. Len(ts) \in Nat /\ D \in SUBSET (1..Len(ts))
  BY <1>1
<1>3. IsFiniteSet(1..Len(ts))
  BY <1>2, FS_Interval
<1>4. IsFiniteSet(D)
  BY <1>2, <1>3, FS_Subset
<1>5. C = {ts[i].ts : i \in D}
  BY DEF CallsTo
<1>6. f \in Surjection(D, C)
  BY <1>5 DEF Surjection
<1> HIDE DEF D, C, f
<1>7. IsFiniteSet(C)
  BY <1>4, <1>6, FS_Surjection
<1> QED BY <1>7, FS_CardinalityType DEF C

\* Touches that are stored have ids of their own, so what they add to one file is at
\* most one each for the calls on it.
LEMMA LinksCount ==
  ASSUME WorldOK, NEW e \in DOMAIN log, NEW layouts, NEW k
  PROVE  /\ Cardinality({i \in NewTouches(log[e].touches) : k \in LinksOf(e, layouts, i)}) \in Nat
         /\ Cardinality({i \in NewTouches(log[e].touches) : k \in LinksOf(e, layouts, i)})
              <= Cardinality(CallsTo(e, k.path))
<1> DEFINE ts == log[e].touches
           S == {i \in NewTouches(ts) : k \in LinksOf(e, layouts, i)}
           C == CallsTo(e, k.path)
           f == [i \in S |-> ts[i].ts]
<1>1. ts \in Seq(Call) /\ DOMAIN ts = 1..Len(ts) /\ Len(ts) \in Nat
  BY Logged
<1>2. ASSUME NEW i \in S PROVE i \in 1..Len(ts) /\ ts[i].path = k.path /\ ts[i].ts \in C
  <2>1. i \in DOMAIN ts /\ k \in LinksOf(e, layouts, i)
    BY DEF NewTouches
  <2>2. ts[i].path = k.path
    BY <2>1 DEF LinksOf, Edge
  <2> QED BY <1>1, <2>1, <2>2 DEF CallsTo
<1>3. ASSUME NEW i \in S, NEW j \in S, ts[i].ts = ts[j].ts PROVE i = j
  <2>1. i \in 1..Len(ts) /\ j \in 1..Len(ts) /\ i \in NewTouches(ts) /\ j \in NewTouches(ts)
    BY <1>2
  <2>2. ~(i < j)
    <3> SUFFICES ASSUME i < j PROVE FALSE
      OBVIOUS
    <3>1. i \in 1..j - 1
      BY <2>1
    <3> QED BY <1>3, <2>1, <3>1 DEF NewTouches
  <2>3. ~(j < i)
    <3> SUFFICES ASSUME j < i PROVE FALSE
      OBVIOUS
    <3>1. j \in 1..i - 1
      BY <2>1
    <3> QED BY <1>3, <2>1, <3>1 DEF NewTouches
  <2> QED BY <1>1, <2>1, <2>2, <2>3
<1>4. f \in Injection(S, C)
  <2>1. f \in [S -> C]
    BY <1>2
  <2>2. IsInjective(f)
    BY <1>3 DEF IsInjective
  <2> HIDE DEF S, C, f
  <2> QED BY <2>1, <2>2 DEF Injection
<1>5. IsFiniteSet(C)
  BY CallsFinite
<1> HIDE DEF S, C, f
<1>6. IsFiniteSet(S) /\ Cardinality(S) <= Cardinality(C)
  BY <1>4, <1>5, FS_Injection
<1>7. Cardinality(S) \in Nat
  BY <1>6, FS_CardinalityType
<1> QED BY <1>6, <1>7 DEF S, C

LEMMA QuietStores ==
  ASSUME Quiet
  PROVE  \/ UNCHANGED <<stored, upgraded>>
         \/ ~upgraded' /\ \E e : e \notin stored /\ stored' = stored \cup {e}
BY DEF Quiet, Edit, Move, UserMove, Commit, IngestFilesOnly, Store, NextOf, db

LEMMA IInvInductive ==
  ASSUME CodeProvenanceAssumption, IInv, [Next]_vars
  PROVE  IInv'
<1>0. WorldOK /\ TouchesLogged /\ EdgesStored /\ Linked /\ Counted
  BY DEF IInv
<1>1. WorldOK' /\ (\A e \in stored : log'[e] = log[e]) /\ stored \subseteq stored'
  BY <1>0, WorldInductive
<1>2. stored \subseteq DOMAIN log
  BY <1>0 DEF WorldOK
<1>3. ASSUME NEW e \in stored, NEW p
      PROVE  Files(e)' = Files(e) /\ CallsTo(e, p)' = CallsTo(e, p)
  BY <1>1 DEF Files, CallsTo
\* The conjuncts, for steps that add rows and change none.
<1>4. ASSUME touches' = touches PROVE TouchesLogged'
  BY <1>0, <1>1, <1>4 DEF TouchesLogged
<1>5. ASSUME DOMAIN edges \subseteq DOMAIN edges',
             \A k \in DOMAIN edges : edges'[k] = edges[k],
             \A k \in DOMAIN edges' \ DOMAIN edges :
               edges'[k] \in Nat /\ edges'[k] <= Cardinality(CallsTo(k.e, k.path)')
      PROVE  Counted'
  <2> SUFFICES ASSUME NEW k \in DOMAIN edges'
               PROVE  edges'[k] \in Nat /\ edges'[k] <= Cardinality(CallsTo(k.e, k.path)')
    BY DEF Counted
  <2>1. CASE k \in DOMAIN edges
    <3>1. k.e \in stored
      BY <1>0, <2>1 DEF EdgesStored
    <3>2. CallsTo(k.e, k.path)' = CallsTo(k.e, k.path)
      BY <1>3, <3>1
    <3>3. edges[k] \in Nat /\ edges[k] <= Cardinality(CallsTo(k.e, k.path))
      BY <1>0, <2>1 DEF Counted
    <3> QED BY <1>5, <2>1, <3>2, <3>3
  <2> QED BY <1>5, <2>1
<1>6. CASE UNCHANGED vars
  BY <1>1, <1>6, <1>0 DEF IInv, vars, world, db, TouchesLogged, EdgesStored, Linked, HasEdge, Files,
     Counted, CallsTo
<1>7. CASE Quiet
  <2>1. UNCHANGED <<touches, edges>>
    BY <1>7, QuietChangesNothing
  <2>2. TouchesLogged' /\ Counted'
    BY <1>4, <1>5, <2>1
  <2>3. EdgesStored'
    BY <1>0, <1>1, <2>1 DEF EdgesStored
  <2>4. Linked'
    <3> SUFFICES ASSUME NEW e \in stored', upgraded' \/ HasEdge(e)', NEW p \in Files(e)'
                 PROVE  \E k \in DOMAIN edges : k.e = e /\ k.path = p
      BY <2>1 DEF Linked
    <3>1. e \in stored /\ (upgraded \/ HasEdge(e))
      BY <1>0, <1>7, <2>1, QuietStores DEF HasEdge, EdgesStored
    <3> QED BY <1>0, <1>3, <3>1 DEF Linked
  <2> QED BY <1>1, <2>2, <2>3, <2>4 DEF IInv
<1>8. CASE Upgrade
  <2>1. /\ DOMAIN edges' = DOMAIN edges \cup BareEdges \cup DatedEdges
        /\ \A k \in DOMAIN edges : edges'[k] = edges[k]
        /\ \A k \in BareEdges \ DOMAIN edges : edges'[k] = 0
        /\ \A k \in DatedEdges \ (DOMAIN edges \cup BareEdges) : edges'[k] = 1
    BY <1>8, UpgradeAdds
  <2>2. stored' = stored /\ touches' = touches /\ log' = log
    BY <1>8 DEF Upgrade, world
  <2>3. ASSUME NEW k \in BareEdges PROVE k.e \in stored
    BY DEF BareEdges, Edge
  <2>4. ASSUME NEW k \in DatedEdges
        PROVE  k.e \in stored /\ CallsTo(k.e, k.path) # {}
    <3>1. PICK r \in touches : k.e = r.e /\ k.path = r.touch.path
      BY DEF DatedEdges, Datable, Edge
    <3>2. PICK i \in DOMAIN log[r.e].touches : r.touch = log[r.e].touches[i]
      BY <1>0 DEF TouchesLogged
    <3>3. log[r.e].touches[i].ts \in CallsTo(k.e, k.path)
      BY <3>1, <3>2 DEF CallsTo
    <3> QED BY <1>0, <3>1, <3>3 DEF TouchesLogged
  <2>5. ASSUME NEW k \in DOMAIN edges' \ DOMAIN edges
        PROVE  edges'[k] \in Nat /\ edges'[k] <= Cardinality(CallsTo(k.e, k.path)')
    <3>1. k.e \in stored
      BY <2>1, <2>3, <2>4
    <3>2. /\ IsFiniteSet(CallsTo(k.e, k.path)) /\ Cardinality(CallsTo(k.e, k.path)) \in Nat
          /\ CallsTo(k.e, k.path)' = CallsTo(k.e, k.path)
      BY <1>0, <1>2, <1>3, <3>1, CallsFinite
    <3>3. CASE k \in BareEdges
      BY <2>1, <3>2, <3>3
    <3>4. CASE k \in DatedEdges \ BareEdges
      <4>1. Cardinality(CallsTo(k.e, k.path)) # 0
        BY <2>4, <3>2, <3>4, FS_EmptySet
      <4> QED BY <2>1, <3>2, <3>4, <4>1
    <3> QED BY <2>1, <3>3, <3>4
  <2>6. TouchesLogged' /\ Counted'
    BY <1>4, <1>5, <2>1, <2>2, <2>5
  <2>7. EdgesStored'
    BY <1>0, <2>1, <2>2, <2>3, <2>4 DEF EdgesStored
  <2>8. Linked'
    <3> SUFFICES ASSUME NEW e \in stored, NEW p \in Files(e)
                 PROVE  \E k \in DOMAIN edges' : k.e = e /\ k.path = p
      BY <1>3, <2>2 DEF Linked
    <3>1. CASE HasEdge(e)
      BY <1>0, <2>1, <3>1 DEF Linked
    <3>2. CASE ~HasEdge(e)
      <4>1. Edge(e, p, None, "mention") \in BareEdges
        BY <3>2 DEF BareEdges, HasEdge
      <4> QED BY <2>1, <4>1 DEF Edge
    <3> QED BY <3>1, <3>2
  <2> QED BY <1>1, <2>6, <2>7, <2>8 DEF IInv
<1>9. ASSUME NEW e \in 1..MaxExchanges, Store(e), Persists(e) PROVE IInv'
  <2>1. PICK layouts : PersistArtifacts(e, layouts)
    BY <1>9 DEF Persists
  <2>2. /\ DOMAIN edges' = DOMAIN edges \cup NewEdges(e, layouts)
        /\ \A k \in DOMAIN edges : edges'[k] = edges[k]
        /\ \A k \in DOMAIN edges' \ DOMAIN edges :
             edges'[k] = Cardinality({i \in NewTouches(log[e].touches) : k \in LinksOf(e, layouts, i)})
        /\ touches' = touches \cup Rows(e, NewTouches(log[e].touches))
    BY <2>1, PersistAdds
  <2>3. /\ e \in DOMAIN log \ stored /\ stored' = stored \cup {e} /\ log' = log
        /\ upgraded' = upgraded
    BY <1>9 DEF Store, NextOf, world
  <2>4. TouchesLogged'
    <3>1. ASSUME NEW r \in Rows(e, NewTouches(log[e].touches))
          PROVE  r.e = e /\ \E i \in DOMAIN log[e].touches : r.touch = log[e].touches[i]
      BY DEF Rows, NewTouches
    <3> QED BY <1>0, <2>2, <2>3, <3>1 DEF TouchesLogged
  <2>5. ASSUME NEW k \in NewEdges(e, layouts) PROVE k.e = e
    BY DEF NewEdges, LinksOf, Edge
  <2>6. EdgesStored'
    BY <1>0, <2>2, <2>3, <2>5 DEF EdgesStored
  <2>7. ASSUME NEW k \in DOMAIN edges' \ DOMAIN edges
        PROVE  edges'[k] \in Nat /\ edges'[k] <= Cardinality(CallsTo(k.e, k.path)')
    <3>1. k.e = e /\ CallsTo(k.e, k.path)' = CallsTo(e, k.path)
      BY <2>2, <2>3, <2>5 DEF CallsTo
    <3>2. edges'[k] = Cardinality({i \in NewTouches(log[e].touches) : k \in LinksOf(e, layouts, i)})
      BY <2>2
    <3> QED BY <1>0, <2>3, <3>1, <3>2, LinksCount
  <2>8. Counted'
    BY <1>5, <2>2, <2>7
  <2>9. Linked'
    <3>0. \A d : Files(d)' = Files(d)
      BY <2>3 DEF Files
    <3> SUFFICES ASSUME NEW d \in stored', upgraded' \/ HasEdge(d)', NEW p \in Files(d)
                 PROVE  \E k \in DOMAIN edges' : k.e = d /\ k.path = p
      BY <3>0 DEF Linked
    <3>1. CASE d \in stored
      <4>1. upgraded \/ HasEdge(d)
        BY <2>2, <2>3, <2>5, <3>1 DEF HasEdge
      <4> QED BY <1>0, <2>2, <3>1, <4>1 DEF Linked
    <3>2. CASE d = e
      <4>1. PICK i \in NewTouches(log[e].touches) : log[e].touches[i].path = p
        BY <1>0, <2>3, <3>2, NewTouchOfFile
      <4>2. TouchToEdges(log[e].touches[i], layouts[i]) # {}
        BY DEF TouchToEdges
      <4>3. PICK n \in TouchToEdges(log[e].touches[i], layouts[i]) : TRUE
        BY <4>2
      <4>4. Edge(e, p, n, "edit") \in NewEdges(e, layouts)
        BY <4>1, <4>3 DEF NewEdges, LinksOf
      <4> QED BY <2>2, <3>2, <4>4 DEF Edge
    <3> QED BY <2>3, <3>1, <3>2
  <2> QED BY <1>1, <2>4, <2>6, <2>8, <2>9 DEF IInv
<1>10. ASSUME NEW e \in 1..MaxExchanges, Distill(e) PROVE IInv'
  <2>1. /\ DOMAIN edges' = DOMAIN edges \cup SpokenEdges(e)
        /\ \A k \in DOMAIN edges : edges'[k] = edges[k]
        /\ \A k \in SpokenEdges(e) \ DOMAIN edges : edges'[k] = 0
    BY <1>10, DistillAdds
  <2>2. /\ e \in stored /\ upgraded
        /\ UNCHANGED <<log, stored, upgraded, touches>>
    BY <1>10 DEF Distill, world
  <2>3. ASSUME NEW k \in SpokenEdges(e) PROVE k.e = e
    BY DEF SpokenEdges, Edge
  <2>4. ASSUME NEW k \in DOMAIN edges' \ DOMAIN edges
        PROVE  edges'[k] \in Nat /\ edges'[k] <= Cardinality(CallsTo(k.e, k.path)')
    <3>1. k.e = e /\ edges'[k] = 0
      BY <2>1, <2>3
    <3>2. CallsTo(k.e, k.path)' = CallsTo(e, k.path) /\ Cardinality(CallsTo(e, k.path)) \in Nat
      BY <1>0, <1>2, <1>3, <2>2, <3>1, CallsFinite
    <3> QED BY <3>1, <3>2
  <2>5. TouchesLogged' /\ Counted'
    BY <1>4, <1>5, <2>1, <2>2, <2>4
  <2>6. EdgesStored'
    BY <1>0, <2>1, <2>2, <2>3 DEF EdgesStored
  <2>7. Linked'
    <3>1. \A d : Files(d)' = Files(d)
      BY <2>2 DEF Files
    <3> QED BY <1>0, <2>1, <2>2, <3>1 DEF Linked
  <2> QED BY <1>1, <2>5, <2>6, <2>7 DEF IInv
<1> QED BY <1>6, <1>7, <1>8, <1>9, <1>10, Cases

LEMMA InitIInv == ASSUME CodeProvenanceAssumption, Init PROVE IInv
<1>1. WorldOK
  <2>1. PICK p \in Paths, n \in Names :
          live = [q \in Paths |-> IF q = p THEN [layout |-> <<n>>, id |-> MaxTime + 1, moves |-> 0]
                                  ELSE Gone]
    BY DEF Init
  <2>2. live \in [Paths -> File]
    BY <2>1 DEF CodeProvenanceAssumption, Gone, File
  <2> QED BY <2>2 DEF Init, WorldOK
<1> QED BY <1>1 DEF IInv, Init, TouchesLogged, EdgesStored, Linked, Counted

LEMMA IInvHolds == Spec => []IInv
<1>1. Init => IInv
  BY InitIInv, CodeProvenanceAssumption
<1>2. IInv /\ [Next]_vars => IInv'
  BY IInvInductive, CodeProvenanceAssumption
<1> QED BY <1>1, <1>2, PTL DEF Spec

\* However the touches of a call were logged, and however often the backfills and
\* distillation write an edge again, it counts no call twice.
THEOREM CallsCountOnce == Spec => []AddedCountsCalls
<1>1. IInv => AddedCountsCalls
  BY DEF IInv, Counted, AddedCountsCalls
<1> QED BY <1>1, IInvHolds, PTL

\* The file tier answers whenever it has a hit.
LEMMA FileTierAnswers ==
  ASSUME NEW p, NEW e, e \in FileTier({p} \cup Aliases(p)).hits
  PROVE  ResolveU2(p) = FileTier({p} \cup Aliases(p))
<1> DEFINE ps == {p} \cup Aliases(p)
           tiers == <<FileTier(ps), DirTier(p), TouchTier(ps)>>
           with == {i \in DOMAIN tiers : tiers[i].hits # {}}
<1>1. 1 \in with /\ with \subseteq {1, 2, 3}
  OBVIOUS
<1>2. Min(with) = 1
  <2> HIDE DEF with
  <2>1. \A x \in with : 1 =< x
    BY <1>1
  <2>2. \A x \in with : (\A y \in with : x =< y) => x = 1
    BY <1>1
  <2> QED BY <1>1, <2>1, <2>2 DEF Min
<1>3. ResolveU2(p) = tiers[1]
  BY <1>1, <1>2 DEF ResolveU2, Answer
<1> QED BY <1>3

\* Every exchange is found from every file it wrote, in the file tier, for any files,
\* layouts, histories of git and order of indexing, upgrading and distilling.
THEOREM FoundFromItsFiles == Spec => []FoundWhereItWrote
<1>1. ASSUME IInv PROVE FoundWhereItWrote
  <2> SUFFICES ASSUME upgraded, NEW e \in stored, NEW p \in Files(e)
               PROVE  ResolveU2(p).kind = "file" /\ e \in ResolveU2(p).hits
    BY DEF FoundWhereItWrote
  <2> DEFINE ps == {p} \cup Aliases(p)
  <2>1. PICK k \in DOMAIN edges : k.e = e /\ k.path = p
    BY <1>1 DEF IInv, Linked
  <2>2. FileTier(ps).kind = "file" /\ e \in FileTier(ps).hits
    BY <2>1 DEF FileTier, Tier
  <2> QED BY <2>2, FileTierAnswers
<1> QED BY <1>1, IInvHolds, PTL

-----------------------------------------------------------------------------
(* What git follows                                                        *)

NamesInto(m, p) == {r[1] : r \in {x \in m : x[2] = p}}

\* One commit back: the file has the names it came from there, if any.
Back(a, m) ==
    IF NamesInto(m, a.name) = {} THEN a
    ELSE [name |-> CHOOSE q \in NamesInto(m, a.name) : TRUE, old |-> a.old \cup NamesInto(m, a.name)]

IsTrail(g, p, k) ==
    g = [i \in 0..k |-> IF i = 0 THEN [name |-> p, old |-> {}]
                        ELSE Back(g[i - 1], gitMoves[Len(gitMoves) + 1 - i])]

\* The recursion of Follow defines a function: however many commits back.
LEMMA TrailExists ==
  ASSUME NEW p, NEW n \in Nat
  PROVE  \E g : IsTrail(g, p, n)
<1> DEFINE T == {k \in Nat : ~ \E g : IsTrail(g, p, k)}
<1>1. ASSUME T # {} PROVE FALSE
  <2>1. PICK k \in T : \A j \in T : k <= j
    <3>1. T \in SUBSET Nat
      OBVIOUS
    <3> HIDE DEF T
    <3> QED BY <1>1, <3>1, LeastElement
  <2>2. CASE k = 0
    <3> DEFINE h == [i \in 0..0 |-> [name |-> p, old |-> {}]]
    <3>1. IsTrail(h, p, 0)
      BY DEF IsTrail
    <3> QED BY <2>1, <2>2, <3>1
  <2>3. CASE k # 0
    <3>1. k \in Nat /\ k - 1 \in Nat /\ k - 1 \notin T
      BY <2>1, <2>3
    <3>2. PICK g : IsTrail(g, p, k - 1)
      BY <3>1
    <3> DEFINE M(i) == gitMoves[Len(gitMoves) + 1 - i]
               h == [i \in 0..k |-> IF i = k THEN Back(g[k - 1], M(k)) ELSE g[i]]
    <3>3. ASSUME NEW i \in 0..k - 1
          PROVE  g[i] = IF i = 0 THEN [name |-> p, old |-> {}] ELSE Back(g[i - 1], M(i))
      BY <3>2 DEF IsTrail
    <3>4. ASSUME NEW i \in 0..k
          PROVE  h[i] = IF i = 0 THEN [name |-> p, old |-> {}] ELSE Back(h[i - 1], M(i))
      <4>1. CASE i = k
        <5>1. h[i] = Back(g[k - 1], M(k)) /\ h[i - 1] = g[k - 1]
          BY <3>1, <4>1
        <5> QED BY <2>3, <4>1, <5>1
      <4>2. CASE i # k
        <5>1. i \in 0..k - 1 /\ h[i] = g[i]
          BY <3>1, <4>2
        <5>2. i # 0 => h[i - 1] = g[i - 1]
          BY <3>1, <4>2
        <5> QED BY <3>3, <5>1, <5>2
      <4> QED BY <4>1, <4>2
    <3>5. h = [i \in 0..k |-> IF i = 0 THEN [name |-> p, old |-> {}] ELSE Back(h[i - 1], M(i))]
      <4> DEFINE D == 0..k
                 B(i) == IF i = k THEN Back(g[k - 1], M(k)) ELSE g[i]
                 C(i) == IF i = 0 THEN [name |-> p, old |-> {}] ELSE Back(h[i - 1], M(i))
      <4>1. h = [i \in D |-> B(i)]
        OBVIOUS
      <4>2. \A i \in D : B(i) = C(i)
        <5> SUFFICES ASSUME NEW i \in D PROVE B(i) = C(i)
          OBVIOUS
        <5>1. h[i] = B(i)
          OBVIOUS
        <5> QED BY <3>4, <5>1
      <4>3. [i \in D |-> B(i)] = [i \in D |-> C(i)]
        BY <4>2, Zenon
      <4> QED BY <4>1, <4>3
    <3>6. IsTrail(h, p, k)
      BY <3>5 DEF IsTrail
    <3> QED BY <2>1, <3>6
  <2> QED BY <2>2, <2>3
<1> QED BY <1>1

\* Follow looks through the commits from the newest on.
LEMMA FollowSteps ==
  ASSUME gitMoves \in Seq(SUBSET (Paths \X Paths \X Nat)), NEW p
  PROVE  \E g : /\ Follow(p) = g[Len(gitMoves)].old
                /\ g[0] = [name |-> p, old |-> {}]
                /\ \A i \in 1..Len(gitMoves) : g[i] = Back(g[i - 1], gitMoves[Len(gitMoves) + 1 - i])
<1> DEFINE n == Len(gitMoves)
           g == CHOOSE f : IsTrail(f, p, n)
<1>1. n \in Nat
  OBVIOUS
<1>2. Follow(p) = g[n].old
  BY DEF Follow, IsTrail, Back, NamesInto
<1>3. IsTrail(g, p, n)
  BY <1>1, TrailExists
<1> HIDE DEF g
<1>4. \A i \in 0..n : g[i] = IF i = 0 THEN [name |-> p, old |-> {}]
                             ELSE Back(g[i - 1], gitMoves[n + 1 - i])
  BY <1>1, <1>3 DEF IsTrail
<1>5. g[0] = [name |-> p, old |-> {}]
  <2> HIDE DEF n
  <2>1. 0 \in 0..n
    BY <1>1
  <2> QED BY <1>4, <2>1
<1>6. ASSUME NEW i \in 1..n PROVE g[i] = Back(g[i - 1], gitMoves[n + 1 - i])
  <2> HIDE DEF n
  <2>1. i \in 0..n /\ i # 0
    BY <1>1
  <2> QED BY <1>4, <2>1
<1>7. /\ Follow(p) = g[Len(gitMoves)].old
      /\ g[0] = [name |-> p, old |-> {}]
      /\ \A i \in 1..Len(gitMoves) : g[i] = Back(g[i - 1], gitMoves[Len(gitMoves) + 1 - i])
  BY <1>2, <1>5, <1>6
<1> HIDE DEF n
<1> QED BY <1>7, Zenon

\* A rename into p with no later one into p is found, and kept.
LEMMA FollowFinds ==
  ASSUME gitMoves \in Seq(SUBSET (Paths \X Paths \X Nat)),
         NEW i \in DOMAIN gitMoves, NEW x \in gitMoves[i], NEW p, x[2] = p,
         \A j \in DOMAIN gitMoves : j > i => \A y \in gitMoves[j] : y[2] # p
  PROVE  x[1] \in Follow(p)
<1> DEFINE n == Len(gitMoves)
<1>1. n \in Nat /\ DOMAIN gitMoves = 1..n /\ i \in 1..n
  OBVIOUS
<1>2. PICK g : /\ Follow(p) = g[n].old
               /\ g[0] = [name |-> p, old |-> {}]
               /\ \A k \in 1..n : g[k] = Back(g[k - 1], gitMoves[n + 1 - k])
  BY FollowSteps
<1> HIDE DEF n
<1>3. ASSUME NEW k \in 0..n - i PROVE g[k].name = p
  <2> DEFINE T == {j \in 0..n - i : g[j].name # p}
  <2>1. ASSUME T # {} PROVE FALSE
    <3>1. PICK j \in T : \A l \in T : j <= l
      <4>1. T \in SUBSET Nat
        BY <1>1
      <4> HIDE DEF T
      <4> QED BY <2>1, <4>1, LeastElement
    <3>2. j \in 0..n - i /\ j # 0
      BY <1>2, <3>1
    <3>3. j - 1 \in 0..n - i /\ j - 1 \notin T
      BY <1>1, <3>1, <3>2
    <3>4. g[j - 1].name = p
      BY <3>3
    <3>5. n + 1 - j \in 1..n /\ n + 1 - j > i /\ j \in 1..n
      BY <1>1, <3>2
    <3>6. NamesInto(gitMoves[n + 1 - j], p) = {}
      BY <1>1, <3>5 DEF NamesInto
    <3>7. g[j] = g[j - 1]
      BY <1>2, <3>4, <3>5, <3>6 DEF Back
    <3> QED BY <3>1, <3>4, <3>7
  <2> QED BY <2>1
<1> DEFINE c == n - i + 1
<1>4. c \in 1..n /\ n + 1 - c = i /\ c - 1 \in 0..n - i
  BY <1>1
<1>5. x[1] \in g[c].old
  <2>1. x[1] \in NamesInto(gitMoves[i], p)
    BY DEF NamesInto
  <2>2. g[c - 1].name = p /\ g[c] = Back(g[c - 1], gitMoves[i])
    BY <1>2, <1>3, <1>4
  <2> QED BY <2>1, <2>2 DEF Back
<1>6. ASSUME NEW k \in c..n PROVE x[1] \in g[k].old
  <2> DEFINE T == {j \in c..n : x[1] \notin g[j].old}
  <2>1. ASSUME T # {} PROVE FALSE
    <3>1. PICK j \in T : \A l \in T : j <= l
      <4>1. T \in SUBSET Nat
        BY <1>4
      <4> HIDE DEF T
      <4> QED BY <2>1, <4>1, LeastElement
    <3>2. j \in c..n /\ j # c
      BY <1>5, <3>1
    <3>3. j - 1 \in c..n /\ j \in 1..n /\ j - 1 \notin T
      BY <1>1, <1>4, <3>1, <3>2
    <3>4. x[1] \in g[j - 1].old
      BY <3>3
    <3>5. g[j] = Back(g[j - 1], gitMoves[n + 1 - j])
      BY <1>2, <3>3
    <3>6. x[1] \in g[j].old
      BY <3>4, <3>5 DEF Back
    <3> QED BY <3>1, <3>6
  <2> QED BY <2>1
<1>7. n \in c..n
  BY <1>1, <1>4
<1> QED BY <1>2, <1>6, <1>7

-----------------------------------------------------------------------------
(* Files, by their history                                                 *)

\* The ids given out so far.
Given(f) == f <= clock \/ f = MaxTime + 1

CommitRow == [time : Nat, file : File]

GitTypes ==
    /\ commits \in [Paths -> Seq(CommitRow)]
    /\ gitMoves \in Seq(SUBSET (Paths \X Paths \X Nat))

CommitsPast ==
    \A p \in Paths : \A i \in DOMAIN commits[p] :
        commits[p][i].time <= clock /\ Given(commits[p][i].file.id)

LiveFiles ==
    /\ \A p \in Paths : Given(live[p].id) /\ (live[p].id = 0 => live[p].layout = <<>>)
    /\ \A p, q \in Paths : live[p].id = live[q].id /\ p # q => live[p].id = 0

\* A file has moved since it was committed, or is where it was.
Behind ==
    \A a, b \in Paths : CommittedFile(a).id = live[b].id /\ live[b].id # 0 =>
        /\ CommittedFile(a).moves <= live[b].moves
        /\ CommittedFile(a).moves = live[b].moves => a = b

\* A file git saw moved has moved; if that was its only move, it is where git saw it
\* go, and git has seen none come there since.
LastMove ==
    \A i \in DOMAIN gitMoves : \A x \in gitMoves[i] :
        /\ Given(x[3]) /\ x[3] # 0
        /\ \A z \in Paths : live[z].id = x[3] =>
              /\ live[z].moves >= 1
              /\ live[z].moves = 1 =>
                    /\ z = x[2] /\ CommittedFile(z).id = x[3]
                    /\ \A j \in DOMAIN gitMoves : j > i => \A y \in gitMoves[j] : y[2] # z

FilesOK == GitTypes /\ CommitsPast /\ LiveFiles /\ Behind /\ LastMove

LEMMA FileTypes ==
  ASSUME WorldOK, GitTypes, NEW p \in Paths
  PROVE  /\ live[p] \in File /\ live[p].id \in Nat /\ live[p].moves \in Nat /\ live[p].layout \in Seq(Names)
         /\ CommittedFile(p) \in File /\ CommittedFile(p).id \in Nat /\ CommittedFile(p).moves \in Nat
         /\ clock \in Nat
         /\ commits[p] \in Seq(CommitRow)
<1>1. live[p] \in File /\ clock \in Nat /\ commits[p] \in Seq(CommitRow)
  BY DEF WorldOK, GitTypes
<1>2. CommittedFile(p) \in File
  <2>1. CASE commits[p] = <<>>
    <3>1. CommittedFile(p) = Gone
      BY <2>1 DEF CommittedFile, Tracked
    <3> QED BY <3>1 DEF Gone, File
  <2>2. CASE commits[p] # <<>>
    <3>1. Last(commits[p]) \in CommitRow
      BY <1>1, <2>2 DEF Last
    <3> QED BY <2>2, <3>1 DEF CommittedFile, Tracked, CommitRow
  <2> QED BY <2>1, <2>2
<1>3. \A f \in File : f.id \in Nat /\ f.moves \in Nat /\ f.layout \in Seq(Names)
  BY DEF File
<1> QED BY <1>1, <1>2, <1>3

\* What the commits of a path say of it is of files that exist or are gone.
LEMMA CommittedIsGiven ==
  ASSUME WorldOK, GitTypes, CommitsPast, NEW p \in Paths
  PROVE  Given(CommittedFile(p).id)
<1>1. commits[p] \in Seq(CommitRow) /\ clock \in Nat
  BY FileTypes
<1>2. CASE commits[p] = <<>>
  BY <1>1, <1>2 DEF CommittedFile, Tracked, Gone, Given
<1>3. CASE commits[p] # <<>>
  <2>1. Len(commits[p]) \in DOMAIN commits[p]
    BY <1>1, <1>3
  <2> QED BY <1>3, <2>1 DEF CommittedFile, Tracked, Last, CommitsPast
<1> QED BY <1>2, <1>3

\* The working tree changes by an edit or a move.
Edits(p) ==
    /\ clock < MaxTime
    /\ \E l : live' = [live EXCEPT ![p] = [layout |-> l, moves |-> live[p].moves,
                                    id |-> IF Exists(p) THEN live[p].id ELSE clock + 1]]
    /\ clock' = clock + 1 /\ UNCHANGED <<commits, gitMoves>>

Moves(p, q) ==
    /\ Exists(p) /\ ~Exists(q) /\ Moved(p, q)
    /\ clock' = clock + 1 /\ UNCHANGED <<commits, gitMoves>>

LEMMA WorldCases ==
  ASSUME [Next]_vars
  PROVE  \/ UNCHANGED <<clock, live, commits, gitMoves>>
         \/ \E p \in Paths : Edits(p)
         \/ \E p, q \in Paths : Moves(p, q)
         \/ Commit
<1>1. CASE UNCHANGED vars
  BY <1>1 DEF vars, world
<1>2. ASSUME NEW s \in Sessions, Edit(s) PROVE \E p \in Paths : Edits(p)
  BY <1>2 DEF Edit, Edits, Touch
<1>3. ASSUME NEW s \in Sessions, Move(s) PROVE \E p, q \in Paths : Moves(p, q)
  BY <1>3 DEF Move, Moves
<1>4. CASE UserMove
  BY <1>4 DEF UserMove, Moves
<1>5. CASE Upgrade
  BY <1>5 DEF Upgrade, world
<1>6. ASSUME NEW e \in 1..MaxExchanges, Ingest(e) \/ IngestFilesOnly(e) \/ IngestAgainstLive(e)
      PROVE  UNCHANGED <<clock, live, commits, gitMoves>>
  BY <1>6 DEF Ingest, IngestFilesOnly, IngestAgainstLive, Store, world
<1>7. ASSUME NEW e \in 1..MaxExchanges, Distill(e)
      PROVE  UNCHANGED <<clock, live, commits, gitMoves>>
  BY <1>7 DEF Distill, world
<1> QED BY <1>1, <1>2, <1>3, <1>4, <1>5, <1>6, <1>7 DEF Next

LEMMA EditsKeep ==
  ASSUME WorldOK, WorldOK', FilesOK, NEW p \in Paths, Edits(p)
  PROVE  FilesOK'
<1>1. GitTypes /\ CommitsPast /\ LiveFiles /\ Behind /\ LastMove
  BY DEF FilesOK
<1>2. /\ clock \in Nat /\ clock < MaxTime /\ clock' = clock + 1
      /\ commits' = commits /\ gitMoves' = gitMoves
      /\ MaxTime \in Nat
  BY CodeProvenanceAssumption DEF Edits, WorldOK
<1>3. PICK l : live' = [live EXCEPT ![p] = [layout |-> l, moves |-> live[p].moves,
                                            id |-> IF Exists(p) THEN live[p].id ELSE clock + 1]]
  BY DEF Edits
<1>4. DOMAIN live = Paths
  BY DEF WorldOK
<1>5. ASSUME NEW z \in Paths
      PROVE  /\ live'[z].moves = live[z].moves
             /\ \/ live'[z].id = live[z].id
                \/ z = p /\ live[z].id = 0 /\ live'[z].id = clock + 1
             /\ z # p => live'[z] = live[z]
             /\ live'[p].id # 0
             /\ live[z].id \in Nat /\ live'[z].id \in Nat
             /\ CommittedFile(z)' = CommittedFile(z)
             /\ CommittedFile(z).id \in Nat
             /\ Given(CommittedFile(z).id)
             /\ Given(live[z].id)
  <2>1. live[z].id \in Nat /\ CommittedFile(z).id \in Nat /\ Given(CommittedFile(z).id)
    BY <1>1, FileTypes, CommittedIsGiven
  <2>2. CommittedFile(z)' = CommittedFile(z)
    BY <1>2 DEF CommittedFile, Tracked
  <2>3. Given(live[z].id)
    BY <1>1 DEF LiveFiles
  <2>4. /\ live'[z].moves = live[z].moves
        /\ \/ live'[z].id = live[z].id
           \/ z = p /\ live[z].id = 0 /\ live'[z].id = clock + 1
        /\ z # p => live'[z] = live[z]
        /\ live'[p].id # 0
    BY <1>2, <1>3, <1>4 DEF Exists
  <2> QED BY <1>2, <2>1, <2>2, <2>3, <2>4
<1>6. ASSUME NEW f \in Nat, Given(f)
      PROVE  Given(f)' /\ f # clock + 1
  BY <1>2, <1>6 DEF Given
<1>7. GitTypes'
  BY <1>1, <1>2 DEF GitTypes
<1>8. CommitsPast'
  <2> SUFFICES ASSUME NEW a \in Paths, NEW i \in DOMAIN commits[a]
               PROVE  commits[a][i].time <= clock + 1 /\ Given(commits[a][i].file.id)'
    BY <1>2 DEF CommitsPast
  <2>1. commits[a][i] \in CommitRow
    BY <1>1 DEF GitTypes
  <2>2. commits[a][i].time \in Nat /\ commits[a][i].file.id \in Nat
    BY <2>1 DEF CommitRow, File
  <2>3. commits[a][i].time <= clock /\ Given(commits[a][i].file.id)
    BY <1>1 DEF CommitsPast
  <2> QED BY <1>2, <1>6, <2>2, <2>3
<1>9. LiveFiles'
  <2>1. ASSUME NEW z \in Paths
        PROVE  Given(live[z].id)' /\ (live'[z].id = 0 => live'[z].layout = <<>>)
    <3>1. Given(live[z].id)'
      <4>1. CASE live'[z].id = live[z].id
        BY <1>5, <1>6, <4>1
      <4>2. CASE live'[z].id = clock + 1
        BY <1>2, <4>2 DEF Given
      <4> QED BY <1>5, <4>1, <4>2
    <3>2. live'[z].id = 0 => live'[z].layout = <<>>
      BY <1>1, <1>5 DEF LiveFiles
    <3> QED BY <3>1, <3>2
  <2>2. ASSUME NEW a \in Paths, NEW b \in Paths, live'[a].id = live'[b].id, a # b
        PROVE  live'[a].id = 0
    <3>1. live[a].id = live[b].id => live[a].id = 0
      BY <1>1, <2>2 DEF LiveFiles
    <3>2. live[a].id # clock + 1 /\ live[b].id # clock + 1
      BY <1>5, <1>6
    <3> QED BY <1>2, <1>5, <2>2, <3>1, <3>2
  <2> QED BY <2>1, <2>2 DEF LiveFiles
<1>10. Behind'
  <2> SUFFICES ASSUME NEW a \in Paths, NEW b \in Paths, CommittedFile(a).id = live'[b].id, live'[b].id # 0
               PROVE  /\ CommittedFile(a).moves <= live[b].moves
                      /\ CommittedFile(a).moves = live[b].moves => a = b
    BY <1>5 DEF Behind
  <2>1. CommittedFile(a).id # clock + 1
    BY <1>5, <1>6
  <2>2. live'[b].id = live[b].id
    BY <1>5, <2>1
  <2> QED BY <1>1, <2>2 DEF Behind
<1>11. LastMove'
  <2> SUFFICES ASSUME NEW i \in DOMAIN gitMoves, NEW x \in gitMoves[i]
               PROVE  /\ Given(x[3])' /\ x[3] # 0
                      /\ \A z \in Paths : live'[z].id = x[3] =>
                           /\ live'[z].moves >= 1
                           /\ live'[z].moves = 1 =>
                                /\ z = x[2] /\ CommittedFile(z)'.id = x[3]
                                /\ \A j \in DOMAIN gitMoves : j > i => \A y \in gitMoves[j] : y[2] # z
    BY <1>2 DEF LastMove
  <2>1. x[3] \in Nat
    BY <1>1 DEF GitTypes
  <2>2. Given(x[3]) /\ x[3] # 0
    BY <1>1 DEF LastMove
  <2>3. Given(x[3])' /\ x[3] # clock + 1
    BY <1>6, <2>1, <2>2
  <2>4. ASSUME NEW z \in Paths, live'[z].id = x[3]
        PROVE  /\ live'[z].moves >= 1
               /\ live'[z].moves = 1 =>
                    /\ z = x[2] /\ CommittedFile(z)'.id = x[3]
                    /\ \A j \in DOMAIN gitMoves : j > i => \A y \in gitMoves[j] : y[2] # z
    <3>1. live[z].id = x[3]
      BY <1>5, <2>3, <2>4
    <3> QED BY <1>1, <1>5, <3>1 DEF LastMove
  <2> QED BY <2>2, <2>3, <2>4
<1> QED BY <1>7, <1>8, <1>9, <1>10, <1>11 DEF FilesOK

LEMMA MovesKeep ==
  ASSUME WorldOK, WorldOK', FilesOK, NEW p \in Paths, NEW q \in Paths, Moves(p, q)
  PROVE  FilesOK'
<1>1. GitTypes /\ CommitsPast /\ LiveFiles /\ Behind /\ LastMove
  BY DEF FilesOK
<1>2. /\ clock \in Nat /\ clock' = clock + 1
      /\ commits' = commits /\ gitMoves' = gitMoves
      /\ live[p].id # 0 /\ live[q].id = 0
  BY DEF Moves, WorldOK, Exists
<1> DEFINE f == [live[p] EXCEPT !.moves = @ + 1]
<1>3. live' = [live EXCEPT ![p] = Gone, ![q] = f]
  BY DEF Moves, Moved
<1>4. DOMAIN live = Paths /\ live[p] \in File
  BY DEF WorldOK
<1>5. f.id = live[p].id /\ f.moves = live[p].moves + 1 /\ f.layout = live[p].layout
  <2> DEFINE L == Seq(Names)
  <2>1. live[p] \in [layout : L, id : Nat, moves : Nat]
    BY <1>4 DEF File
  <2> HIDE DEF L
  <2> QED BY <2>1
<1>6. /\ live'[q] = f
      /\ live'[p] = Gone
      /\ \A z \in Paths : z # p /\ z # q => live'[z] = live[z]
  <2> HIDE DEF f
  <2> QED BY <1>2, <1>3, <1>4
<1> HIDE DEF f
<1>7. ASSUME NEW z \in Paths
      PROVE  /\ live[z].id \in Nat /\ live[z].moves \in Nat
             /\ CommittedFile(z)' = CommittedFile(z)
             /\ CommittedFile(z).id \in Nat /\ CommittedFile(z).moves \in Nat
             /\ Given(live[z].id)
  <2>1. CommittedFile(z)' = CommittedFile(z)
    BY <1>2 DEF CommittedFile, Tracked
  <2> QED BY <1>1, <2>1, FileTypes DEF LiveFiles
<1>8. ASSUME NEW a \in Nat, Given(a) PROVE Given(a)'
  BY <1>2, <1>8, CodeProvenanceAssumption DEF Given
\* Where a file is now, it or the one that moved was before.
<1>9. ASSUME NEW z \in Paths, live'[z].id # 0
      PROVE  \/ live'[z] = live[z] /\ z # p
             \/ z = q /\ live'[z].id = live[p].id /\ live'[z].moves = live[p].moves + 1
  BY <1>5, <1>6, <1>9 DEF Gone
<1>10. GitTypes'
  BY <1>1, <1>2 DEF GitTypes
<1>11. CommitsPast'
  <2> SUFFICES ASSUME NEW a \in Paths, NEW i \in DOMAIN commits[a]
               PROVE  commits[a][i].time <= clock + 1 /\ Given(commits[a][i].file.id)'
    BY <1>2 DEF CommitsPast
  <2>1. commits[a][i] \in CommitRow
    BY <1>1 DEF GitTypes
  <2>2. commits[a][i].time \in Nat /\ commits[a][i].file.id \in Nat
    BY <2>1 DEF CommitRow, File
  <2>3. commits[a][i].time <= clock /\ Given(commits[a][i].file.id)
    BY <1>1 DEF CommitsPast
  <2> QED BY <1>2, <1>8, <2>2, <2>3
<1>12. LiveFiles'
  <2>1. ASSUME NEW z \in Paths
        PROVE  Given(live[z].id)' /\ (live'[z].id = 0 => live'[z].layout = <<>>)
    <3>1. CASE live'[z].id = 0
      <4>1. live'[z].layout = <<>>
        BY <1>1, <1>2, <1>5, <1>6, <3>1 DEF Gone, LiveFiles
      <4>2. Given(0)'
        BY <1>2 DEF Given
      <4> QED BY <3>1, <4>1, <4>2
    <3>2. CASE live'[z].id # 0
      <4>1. live'[z].id = live[z].id \/ live'[z].id = live[p].id
        BY <1>9, <3>2
      <4> QED BY <1>7, <1>8, <3>2, <4>1
    <3> QED BY <3>1, <3>2
  <2>2. ASSUME NEW a \in Paths, NEW b \in Paths, live'[a].id = live'[b].id, a # b
        PROVE  live'[a].id = 0
    <3>1. \A c, d \in Paths : live[c].id = live[d].id /\ c # d => live[c].id = 0
      BY <1>1 DEF LiveFiles
    <3> SUFFICES ASSUME live'[a].id # 0 PROVE FALSE
      OBVIOUS
    <3>2. \/ live'[a] = live[a] /\ a # p
          \/ a = q /\ live'[a].id = live[p].id
      BY <1>9
    <3>3. live'[b].id # 0
      BY <2>2
    <3>4. \/ live'[b] = live[b] /\ b # p
          \/ b = q /\ live'[b].id = live[p].id
      BY <1>9, <3>3
    <3> QED BY <1>2, <2>2, <3>1, <3>2, <3>4
  <2> QED BY <2>1, <2>2 DEF LiveFiles
<1>13. Behind'
  <2> SUFFICES ASSUME NEW a \in Paths, NEW b \in Paths, CommittedFile(a).id = live'[b].id, live'[b].id # 0
               PROVE  /\ CommittedFile(a).moves <= live'[b].moves
                      /\ CommittedFile(a).moves = live'[b].moves => a = b
    BY <1>7 DEF Behind
  <2>1. CASE live'[b] = live[b]
    BY <1>1, <2>1 DEF Behind
  <2>2. CASE live'[b].id = live[p].id /\ live'[b].moves = live[p].moves + 1
    <3>1. CommittedFile(a).moves <= live[p].moves
      BY <1>1, <2>2 DEF Behind
    <3> QED BY <1>7, <2>2, <3>1
  <2> QED BY <1>9, <2>1, <2>2
<1>14. LastMove'
  <2> SUFFICES ASSUME NEW i \in DOMAIN gitMoves, NEW x \in gitMoves[i]
               PROVE  /\ Given(x[3])' /\ x[3] # 0
                      /\ \A z \in Paths : live'[z].id = x[3] =>
                           /\ live'[z].moves >= 1
                           /\ live'[z].moves = 1 =>
                                /\ z = x[2] /\ CommittedFile(z)'.id = x[3]
                                /\ \A j \in DOMAIN gitMoves : j > i => \A y \in gitMoves[j] : y[2] # z
    BY <1>2 DEF LastMove
  <2>1. x[3] \in Nat
    BY <1>1 DEF GitTypes
  <2>2. Given(x[3]) /\ x[3] # 0
    BY <1>1 DEF LastMove
  <2>3. Given(x[3])'
    BY <1>8, <2>1, <2>2
  <2>4. ASSUME NEW z \in Paths, live'[z].id = x[3]
        PROVE  /\ live'[z].moves >= 1
               /\ live'[z].moves = 1 =>
                    /\ z = x[2] /\ CommittedFile(z)'.id = x[3]
                    /\ \A j \in DOMAIN gitMoves : j > i => \A y \in gitMoves[j] : y[2] # z
    <3>1. CASE live'[z] = live[z]
      BY <1>1, <1>7, <2>4, <3>1 DEF LastMove
    <3>2. CASE live'[z].id = live[p].id /\ live'[z].moves = live[p].moves + 1
      <4>1. live[p].moves >= 1
        BY <1>1, <2>4, <3>2 DEF LastMove
      <4> QED BY <1>7, <3>2, <4>1
    <3> QED BY <1>9, <2>2, <2>4, <3>1, <3>2
  <2> QED BY <2>2, <2>3, <2>4
<1> QED BY <1>10, <1>11, <1>12, <1>13, <1>14 DEF FilesOK

LEMMA CommitsKeep ==
  ASSUME WorldOK, WorldOK', FilesOK, Commit
  PROVE  FilesOK'
<1>1. GitTypes /\ CommitsPast /\ LiveFiles /\ Behind /\ LastMove
  BY DEF FilesOK
<1> DEFINE changed == {p \in Paths : ~Clean(p)}
           renamed == {pq \in changed \X changed :
                         /\ ~Exists(pq[1]) /\ CommittedFile(pq[1]).id # 0
                         /\ CommittedFile(pq[2]).id = 0
                         /\ live[pq[2]].id = CommittedFile(pq[1]).id
                         /\ live[pq[2]].layout = CommittedFile(pq[1]).layout}
           seen == {<<pq[1], pq[2], live[pq[2]].id>> : pq \in renamed}
           new(p) == [time |-> clock + 1, file |-> live[p]]
           n == Len(gitMoves)
<1>2. /\ clock \in Nat /\ clock' = clock + 1 /\ live' = live
      /\ commits' = [p \in Paths |-> IF p \in changed THEN Append(commits[p], new(p)) ELSE commits[p]]
      /\ gitMoves' = Append(gitMoves, seen)
  BY DEF Commit, WorldOK
<1>3. ASSUME NEW z \in Paths
      PROVE  /\ live[z] \in File /\ live[z].id \in Nat /\ live[z].moves \in Nat
             /\ CommittedFile(z).id \in Nat /\ CommittedFile(z).moves \in Nat
             /\ commits[z] \in Seq(CommitRow) /\ new(z) \in CommitRow
             /\ Given(live[z].id)
  <2>1. live[z] \in File /\ new(z) \in CommitRow
    BY <1>2 DEF WorldOK, CommitRow
  <2> HIDE DEF new
  <2> QED BY <1>1, <2>1, FileTypes DEF LiveFiles
<1>4. ASSUME NEW x \in seen
      PROVE  /\ x \in Paths \X Paths \X Nat
             /\ CommittedFile(x[2]).id = 0
             /\ x[3] = live[x[2]].id /\ x[3] = CommittedFile(x[1]).id
             /\ x[3] # 0 /\ x[1] # x[2]
  <2>1. PICK pq \in renamed : x = <<pq[1], pq[2], live[pq[2]].id>>
    OBVIOUS
  <2>2. /\ pq[1] \in Paths /\ pq[2] \in Paths
        /\ live[pq[1]].id = 0 /\ CommittedFile(pq[1]).id # 0
        /\ CommittedFile(pq[2]).id = 0
        /\ live[pq[2]].id = CommittedFile(pq[1]).id
    BY DEF Exists
  <2>3. x[1] = pq[1] /\ x[2] = pq[2] /\ x[3] = live[pq[2]].id
    BY <2>1
  <2> QED BY <1>3, <2>1, <2>2, <2>3
<1>5. ASSUME NEW z \in Paths
      PROVE  /\ commits'[z] \in Seq(CommitRow)
             /\ \A i \in DOMAIN commits'[z] :
                  \/ i \in DOMAIN commits[z] /\ commits'[z][i] = commits[z][i]
                  \/ commits'[z][i] = new(z)
             /\ CommittedFile(z)' = live[z]
  <2> HIDE DEF new
  <2>1. CASE z \in changed
    <3>1. commits'[z] = Append(commits[z], new(z))
      BY <1>2, <2>1
    <3>2. /\ commits'[z] \in Seq(CommitRow) /\ commits'[z] # <<>>
          /\ Len(commits'[z]) = Len(commits[z]) + 1 /\ Len(commits[z]) \in Nat
          /\ commits'[z][Len(commits[z]) + 1] = new(z)
          /\ \A i \in DOMAIN commits'[z] :
                  \/ i \in DOMAIN commits[z] /\ commits'[z][i] = commits[z][i]
                  \/ commits'[z][i] = new(z)
      BY <1>3, <3>1
    <3>3. Last(commits'[z]) = new(z)
      BY <3>2 DEF Last
    <3>4. CommittedFile(z)' = new(z).file
      BY <3>2, <3>3 DEF CommittedFile, Tracked
    <3> QED BY <3>2, <3>4 DEF new
  <2>2. CASE z \notin changed
    <3>1. commits'[z] = commits[z] /\ CommittedFile(z) = live[z]
      BY <1>2, <2>2 DEF Clean
    <3>2. CommittedFile(z)' = CommittedFile(z)
      BY <3>1 DEF CommittedFile, Tracked
    <3> QED BY <1>3, <3>1, <3>2
  <2> QED BY <2>1, <2>2
<1>6. ASSUME NEW f \in Nat, Given(f) PROVE Given(f)'
  BY <1>2, <1>6, CodeProvenanceAssumption DEF Given
<1>7. GitTypes'
  <2>1. seen \in SUBSET (Paths \X Paths \X Nat)
    <3> HIDE DEF seen
    <3> QED BY <1>4
  <2>2. commits' \in [Paths -> Seq(CommitRow)]
    <3> DEFINE g == [p \in Paths |-> IF p \in changed THEN Append(commits[p], new(p)) ELSE commits[p]]
    <3>1. commits' = g
      BY <1>2
    <3>2. \A p \in Paths : g[p] \in Seq(CommitRow)
      <4> HIDE DEF g
      <4> QED BY <1>5, <3>1
    <3>3. g \in [Paths -> Seq(CommitRow)]
      <4>1. g = [p \in Paths |-> g[p]]
        OBVIOUS
      <4> HIDE DEF g
      <4> QED BY <3>2, <4>1
    <3> HIDE DEF g
    <3> QED BY <3>1, <3>3
  <2> HIDE DEF seen
  <2>3. gitMoves' \in Seq(SUBSET (Paths \X Paths \X Nat))
    <3> DEFINE Seen == SUBSET (Paths \X Paths \X Nat)
    <3>1. gitMoves \in Seq(Seen) /\ seen \in Seen
      BY <1>1, <2>1 DEF GitTypes
    <3> HIDE DEF Seen
    <3>2. gitMoves' \in Seq(Seen)
      BY <1>2, <3>1
    <3> QED BY <3>2 DEF Seen
  <2> QED BY <2>2, <2>3 DEF GitTypes
<1> HIDE DEF seen, new
<1>8. CommitsPast'
  <2> SUFFICES ASSUME NEW a \in Paths, NEW i \in DOMAIN commits'[a]
               PROVE  commits'[a][i].time <= clock + 1 /\ Given(commits[a][i].file.id)'
    BY <1>2 DEF CommitsPast
  <2>1. CASE i \in DOMAIN commits[a] /\ commits'[a][i] = commits[a][i]
    <3>1. commits[a][i] \in CommitRow
      BY <1>1, <2>1 DEF GitTypes
    <3>2. commits[a][i].time \in Nat /\ commits[a][i].file.id \in Nat
      BY <3>1 DEF CommitRow, File
    <3>3. commits[a][i].time <= clock /\ Given(commits[a][i].file.id)
      BY <1>1, <2>1 DEF CommitsPast
    <3> DEFINE f == commits[a][i].file.id
    <3>4. Given(f) /\ commits'[a][i].file.id = f
      BY <2>1, <3>3
    <3>5. f <= clock' \/ f = MaxTime + 1
      BY <1>2, <3>2, <3>4, CodeProvenanceAssumption DEF Given
    <3> QED BY <1>2, <2>1, <3>2, <3>3, <3>4, <3>5 DEF Given
  <2>2. CASE commits'[a][i] = new(a)
    <3>1. commits'[a][i].time = clock + 1 /\ commits'[a][i].file.id = live[a].id
      BY <2>2 DEF new
    <3>2. live[a].id <= clock' \/ live[a].id = MaxTime + 1
      BY <1>2, <1>3, CodeProvenanceAssumption DEF Given
    <3> QED BY <1>2, <3>1, <3>2 DEF Given
  <2> QED BY <1>5, <2>1, <2>2
<1>9. LiveFiles'
  <2>1. ASSUME NEW z \in Paths PROVE Given(live[z].id)'
    <3>1. live[z].id <= clock' \/ live[z].id = MaxTime + 1
      BY <1>2, <1>3, CodeProvenanceAssumption DEF Given
    <3> QED BY <1>2, <3>1 DEF Given
  <2> QED BY <1>1, <1>2, <2>1 DEF LiveFiles
<1>10. \A a, b \in Paths : live[a].id = live[b].id /\ a # b => live[a].id = 0
  BY <1>1 DEF LiveFiles
<1>11. Behind'
  <2>0. \A z \in Paths : CommittedFile(z)' = live[z] /\ live[z].moves \in Nat
    BY <1>3, <1>5
  <2> SUFFICES ASSUME NEW a \in Paths, NEW b \in Paths, live[a].id = live[b].id, live[b].id # 0
               PROVE  live[a].moves <= live[b].moves /\ (live[a].moves = live[b].moves => a = b)
    BY <1>2, <2>0 DEF Behind
  <2>1. a = b
    BY <1>10
  <2> QED BY <2>0, <2>1
<1>12. LastMove'
  <2>1. /\ n \in Nat /\ DOMAIN gitMoves = 1..n
        /\ DOMAIN gitMoves' = 1..n + 1
        /\ \A i \in 1..n : gitMoves'[i] = gitMoves[i]
        /\ gitMoves'[n + 1] = seen
    BY <1>1, <1>2 DEF GitTypes
  <2> HIDE DEF n
  <2> SUFFICES ASSUME NEW i \in 1..n + 1, NEW x \in gitMoves'[i]
               PROVE  /\ Given(x[3])' /\ x[3] # 0
                      /\ \A z \in Paths : live[z].id = x[3] =>
                           /\ live[z].moves >= 1
                           /\ live[z].moves = 1 =>
                                /\ z = x[2] /\ CommittedFile(z)'.id = x[3]
                                /\ \A j \in 1..n + 1 : j > i => \A y \in gitMoves'[j] : y[2] # z
    BY <1>2, <2>1 DEF LastMove
  <2>2. CASE i \in 1..n
    <3>1. x \in gitMoves[i] /\ i \in DOMAIN gitMoves
      BY <2>1, <2>2
    <3>2. x[3] \in Nat /\ Given(x[3]) /\ x[3] # 0
      BY <1>1, <3>1 DEF GitTypes, LastMove
    <3>3. ASSUME NEW z \in Paths, live[z].id = x[3]
          PROVE  /\ live[z].moves >= 1
                 /\ live[z].moves = 1 =>
                      /\ z = x[2] /\ CommittedFile(z)'.id = x[3]
                      /\ \A j \in 1..n + 1 : j > i => \A y \in gitMoves'[j] : y[2] # z
      <4>1. /\ live[z].moves >= 1
            /\ live[z].moves = 1 =>
                 /\ z = x[2] /\ CommittedFile(z).id = x[3]
                 /\ \A j \in 1..n : j > i => \A y \in gitMoves[j] : y[2] # z
        BY <1>1, <2>1, <3>1, <3>3 DEF LastMove
      <4>2. ASSUME live[z].moves = 1, NEW j \in 1..n + 1, j > i, NEW y \in gitMoves'[j]
            PROVE  y[2] # z
        <5>1. CASE j \in 1..n
          BY <2>1, <4>1, <4>2, <5>1
        <5>2. CASE j = n + 1
          <6>1. CommittedFile(y[2]).id = 0
            BY <1>4, <2>1, <4>2, <5>2
          <6>2. CommittedFile(z).id # 0
            BY <3>2, <4>1, <4>2
          <6> QED BY <6>1, <6>2
        <5> QED BY <2>1, <5>1, <5>2
      <4>3. CommittedFile(z)'.id = x[3]
        BY <1>5, <3>3
      <4> QED BY <4>1, <4>2, <4>3
    <3>4. Given(x[3])'
      BY <1>6, <3>2
    <3> QED BY <3>2, <3>3, <3>4
  <2>3. CASE i = n + 1
    <3>1. x \in seen
      BY <2>1, <2>3
    <3>2. /\ x[1] \in Paths /\ x[2] \in Paths
          /\ CommittedFile(x[2]).id = 0
          /\ x[3] = live[x[2]].id /\ x[3] = CommittedFile(x[1]).id
          /\ x[3] # 0 /\ x[1] # x[2]
      BY <1>4, <3>1
    <3>3. x[3] \in Nat /\ Given(x[3])
      BY <1>3, <3>2
    <3>4. Given(x[3])'
      BY <1>6, <3>3
    <3>5. ASSUME NEW z \in Paths, live[z].id = x[3]
          PROVE  live[z].moves >= 1 /\ z = x[2] /\ CommittedFile(z)'.id = x[3]
      <4>1. z = x[2]
        BY <1>10, <3>2, <3>5
      <4>2. /\ CommittedFile(x[1]).moves <= live[z].moves
            /\ CommittedFile(x[1]).moves = live[z].moves => x[1] = z
        BY <1>1, <3>2, <3>5 DEF Behind
      <4>3. live[z].moves >= 1
        BY <1>3, <3>2, <4>1, <4>2
      <4> QED BY <1>5, <3>5, <4>1, <4>3
    <3>6. \A j \in 1..n + 1 : ~(j > i)
      BY <2>1, <2>3
    <3> QED BY <3>2, <3>4, <3>5, <3>6
  <2> QED BY <2>1, <2>2, <2>3
<1> QED BY <1>7, <1>8, <1>9, <1>11, <1>12 DEF FilesOK

LEMMA FilesInductive ==
  ASSUME WorldOK, WorldOK', FilesOK, [Next]_vars
  PROVE  FilesOK'
<1>1. CASE UNCHANGED <<clock, live, commits, gitMoves>>
  <2> USE <1>1
  <2>1. \A p : CommittedFile(p)' = CommittedFile(p)
    BY DEF CommittedFile, Tracked
  <2>2. \A f : Given(f)' = Given(f)
    BY DEF Given
  <2>3. GitTypes' /\ CommitsPast' /\ LiveFiles'
    BY DEF FilesOK, GitTypes, CommitsPast, LiveFiles, Given
  <2>4. Behind'
    BY <2>1 DEF FilesOK, Behind
  <2>5. LastMove'
    BY <2>1, <2>2 DEF FilesOK, LastMove
  <2> QED BY <2>3, <2>4, <2>5 DEF FilesOK
<1> QED BY <1>1, WorldCases, EditsKeep, MovesKeep, CommitsKeep

LEMMA InitFiles == ASSUME Init PROVE FilesOK
<1>1. PICK p \in Paths, n \in Names :
        /\ live = [q \in Paths |-> IF q = p THEN [layout |-> <<n>>, id |-> MaxTime + 1, moves |-> 0]
                                   ELSE Gone]
        /\ commits = [q \in Paths |-> IF q = p THEN <<[time |-> 0, file |-> live[p]]>> ELSE <<>>]
  BY DEF Init
<1>2. clock = 0 /\ gitMoves = <<{}>> /\ MaxTime \in Nat
  BY CodeProvenanceAssumption DEF Init
<1>3. live[p] = [layout |-> <<n>>, id |-> MaxTime + 1, moves |-> 0] /\ live[p] \in File
  BY <1>1, <1>2 DEF File
<1>4. \A q \in Paths : q # p => live[q] = Gone /\ commits[q] = <<>>
  BY <1>1
<1>5. commits[p] = <<[time |-> 0, file |-> live[p]]>>
  BY <1>1
<1>6. \A q \in Paths : CommittedFile(q) = live[q]
  <2>1. CommittedFile(p) = live[p]
    BY <1>5 DEF CommittedFile, Tracked, Last
  <2>2. \A q \in Paths : q # p => CommittedFile(q) = Gone
    BY <1>4 DEF CommittedFile, Tracked
  <2> QED BY <1>4, <2>1, <2>2
<1>7. GitTypes
  <2>1. [time |-> 0, file |-> live[p]] \in CommitRow
    BY <1>3 DEF CommitRow
  <2>2. <<[time |-> 0, file |-> live[p]]>> \in Seq(CommitRow) /\ <<>> \in Seq(CommitRow)
    BY <2>1
  <2>3. commits \in [Paths -> Seq(CommitRow)]
    BY <1>1, <2>2
  <2> QED BY <1>2, <2>3 DEF GitTypes
<1>8. CommitsPast
  <2> SUFFICES ASSUME NEW q \in Paths, NEW i \in DOMAIN commits[q]
               PROVE  commits[q][i].time <= clock /\ Given(commits[q][i].file.id)
    BY DEF CommitsPast
  <2>1. q = p /\ commits[q][i] = [time |-> 0, file |-> live[p]]
    BY <1>4, <1>5
  <2> QED BY <1>2, <1>3, <2>1 DEF Given
<1>9. LiveFiles
  BY <1>2, <1>3, <1>4 DEF LiveFiles, Given, Gone
<1>10. Behind
  BY <1>2, <1>3, <1>4, <1>6 DEF Behind, Gone
<1>11. LastMove
  BY <1>2 DEF LastMove
<1> QED BY <1>7, <1>8, <1>9, <1>10, <1>11 DEF FilesOK

LEMMA FilesHold == Spec => []FilesOK
<1>1. Init => FilesOK
  BY InitFiles
<1>2. WorldOK /\ WorldOK' /\ FilesOK /\ [Next]_vars => FilesOK'
  BY FilesInductive
<1>3. IInv => WorldOK
  BY DEF IInv
<1> QED BY <1>1, <1>2, <1>3, IInvHolds, PTL DEF Spec

\* An exchange's edges lead to it from the names its files had.
LEMMA WroteUnder ==
  ASSUME IInv, upgraded, NEW r \in touches
  PROVE  \E k \in DOMAIN edges : k.e = r.e /\ k.path = r.touch.path
<1>1. r.e \in stored /\ \E i \in DOMAIN log[r.e].touches : r.touch = log[r.e].touches[i]
  BY DEF IInv, TouchesLogged
<1>2. r.touch.path \in Files(r.e)
  BY <1>1 DEF Files
<1> QED BY <1>1, <1>2 DEF IInv, Linked

\* A file that was moved once is found under its new name by what was recorded of the
\* move, and else by what git shows of it: had any later file come to that name, this
\* one would have had to leave it, and so to move again.
THEOREM MovedFilesAreFound == Spec => []MovedIsFound
<1>1. ASSUME IInv, FilesOK PROVE MovedIsFound
  <2> SUFFICES ASSUME upgraded, NEW p \in Paths, NEW r \in touches,
                      r.touch.file = live[p].id, live[p].moves = 1, r.touch.path # p,
                      \/ <<r.touch.path, p>> \in renames
                      \/ /\ Recorded(p) = {}
                         /\ <<r.touch.path, p, live[p].id>> \in UNION Range(gitMoves)
               PROVE  r.e \in ResolveU2(p).hits
    BY DEF MovedIsFound
  <2> DEFINE q == r.touch.path
             ps == {p} \cup Aliases(p)
  <2>1. q \in Aliases(p)
    <3>1. CASE <<q, p>> \in renames
      <4>1. q \in Recorded(p)
        BY <3>1 DEF Recorded
      <4> QED BY <4>1 DEF Aliases
    <3>2. CASE Recorded(p) = {} /\ <<q, p, live[p].id>> \in UNION Range(gitMoves)
      <4>1. gitMoves \in Seq(SUBSET (Paths \X Paths \X Nat))
        BY <1>1 DEF FilesOK, GitTypes
      <4>2. PICK i \in DOMAIN gitMoves : <<q, p, live[p].id>> \in gitMoves[i]
        BY <3>2 DEF Range
      <4> DEFINE x == <<q, p, live[p].id>>
      <4>3. x[1] = q /\ x[2] = p /\ x[3] = live[p].id
        OBVIOUS
      <4>4. x \in gitMoves[i]
        BY <4>2
      <4> HIDE DEF x
      <4>5. \A j \in DOMAIN gitMoves : j > i => \A y \in gitMoves[j] : y[2] # p
        BY <1>1, <4>3, <4>4 DEF FilesOK, LastMove
      <4>6. x[1] \in Follow(p)
        BY <4>1, <4>3, <4>4, <4>5, FollowFinds
      <4> QED BY <3>2, <4>3, <4>6 DEF Aliases
    <3> QED BY <3>1, <3>2
  <2>2. PICK k \in DOMAIN edges : k.e = r.e /\ k.path = q
    BY <1>1, WroteUnder
  <2> HIDE DEF q
  <2>3. r.e \in FileTier(ps).hits
    BY <2>1, <2>2 DEF FileTier, Tier
  <2> QED BY <2>3, FileTierAnswers
<1> QED BY <1>1, IInvHolds, FilesHold, PTL

-----------------------------------------------------------------------------
(* Rewrites, and the file git had                                          *)

IsCall(c) == \E e \in DOMAIN log : \E i \in DOMAIN log[e].touches : c = log[e].touches[i]

\* What git had of the file when a symbol of it was rewritten has the symbol there.
PlainDated ==
    \A c \in Call : IsCall(c) /\ c.plain =>
        \E f \in File : /\ BlobOf(c.path, Before(c.path, c.ts)) = {f}
                        /\ IntersectSpan(c, f.layout) = c.names

LEMMA CallsAreLogged ==
  ASSUME WorldOK, NEW c, IsCall(c)
  PROVE  c \in Call /\ c.ts \in Nat /\ c.ts <= clock /\ c.path \in Paths /\ c.names \in SUBSET Names
<1>1. PICK e \in DOMAIN log : \E i \in DOMAIN log[e].touches : c = log[e].touches[i]
  BY DEF IsCall
<1>2. PICK i \in DOMAIN log[e].touches : c = log[e].touches[i]
  BY <1>1
<1>3. log[e].touches \in Seq(Call)
  BY Logged
<1>4. c \in Call
  BY <1>2, <1>3
<1>5. c.ts <= clock
  BY <1>2 DEF WorldOK, Past
<1>6. c.ts \in Nat /\ c.path \in Paths /\ c.names \in SUBSET Names
  BY <1>4 DEF Call
<1> QED BY <1>4, <1>5, <1>6

LEMMA LogsAdd ==
  ASSUME WorldOK, NEW s \in Sessions, NEW calls \in Seq(Call), NEW moved, NEW spoken,
         Logs(s, calls, moved, spoken), NEW c, IsCall(c)'
  PROVE  IsCall(c) \/ \E i \in DOMAIN calls : c = calls[i]
<1>1. log \in Seq(Exchange)
  BY DEF WorldOK
<1>2. PICK e \in DOMAIN log' : \E i \in DOMAIN log'[e].touches : c = log'[e].touches[i]
  BY DEF IsCall
<1>3. PICK i \in DOMAIN log'[e].touches : c = log'[e].touches[i]
  BY <1>2
<1>4. ASSUME NEW x, x.touches \in Seq(Call), log'[e] = Grown(x, calls, moved, spoken),
             x = [session |-> x.session, touches |-> x.touches, moves |-> x.moves,
                  mentions |-> x.mentions]
      PROVE  \/ i \in DOMAIN x.touches /\ c = x.touches[i]
             \/ \E j \in DOMAIN calls : c = calls[j]
  <2>1. log'[e].touches = x.touches \o calls
    BY <1>4, Zenon DEF Grown
  <2> QED BY <1>3, <1>4, <2>1
<1>5. CASE log' = Append(log, Grown(NewExchange(s), calls, moved, spoken))
  <2> DEFINE g == Grown(NewExchange(s), calls, moved, spoken)
  <2> HIDE DEF g
  <2>1. log' = Append(log, g)
    BY <1>5 DEF g
  <2>2. \/ e \in DOMAIN log /\ log'[e] = log[e]
        \/ log'[e] = g
    BY <1>1, <2>1
  <2>3. CASE log'[e] = g
    <3>1. NewExchange(s).touches = <<>>
      BY DEF NewExchange
    <3>2. g.touches = <<>> \o calls
      BY DEF g, Grown, NewExchange
    <3> QED BY <1>3, <2>3, <3>2
  <2>4. CASE e \in DOMAIN log /\ log'[e] = log[e]
    BY <1>3, <2>4 DEF IsCall
  <2> QED BY <2>2, <2>3, <2>4
<1>6. ASSUME NEW d \in DOMAIN log, log' = [log EXCEPT ![d] = Grown(log[d], calls, moved, spoken)]
      PROVE  IsCall(c) \/ \E j \in DOMAIN calls : c = calls[j]
  <2> DEFINE g == Grown(log[d], calls, moved, spoken)
  <2>0. log[d].touches \in Seq(Call)
    BY Logged
  <2>1. g.touches = log[d].touches \o calls
    <3>1. log[d] \in Exchange
      BY <1>1
    <3> DEFINE T == Seq(Call)
               M == SUBSET (Paths \X Paths)
               N == SUBSET Names
               new == log[d].touches \o calls
               a == log[d].moves \cup moved
               b == log[d].mentions \cup spoken
    <3>2. log[d] \in [session : Sessions, touches : T, moves : M, mentions : N]
      BY <3>1 DEF Exchange
    <3>3. g = [log[d] EXCEPT !.touches = new, !.moves = a, !.mentions = b]
      BY Zenon DEF Grown
    <3> HIDE DEF T, M, N, g, new, a, b
    <3>4. g.touches = new
      BY <3>2, <3>3
    <3> QED BY <3>4 DEF new
  <2> HIDE DEF g
  <2>2. log' = [log EXCEPT ![d] = g]
    BY <1>6 DEF g
  <2>3. e \in DOMAIN log /\ (e # d => log'[e] = log[e]) /\ (e = d => log'[e] = g)
    BY <1>1, <2>2
  <2>4. CASE e # d
    BY <1>3, <2>3, <2>4 DEF IsCall
  <2>5. CASE e = d
    <3>1. i \in DOMAIN (log[d].touches \o calls) /\ c = (log[d].touches \o calls)[i]
      BY <1>3, <2>1, <2>3, <2>5
    <3>2. \/ i \in DOMAIN log[d].touches /\ c = log[d].touches[i]
          \/ i - Len(log[d].touches) \in DOMAIN calls /\ c = calls[i - Len(log[d].touches)]
      BY <2>0, <3>1
    <3> QED BY <2>3, <3>2 DEF IsCall
  <2> QED BY <2>4, <2>5
<1> QED BY <1>5, <1>6 DEF Logs

\* The newest of some commits of a path is one of them.
LEMMA MaxIsOne ==
  ASSUME NEW n \in Nat, NEW S \in SUBSET (1..n), S # {}
  PROVE  Max(S) \in S /\ \A i \in S : i <= Max(S)
<1>1. S \in SUBSET (0..n)
  OBVIOUS
<1>2. PICK x \in S : \A y \in S : y <= x
  BY <1>1, GreatestElement
<1>3. \A y \in S : x >= y
  BY <1>2
<1>4. Max(S) \in S /\ \A y \in S : Max(S) >= y
  BY <1>3 DEF Max
<1> QED BY <1>4

\* Later commits leave what git had at a time.
LEMMA BlobStays ==
  ASSUME WorldOK, GitTypes, Commit, NEW p \in Paths, NEW ts \in Nat, ts <= clock
  PROVE  BlobOf(p, Before(p, ts))' = BlobOf(p, Before(p, ts))
<1> DEFINE n == Len(commits[p])
           S == Before(p, ts)
           new == [time |-> clock + 1, file |-> live[p]]
<1>1. commits[p] \in Seq(CommitRow) /\ n \in Nat /\ DOMAIN commits[p] = 1..n /\ clock \in Nat
  <2>1. commits[p] \in Seq(CommitRow) /\ clock \in Nat
    BY FileTypes
  <2> QED BY <2>1
<1>2. commits'[p] = commits[p] \/ commits'[p] = Append(commits[p], new)
  BY DEF Commit
<1>3. /\ DOMAIN commits[p] \subseteq DOMAIN commits'[p]
      /\ \A i \in DOMAIN commits[p] : commits'[p][i] = commits[p][i]
      /\ \A i \in DOMAIN commits'[p] \ DOMAIN commits[p] : commits'[p][i].time = clock + 1
  <2>1. CASE commits'[p] = Append(commits[p], new)
    <3>1. new.time = clock + 1
      OBVIOUS
    <3> HIDE DEF new
    <3> QED BY <1>1, <2>1, <3>1
  <2> QED BY <1>2, <2>1
<1>4. S' = S
  BY <1>1, <1>3 DEF Before
<1>5. CASE S = {}
  BY <1>4, <1>5 DEF BlobOf
<1>6. CASE S # {}
  <2>1. S \in SUBSET (1..n)
    BY <1>1 DEF Before
  <2> HIDE DEF S, n
  <2>2. Max(S) \in S
    BY <1>1, <1>6, <2>1, MaxIsOne
  <2>3. commits'[p][Max(S)] = commits[p][Max(S)]
    BY <1>1, <1>3, <2>1, <2>2
  <2>4. BlobOf(p, S) = IF commits[p][Max(S)].file.id = 0 THEN {} ELSE {commits[p][Max(S)].file}
    BY <1>6 DEF BlobOf
  <2>5. BlobOf(p, S)' = IF commits'[p][Max(S)].file.id = 0 THEN {} ELSE {commits'[p][Max(S)].file}
    BY <1>4, <1>6 DEF BlobOf
  <2> QED BY <2>3, <2>4, <2>5 DEF S
<1> QED BY <1>5, <1>6

\* When a rewrite of a committed file is logged, the newest commit has that file.
LEMMA PlainIsDated ==
  ASSUME WorldOK, FilesOK, NEW p \in Paths, NEW x \in Edited(p), Touch(p, x).plain
  PROVE  \E f \in File : /\ BlobOf(p, Before(p, clock + 1)) = {f}
                         /\ IntersectSpan(Touch(p, x), f.layout) = Touch(p, x).names
<1> DEFINE l == live[p].layout
           t == Touch(p, x)
           n == Len(commits[p])
<1>1. /\ GitTypes /\ CommitsPast /\ LiveFiles
  BY DEF FilesOK
<1>2. /\ l \in Seq(Names) /\ clock \in Nat /\ commits[p] \in Seq(CommitRow) /\ live[p] \in File
  BY <1>1, FileTypes
<1>3. x.plain /\ CommittedFile(p) = live[p]
  BY DEF Touch, Clean
<1>4. PICK i \in DOMAIN l : x = [layout |-> l, first |-> i, last |-> i, plain |-> TRUE]
  BY <1>3 DEF Edited
<1>5. i \in Nat /\ i # 0 /\ i..i = {i} /\ l # <<>>
  BY <1>2, <1>4
<1>6. t.first = i /\ t.last = i /\ t.names = {l[i]}
  <2>1. t.first = x.first /\ t.last = x.last /\ t.names = {x.layout[j] : j \in x.first..x.last \ {0}}
    BY DEF Touch
  <2>2. x.first = i /\ x.last = i /\ x.layout = l
    BY <1>4
  <2>3. x.first..x.last \ {0} = {i}
    BY <1>5, <2>2
  <2> HIDE DEF l
  <2>4. t.names = {l[i]}
    BY <2>1, <2>2, <2>3
  <2> QED BY <2>1, <2>2, <2>4
<1>7. IntersectSpan(t, l) = t.names
  <2>1. i..i \cap DOMAIN l = {i}
    BY <1>4, <1>5
  <2> HIDE DEF l, t
  <2> QED BY <1>5, <1>6, <2>1 DEF IntersectSpan
<1>8. live[p].id # 0
  BY <1>1, <1>5 DEF LiveFiles
<1>9. n \in Nat /\ n # 0 /\ DOMAIN commits[p] = 1..n /\ commits[p][n].file = live[p]
  <2>1. commits[p] # <<>>
    BY <1>3, <1>8 DEF CommittedFile, Tracked, Gone
  <2>2. commits[p][n].file = live[p]
    BY <1>3, <2>1 DEF CommittedFile, Tracked, Last
  <2> QED BY <1>2, <2>1, <2>2
<1> DEFINE S == Before(p, clock + 1)
<1>10. S = 1..n
  <2>1. ASSUME NEW j \in DOMAIN commits[p] PROVE commits[p][j].time <= clock + 1
    <3>1. commits[p][j] \in CommitRow /\ commits[p][j].time <= clock
      BY <1>1, <1>2 DEF CommitsPast
    <3>2. commits[p][j].time \in Nat
      BY <3>1 DEF CommitRow
    <3> QED BY <1>2, <3>1, <3>2
  <2> HIDE DEF n
  <2> QED BY <1>9, <2>1 DEF Before
<1> HIDE DEF S, n
<1>11. S # {} /\ Max(S) = n
  <2>0. n \in Nat /\ n # 0
    BY <1>9
  <2>1. S # {} /\ S \in SUBSET (1..n) /\ n \in S
    BY <2>0, <1>10
  <2>2. Max(S) \in S /\ n <= Max(S)
    BY <2>0, <2>1, MaxIsOne
  <2> QED BY <2>0, <1>10, <2>1, <2>2
<1>12. BlobOf(p, S) = {live[p]}
  BY <1>8, <1>9, <1>11 DEF BlobOf
<1> QED BY <1>2, <1>7, <1>12 DEF S

LEMMA DatedInductive ==
  ASSUME WorldOK, FilesOK, PlainDated, [Next]_vars
  PROVE  PlainDated'
<1>1. ASSUME UNCHANGED <<log, commits>> PROVE PlainDated'
  <2>1. \A c : IsCall(c)' <=> IsCall(c)
    BY <1>1 DEF IsCall
  <2>2. ASSUME NEW p, NEW ts PROVE BlobOf(p, Before(p, ts))' = BlobOf(p, Before(p, ts))
    BY <1>1 DEF BlobOf, Before
  <2> SUFFICES ASSUME NEW c \in Call, IsCall(c), c.plain
               PROVE  \E f \in File : /\ BlobOf(c.path, Before(c.path, c.ts))' = {f}
                                      /\ IntersectSpan(c, f.layout) = c.names
    BY <2>1 DEF PlainDated
  <2> DEFINE p == c.path
             ts == c.ts
  <2>3. BlobOf(p, Before(p, ts))' = BlobOf(p, Before(p, ts))
    BY <2>2
  <2> QED BY <2>3 DEF PlainDated
<1>2. CASE UNCHANGED vars
  BY <1>1, <1>2 DEF vars, world
<1>3. ASSUME NEW s \in Sessions, Edit(s) PROVE PlainDated'
  <2>1. PICK p \in Paths : \E x \in Edited(p) :
          Logs(s, IF s \in Doubling THEN <<Touch(p, x), Touch(p, x)>> ELSE <<Touch(p, x)>>, {},
               IF s \in Terse THEN {} ELSE Touch(p, x).names)
    BY <1>3 DEF Edit
  <2>2. PICK x \in Edited(p) :
          Logs(s, IF s \in Doubling THEN <<Touch(p, x), Touch(p, x)>> ELSE <<Touch(p, x)>>, {},
               IF s \in Terse THEN {} ELSE Touch(p, x).names)
    BY <2>1
  <2> DEFINE t == Touch(p, x)
             calls == IF s \in Doubling THEN <<t, t>> ELSE <<t>>
             spoken == IF s \in Terse THEN {} ELSE t.names
  <2>3. t \in Call /\ t.ts = clock + 1 /\ t.path = p
    BY TouchTypes, CodeProvenanceAssumption DEF Touch
  <2>4. Logs(s, calls, {}, spoken)
    BY <2>2
  <2> HIDE DEF t
  <2>5. calls \in Seq(Call) /\ \A i \in DOMAIN calls : calls[i] = t
    BY <2>3
  <2> HIDE DEF calls, spoken
  <2> SUFFICES ASSUME NEW c \in Call, IsCall(c)', c.plain
               PROVE  \E f \in File : /\ BlobOf(c.path, Before(c.path, c.ts)) = {f}
                                      /\ IntersectSpan(c, f.layout) = c.names
    BY <1>3 DEF PlainDated, Edit, BlobOf, Before
  <2>6. CASE IsCall(c)
    BY <2>6 DEF PlainDated
  <2>7. CASE c = t
    <3>1. \E f \in File : /\ BlobOf(p, Before(p, clock + 1)) = {f}
                          /\ IntersectSpan(t, f.layout) = t.names
      BY <2>7, PlainIsDated DEF t
    <3> QED BY <2>3, <2>7, <3>1
  <2> QED BY <2>4, <2>5, <2>6, <2>7, LogsAdd
<1>4. ASSUME NEW s \in Sessions, Move(s) PROVE PlainDated'
  <2>1. PICK p \in Paths, q \in Paths : Logs(s, <<>>, {<<p, q>>}, {})
    BY <1>4 DEF Move
  <2>2. <<>> \in Seq(Call) /\ DOMAIN <<>> = {}
    OBVIOUS
  <2>3. \A c : IsCall(c)' => IsCall(c)
    BY <2>1, <2>2, LogsAdd
  <2> QED BY <1>4, <2>3 DEF PlainDated, Move, BlobOf, Before
<1>5. CASE Commit
  <2>1. \A c : IsCall(c)' <=> IsCall(c)
    BY <1>5 DEF Commit, IsCall
  <2> SUFFICES ASSUME NEW c \in Call, IsCall(c), c.plain
               PROVE  \E f \in File : /\ BlobOf(c.path, Before(c.path, c.ts))' = {f}
                                      /\ IntersectSpan(c, f.layout) = c.names
    BY <2>1 DEF PlainDated
  <2>2. c.ts \in Nat /\ c.ts <= clock /\ c.path \in Paths
    BY CallsAreLogged
  <2> DEFINE p == c.path
             ts == c.ts
  <2>3. BlobOf(p, Before(p, ts))' = BlobOf(p, Before(p, ts))
    <3>1. p \in Paths /\ ts \in Nat /\ ts <= clock
      BY <2>2
    <3>2. ASSUME NEW a \in Paths, NEW b \in Nat, b <= clock
          PROVE  BlobOf(a, Before(a, b))' = BlobOf(a, Before(a, b))
      BY <1>5, <3>2, BlobStays DEF FilesOK
    <3> QED BY <3>1, <3>2
  <2> QED BY <2>3 DEF PlainDated
<1>6. CASE UserMove
  BY <1>1, <1>6 DEF UserMove
<1>7. CASE Upgrade
  BY <1>1, <1>7 DEF Upgrade, world
<1>8. ASSUME NEW e \in 1..MaxExchanges, Ingest(e) \/ IngestFilesOnly(e) \/ IngestAgainstLive(e)
      PROVE  PlainDated'
  BY <1>1, <1>8 DEF Ingest, IngestFilesOnly, IngestAgainstLive, Store, world
<1>9. ASSUME NEW e \in 1..MaxExchanges, Distill(e) PROVE PlainDated'
  BY <1>1, <1>9 DEF Distill, world
<1> QED BY <1>2, <1>3, <1>4, <1>5, <1>6, <1>7, <1>8, <1>9 DEF Next

LEMMA DatedHolds == Spec => []PlainDated
<1>1. Init => PlainDated
  BY DEF Init, PlainDated, IsCall
<1>2. WorldOK /\ FilesOK /\ PlainDated /\ [Next]_vars => PlainDated'
  BY DatedInductive
<1>3. IInv => WorldOK
  BY DEF IInv
<1> QED BY <1>1, <1>2, <1>3, IInvHolds, FilesHold, PTL DEF Spec

\* Both lookups then find that file, git_blob_near and its batched counterpart.
LEMMA PlainResolves ==
  ASSUME WorldOK, PlainDated, NEW c, IsCall(c), c.plain
  PROVE  /\ IntersectSpan(c, ResolveSymbolsAt(c.path, c.ts)) = c.names
         /\ IntersectSpan(c, BatchResolve(c.path, c.ts)) = c.names
<1> DEFINE p == c.path
           S == Before(p, c.ts)
<1>1. c \in Call
  BY CallsAreLogged
<1>2. PICK f \in File : BlobOf(p, S) = {f} /\ IntersectSpan(c, f.layout) = c.names
  BY <1>1 DEF PlainDated
<1>3. BlobOf(p, S) # {} /\ S # {}
  BY <1>2 DEF BlobOf
<1>4. LayoutOf(BlobOf(p, S), p) = f.layout
  BY <1>2 DEF LayoutOf
<1>5. ResolveSymbolsAt(p, c.ts) = f.layout
  BY <1>3, <1>4 DEF ResolveSymbolsAt, GitBlobNear
<1>6. BatchResolve(p, c.ts) = f.layout
  BY <1>3, <1>4 DEF BatchResolve, BatchBlobNear
<1> QED BY <1>2, <1>5, <1>6

\* Every stored rewrite has an edge to each symbol it rewrote.
PlainLinked ==
    upgraded => \A r \in touches : r.touch.plain =>
        \A n \in r.touch.names : Edge(r.e, r.touch.path, n, "edit") \in DOMAIN edges

LEMMA PlainLinkedInductive ==
  ASSUME IInv, PlainDated, PlainLinked, [Next]_vars
  PROVE  PlainLinked'
<1>0. WorldOK /\ TouchesLogged
  BY DEF IInv
<1>1. CASE UNCHANGED vars
  BY <1>1 DEF vars, db, PlainLinked
<1>2. CASE Quiet
  <2>1. UNCHANGED <<touches, edges>>
    BY <1>2, QuietChangesNothing
  <2>2. upgraded' => upgraded
    BY <1>2, QuietStores
  <2> QED BY <2>1, <2>2 DEF PlainLinked
<1>3. CASE Upgrade
  <2>1. /\ DOMAIN edges' = DOMAIN edges \cup BareEdges \cup DatedEdges
        /\ touches' = touches
    BY <1>3, UpgradeAdds DEF Upgrade
  <2> SUFFICES ASSUME NEW r \in touches, r.touch.plain, NEW n \in r.touch.names
               PROVE  Edge(r.e, r.touch.path, n, "edit") \in DatedEdges
    BY <2>1 DEF PlainLinked
  <2>2. IsCall(r.touch)
    BY <1>0 DEF TouchesLogged, IsCall, WorldOK
  <2>3. n \in IntersectSpan(r.touch, BatchResolve(r.touch.path, r.touch.ts))
    BY <1>0, <2>2, PlainResolves
  <2>4. r \in Datable
    BY <2>3 DEF Datable
  <2> QED BY <2>3, <2>4 DEF DatedEdges
<1>4. ASSUME NEW e \in 1..MaxExchanges, Ingest(e) PROVE PlainLinked'
  <2> DEFINE ts == log[e].touches
             layouts == [i \in DOMAIN ts |-> ResolveSymbolsAt(ts[i].path, ts[i].ts)]
  <2>1. PersistArtifacts(e, layouts)
    BY <1>4 DEF Ingest
  <2> HIDE DEF layouts
  <2>2. /\ DOMAIN edges' = DOMAIN edges \cup NewEdges(e, layouts)
        /\ touches' = touches \cup Rows(e, NewTouches(ts))
    BY <2>1, PersistAdds
  <2>3. upgraded /\ e \in DOMAIN log
    BY <1>4 DEF Ingest, Store, NextOf
  <2> SUFFICES ASSUME NEW r \in touches', r.touch.plain, NEW n \in r.touch.names
               PROVE  Edge(r.e, r.touch.path, n, "edit") \in DOMAIN edges'
    BY DEF PlainLinked
  <2>4. CASE r \in touches
    BY <2>2, <2>3, <2>4 DEF PlainLinked
  <2>5. CASE r \in Rows(e, NewTouches(ts))
    <3>1. PICK i \in NewTouches(ts) : r = [e |-> e, touch |-> ts[i]]
      BY <2>5 DEF Rows
    <3>2. i \in DOMAIN ts /\ r.e = e /\ r.touch = ts[i]
      BY <3>1 DEF NewTouches
    <3>3. IsCall(ts[i])
      BY <2>3, <3>2 DEF IsCall
    <3>4. layouts[i] = ResolveSymbolsAt(ts[i].path, ts[i].ts)
      BY <3>2 DEF layouts
    <3>5. IntersectSpan(ts[i], layouts[i]) = ts[i].names
      BY <1>0, <3>2, <3>3, <3>4, PlainResolves
    <3>6. n \in TouchToEdges(ts[i], layouts[i])
      BY <3>2, <3>5 DEF TouchToEdges
    <3>7. Edge(e, ts[i].path, n, "edit") \in NewEdges(e, layouts)
      BY <3>1, <3>6 DEF NewEdges, LinksOf
    <3> QED BY <2>2, <3>2, <3>7
  <2> QED BY <2>2, <2>4, <2>5
<1>5. ASSUME NEW e \in 1..MaxExchanges, IngestAgainstLive(e) PROVE PlainLinked'
  BY <1>5 DEF IngestAgainstLive, Store, PlainLinked
<1>6. ASSUME NEW e \in 1..MaxExchanges, Distill(e) PROVE PlainLinked'
  <2>1. DOMAIN edges' = DOMAIN edges \cup SpokenEdges(e)
    BY <1>6, DistillAdds
  <2>2. UNCHANGED <<upgraded, touches>>
    BY <1>6 DEF Distill
  <2> QED BY <2>1, <2>2 DEF PlainLinked
<1> QED BY <1>1, <1>2, <1>3, <1>4, <1>5, <1>6 DEF Next, Quiet

LEMMA PlainLinkedHolds == Spec => []PlainLinked
<1>1. Init => PlainLinked
  BY DEF Init, PlainLinked
<1>2. IInv /\ PlainDated /\ PlainLinked /\ [Next]_vars => PlainLinked'
  BY PlainLinkedInductive
<1> QED BY <1>1, <1>2, IInvHolds, DatedHolds, PTL DEF Spec

\* A symbol that an edit rewrote in a committed file answers with the edit's exchange,
\* in the symbol tier, whatever has become of the file, and whichever version stored
\* the exchange: git's newest commit before the edit is the one the edit was made on,
\* for later commits are later than the edit.
THEOREM RewritesLeadToTheirSymbol == Spec => []RewritesFindTheirSymbol
<1>1. ASSUME IInv, PlainLinked, EdgesNameKnownSymbols PROVE RewritesFindTheirSymbol
  <2> SUFFICES ASSUME upgraded, NEW r \in touches, r.touch.plain, NEW n \in r.touch.names
               PROVE  /\ ResolveU1(r.touch.path, n).kind = "symbol"
                      /\ r.e \in ResolveU1(r.touch.path, n).hits
    BY DEF RewritesFindTheirSymbol
  <2> DEFINE p == r.touch.path
             ps == {p} \cup Aliases(p)
             k == Edge(r.e, p, n, "edit")
             tiers == <<SymbolTier(ps, n), FileTier(ps), DirTier(p), TouchSymbolTier(ps, n),
                        TouchTier(ps)>>
             with == {i \in DOMAIN tiers : tiers[i].hits # {}}
  <2>1. k \in DOMAIN edges
    BY <1>1 DEF PlainLinked
  <2>2. WorldOK /\ IsCall(r.touch)
    BY <1>1 DEF IInv, TouchesLogged, IsCall, WorldOK
  <2>3. n # None
    BY <2>2, CallsAreLogged, CodeProvenanceAssumption DEF CodeProvenanceAssumption
  <2>4. k.e = r.e /\ k.path = p /\ k.name = n
    BY DEF Edge
  <2>5. <<p, n>> \in DOMAIN symbols
    BY <1>1, <2>1, <2>3, <2>4 DEF EdgesNameKnownSymbols
  <2> HIDE DEF k
  <2>6. SymbolTier(ps, n).kind = "symbol" /\ r.e \in SymbolTier(ps, n).hits
    BY <2>1, <2>4, <2>5 DEF SymbolTier, Tier
  <2>7. 1 \in with /\ with \subseteq {1, 2, 3, 4, 5}
    BY <2>6
  <2>8. Min(with) = 1
    <3> HIDE DEF with
    <3>1. \A x \in with : 1 =< x
      BY <2>7
    <3>2. \A x \in with : (\A y \in with : x =< y) => x = 1
      BY <2>7
    <3> QED BY <2>7, <3>1, <3>2 DEF Min
  <2>9. ResolveU1(p, n) = tiers[1]
    BY <2>7, <2>8 DEF ResolveU1, Answer
  <2> QED BY <2>6, <2>9
<1> QED BY <1>1, IInvHolds, PlainLinkedHolds, EdgesAreKnown, PTL
=============================================================================
