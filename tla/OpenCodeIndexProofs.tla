------------------------- MODULE OpenCodeIndexProofs -------------------------
(***************************************************************************)
(* Proofs about OpenCodeIndex, for any number of runs, turns, words and    *)
(* kills, any times and any old rows: types, what a stored row says, and,  *)
(* for as long as old rows were in the hands of one run at a time, that no *)
(* turn is stored twice.                                                   *)
(***************************************************************************)
EXTENDS OpenCodeIndex, FiniteSetTheorems, TLAPS

\* OpenCode's turns and their times, what is set aside of TypeOK.
SourceOK ==
    /\ turns \in Seq(Words) /\ Len(turns) <= MaxTurns
    /\ time \in [DOMAIN turns -> DOMAIN turns]
    /\ \A s, t \in DOMAIN turns : time[s] = time[t] => s = t

-----------------------------------------------------------------------------
(* What a run reads: whole turns                                           *)

\* The number of a turn's parts: two, and one more when it edits.
LEMMA PartsOfTurn ==
  ASSUME NEW t \in Nat, t # 0
  PROVE  /\ Parts(t - 1) \in Nat /\ Parts(t) \in Nat
         /\ Parts(t - 1) + 2 <= Parts(t)
         /\ t \in Editing => Parts(t) = Parts(t - 1) + 3
<1> DEFINE S == Editing \cap 1..t - 1
           T == Editing \cap 1..t
<1>1. IsFiniteSet(1..t)
  BY FS_Interval
<1>2. IsFiniteSet(T) /\ Cardinality(T) \in Nat
  BY <1>1, FS_Subset, FS_CardinalityType
<1>3. S \in SUBSET T
  OBVIOUS
<1>4. IsFiniteSet(S) /\ Cardinality(S) \in Nat /\ Cardinality(S) <= Cardinality(T)
  <2> HIDE DEF S, T
  <2> QED BY <1>2, <1>3, FS_Subset, FS_CardinalityType
<1>5. ASSUME t \in Editing PROVE Cardinality(T) = Cardinality(S) + 1
  <2>1. T = S \cup {t} /\ t \notin S
    BY <1>5
  <2> HIDE DEF S, T
  <2> QED BY <2>1, <1>4, FS_AddElement
<1>6. Parts(t - 1) = 2 * (t - 1) + Cardinality(S) /\ Parts(t) = 2 * t + Cardinality(T)
  BY DEF Parts
<1> HIDE DEF S, T
<1> QED BY <1>2, <1>4, <1>5, <1>6

\* More turns have no fewer parts.
LEMMA PartsGrow ==
  ASSUME NEW m \in Nat, NEW n \in Nat, m <= n
  PROVE  /\ Parts(m) \in Nat /\ Parts(n) \in Nat
         /\ Parts(m) <= Parts(n)
<1> DEFINE S == Editing \cap 1..m
           T == Editing \cap 1..n
<1>1. IsFiniteSet(1..n)
  BY FS_Interval
<1>2. IsFiniteSet(T) /\ Cardinality(T) \in Nat
  BY <1>1, FS_Subset, FS_CardinalityType
<1>3. S \in SUBSET T
  OBVIOUS
<1>4. IsFiniteSet(S) /\ Cardinality(S) \in Nat /\ Cardinality(S) <= Cardinality(T)
  <2> HIDE DEF S, T
  <2> QED BY <1>2, <1>3, FS_Subset, FS_CardinalityType
<1>5. Parts(m) = 2 * m + Cardinality(S) /\ Parts(n) = 2 * n + Cardinality(T)
  BY DEF Parts
<1> HIDE DEF S, T
<1> QED BY <1>2, <1>4, <1>5

LEMMA RowsAre ==
  ASSUME NEW n \in Nat, NEW r \in Rows(n)
  PROVE  /\ r.turn \in 1..n /\ r.step \in 1..5
         /\ r = [turn |-> r.turn, step |-> r.step]
         /\ What(r) \in {"ask", "said", "reply", "answer", "edit"}
         /\ What(r) = "edit" => r.turn \in Editing
BY DEF Rows, What, Steps

\* A row comes after the last rowids of n turns when its turn does.
LEMMA AfterTurns ==
  ASSUME NEW N \in Nat, NEW n \in 0..N, NEW r \in Rows(N)
  PROVE  Rowid(r) > LastRowids(n)[Table(r)] <=> r.turn > n
<1> DEFINE t == r.turn
<1>1. t \in 1..N /\ What(r) \in {"ask", "said", "reply", "answer", "edit"}
      /\ (What(r) = "edit" => t \in Editing)
  BY RowsAre
<1>2. t \in Nat /\ t # 0 /\ t - 1 \in Nat /\ n \in Nat
  BY <1>1
<1>3. /\ Parts(t - 1) \in Nat /\ Parts(t) \in Nat
      /\ Parts(t - 1) + 2 <= Parts(t)
      /\ t \in Editing => Parts(t) = Parts(t - 1) + 3
  <2> HIDE DEF t
  <2> QED BY <1>2, PartsOfTurn
<1>4. t <= n => Parts(t) <= Parts(n) /\ Parts(n) \in Nat
  <2> HIDE DEF t
  <2> QED BY <1>2, PartsGrow
<1>5. t > n => Parts(n) <= Parts(t - 1) /\ Parts(n) \in Nat
  <2> HIDE DEF t
  <2>1. t > n => n <= t - 1
    BY <1>2
  <2> QED BY <1>2, <2>1, PartsGrow
<1>6. LastRowids(n).message = 2 * n /\ LastRowids(n).part = Parts(n)
  BY DEF LastRowids
<1>7. CASE What(r) = "ask"
  <2>1. Table(r) = "message" /\ Rowid(r) = 2 * (t - 1) + 1
    BY <1>7 DEF Table, Rowid
  <2> HIDE DEF t
  <2> QED BY <2>1, <1>2, <1>6 DEF t
<1>8. CASE What(r) = "reply"
  <2>1. Table(r) = "message" /\ Rowid(r) = 2 * (t - 1) + 2
    BY <1>8 DEF Table, Rowid
  <2> QED BY <2>1, <1>2, <1>6
<1>9. CASE What(r) = "said"
  <2>1. Table(r) = "part" /\ Rowid(r) = Parts(t - 1) + 1
    BY <1>9 DEF Table, Rowid
  <2> QED BY <2>1, <1>2, <1>3, <1>4, <1>5, <1>6
<1>10. CASE What(r) = "answer"
  <2>1. Table(r) = "part" /\ Rowid(r) = Parts(t - 1) + 2
    BY <1>10 DEF Table, Rowid
  <2> QED BY <2>1, <1>2, <1>3, <1>4, <1>5, <1>6
<1>11. CASE What(r) = "edit"
  <2>1. Table(r) = "part" /\ Rowid(r) = Parts(t - 1) + 3
    BY <1>11 DEF Table, Rowid
  <2> QED BY <2>1, <1>11, <1>1, <1>2, <1>3, <1>4, <1>5, <1>6
<1> QED BY <1>1, <1>7, <1>8, <1>9, <1>10, <1>11

\* The two sides of a turn.
Say(t) == {<<t, "said">>, <<t, "answer">>}

\* A turn that is read whole.
Turn(t) == [id |-> t, texts |-> Say(t), files |-> t \in Editing, start |-> time[t]]

RowRead(t, k) == [turn |-> t, step |-> k, time |-> time[t]]

\* After the last rowids of n turns the rows of the later ones are read.
LEMMA ChunkIs ==
  ASSUME SourceOK, NEW n \in 0..Len(turns), NEW r
  PROVE  r \in Chunk(LastRowids(n)) <=>
           \E t \in n + 1..Len(turns), k \in 1..5 : (k = 5 => t \in Editing) /\ r = RowRead(t, k)
<1> DEFINE N == Len(turns)
           A == {s \in Rows(N) : Rowid(s) > LastRowids(n)[Table(s)]}
           B == {s \in Rows(N) : s.turn > n}
<1>0. N \in Nat
  BY DEF SourceOK
<1>1. A = B
  <2>1. ASSUME NEW s \in Rows(N) PROVE Rowid(s) > LastRowids(n)[Table(s)] <=> s.turn > n
    <3> HIDE DEF N
    <3>1. n \in 0..N
      BY DEF N
    <3> QED BY <1>0, <2>1, <3>1, AfterTurns
  <2> QED BY <2>1
<1>2. r \in Chunk(LastRowids(n)) <=>
        \E s \in A : r = [turn |-> s.turn, step |-> s.step, time |-> time[s.turn]]
  BY DEF Chunk
<1>3. \A s : s \in B <=> \E t \in n + 1..N, k \in 1..5 :
                           (k = 5 => t \in Editing) /\ s = [turn |-> t, step |-> k]
  <2> SUFFICES ASSUME NEW s
               PROVE  s \in B <=> \E t \in n + 1..N, k \in 1..5 :
                           (k = 5 => t \in Editing) /\ s = [turn |-> t, step |-> k]
    OBVIOUS
  <2>1. ASSUME s \in B
        PROVE  \E t \in n + 1..N, k \in 1..5 :
                   (k = 5 => t \in Editing) /\ s = [turn |-> t, step |-> k]
    <3>1. s \in Rows(N) /\ s.turn > n
      BY <2>1
    <3>2. /\ s.turn \in 1..N /\ s.step \in 1..5
          /\ s = [turn |-> s.turn, step |-> s.step]
          /\ What(s) = "edit" => s.turn \in Editing
      BY <1>0, <3>1, RowsAre
    <3>3. s.step = 5 => What(s) = "edit"
      BY DEF What, Steps
    <3>4. s.turn \in n + 1..N
      BY <3>1, <3>2
    <3> QED BY <3>2, <3>3, <3>4
  <2>2. ASSUME NEW t \in n + 1..N, NEW k \in 1..5, k = 5 => t \in Editing,
               s = [turn |-> t, step |-> k]
        PROVE  s \in B
    <3>1. t \in 1..N /\ t > n
      BY <1>0
    <3>2. What(s) = "edit" => t \in Editing
      BY <2>2 DEF What, Steps
    <3>3. s \in [turn : 1..N, step : DOMAIN Steps]
      BY <2>2, <3>1 DEF Steps
    <3> QED BY <2>2, <3>1, <3>2, <3>3 DEF Rows
  <2> QED BY <2>1, <2>2
<1>4. ASSUME NEW s \in A, r = [turn |-> s.turn, step |-> s.step, time |-> time[s.turn]]
      PROVE  \E t \in n + 1..N, k \in 1..5 : (k = 5 => t \in Editing) /\ r = RowRead(t, k)
  <2>1. s \in B
    BY <1>1, <1>4
  <2>2. PICK t \in n + 1..N, k \in 1..5 : (k = 5 => t \in Editing) /\ s = [turn |-> t, step |-> k]
    <3> HIDE DEF B
    <3> QED BY <2>1, <1>3
  <2>3. r = RowRead(t, k)
    BY <1>4, <2>2 DEF RowRead
  <2> QED BY <2>2, <2>3
<1>5. ASSUME NEW t \in n + 1..N, NEW k \in 1..5, k = 5 => t \in Editing, r = RowRead(t, k)
      PROVE  \E s \in A : r = [turn |-> s.turn, step |-> s.step, time |-> time[s.turn]]
  <2> DEFINE s == [turn |-> t, step |-> k]
  <2>1. s \in B
    <3> HIDE DEF B
    <3> QED BY <1>3, <1>5
  <2>2. s \in A
    <3> HIDE DEF B, A, s
    <3> QED BY <1>1, <2>1
  <2>3. r = [turn |-> s.turn, step |-> s.step, time |-> time[s.turn]]
    BY <1>5 DEF RowRead
  <2> HIDE DEF A, s
  <2> QED BY <2>2, <2>3
<1> HIDE DEF A
<1> QED BY <1>2, <1>4, <1>5

\* Whole turns are parsed as the turns they are, in whatever order their times put
\* them: a turn's rows have one time, and no two turns have the same.
LEMMA TurnsParsed ==
  ASSUME SourceOK, NEW n \in 0..Len(turns)
  PROVE  Exchanges(Chunk(LastRowids(n))) = {Turn(t) : t \in n + 1..Len(turns)}
<1> DEFINE N == Len(turns)
           E == Chunk(LastRowids(n))
<1>0. N \in Nat /\ DOMAIN turns = 1..N
  BY DEF SourceOK
<1>1. \A r : r \in E <=> \E t \in n + 1..N, k \in 1..5 : (k = 5 => t \in Editing) /\ r = RowRead(t, k)
  BY ChunkIs
<1>2. \A t, k : /\ RowRead(t, k).turn = t /\ RowRead(t, k).step = k
                /\ RowRead(t, k).time = time[t] /\ What(RowRead(t, k)) = Steps[k]
  BY DEF RowRead, What
<1>3. \A t \in 1..N : time[t] \in 1..N
  BY <1>0 DEF SourceOK
<1>4. \A s, t \in 1..N : time[s] = time[t] => s = t
  BY <1>0 DEF SourceOK
<1> HIDE DEF E, N
<1>5. \A r : r \in Boundaries(E) <=> \E t \in n + 1..N : r = RowRead(t, 1)
  <2>1. ASSUME NEW r \in E, What(r) = "ask"
        PROVE  \E t \in n + 1..N : r = RowRead(t, 1)
    <3>1. PICK t \in n + 1..N, k \in 1..5 : r = RowRead(t, k)
      BY <1>1, <2>1
    <3>2. Steps[k] = "ask"
      BY <1>2, <2>1, <3>1
    <3>3. k = 1
      BY <3>2 DEF Steps
    <3> QED BY <3>1, <3>3
  <2>2. ASSUME NEW t \in n + 1..N
        PROVE  RowRead(t, 1) \in E /\ What(RowRead(t, 1)) = "ask"
    <3>1. RowRead(t, 1) \in E
      BY <1>1
    <3>2. Steps[1] = "ask"
      BY DEF Steps
    <3> QED BY <1>2, <3>1, <3>2
  <2> QED BY <2>1, <2>2 DEF Boundaries
<1>6. ASSUME NEW t \in n + 1..N
      PROVE  \A r : r \in Slice(E, RowRead(t, 1)) <=>
                 \E k \in 1..5 : (k = 5 => t \in Editing) /\ r = RowRead(t, k)
  <2> DEFINE ask == RowRead(t, 1)
  <2>0. t \in 1..N /\ n + 1 \in Nat
    BY <1>0, <1>6 DEF N
  <2>1. ASSUME NEW r \in Slice(E, ask)
        PROVE  \E k \in 1..5 : (k = 5 => t \in Editing) /\ r = RowRead(t, k)
    <3>1. r \in E /\ ~Before(r, ask) /\ \A next \in Boundaries(E) : Before(ask, next) => Before(r, next)
      BY <2>1 DEF Slice
    <3>2. PICK u \in n + 1..N, k \in 1..5 : (k = 5 => u \in Editing) /\ r = RowRead(u, k)
      BY <1>1, <3>1
    <3>3. u \in 1..N
      BY <1>0, <3>2 DEF N
    <3>4. ASSUME u # t PROVE FALSE
      <4>1. ~(time[u] < time[t])
        BY <1>2, <3>1, <3>2 DEF Before
      <4>2. time[t] < time[u]
        BY <1>3, <1>4, <2>0, <3>3, <3>4, <4>1
      <4>3. RowRead(u, 1) \in Boundaries(E)
        BY <1>5
      <4>4. Before(ask, RowRead(u, 1))
        BY <1>2, <4>2 DEF Before
      <4>5. Before(r, RowRead(u, 1))
        BY <3>1, <4>3, <4>4
      <4>6. time[u] < time[u] \/ k < 1
        BY <4>5, <3>2, <1>2 DEF Before
      <4> QED BY <4>6, <1>3, <3>3
    <3> QED BY <3>2, <3>4
  <2>2. ASSUME NEW k \in 1..5, k = 5 => t \in Editing
        PROVE  RowRead(t, k) \in Slice(E, ask)
    <3>1. RowRead(t, k) \in E
      BY <1>1, <2>2
    <3>2. ~Before(RowRead(t, k), ask)
      <4>1. ~(time[t] < time[t]) /\ ~(k < 1)
        BY <1>3, <2>0
      <4> QED BY <4>1, <1>2 DEF Before
    <3>3. ASSUME NEW next \in Boundaries(E), Before(ask, next) PROVE Before(RowRead(t, k), next)
      <4>1. PICK u \in n + 1..N : next = RowRead(u, 1)
        BY <1>5
      <4>2. time[t] < time[u]
        <5>1. time[t] < time[u] \/ 1 < 1
          BY <1>2, <3>3, <4>1 DEF Before
        <5> QED BY <5>1
      <4> QED BY <1>2, <4>1, <4>2 DEF Before
    <3> QED BY <3>1, <3>2, <3>3 DEF Slice
  <2> QED BY <2>1, <2>2
<1>7. ASSUME NEW t \in n + 1..N
      PROVE  Exchange(E, RowRead(t, 1)) = Turn(t)
  <2> DEFINE ask == RowRead(t, 1)
  <2>1. \A r : r \in Slice(E, ask) <=>
                 \E k \in 1..5 : (k = 5 => t \in Editing) /\ r = RowRead(t, k)
    BY <1>6
  <2>2. Steps[1] = "ask" /\ Steps[2] = "said" /\ Steps[3] = "reply" /\ Steps[4] = "answer" /\ Steps[5] = "edit"
    BY DEF Steps
  <2>3. Texts(E, ask) = Say(t)
    <3> DEFINE T == {s \in Slice(E, ask) :
                       \/ What(s) = "said" /\ s.turn = ask.turn
                       \/ What(s) = "answer" /\ \E k \in E : k.turn = s.turn /\ What(k) = "reply"}
    <3>1. Texts(E, ask) = {<<r.turn, What(r)>> : r \in T}
      BY DEF Texts
    <3>2. RowRead(t, 2) \in T
      BY <1>2, <2>1, <2>2
    <3>3. RowRead(t, 4) \in T
      <4>1. RowRead(t, 3) \in E
        BY <1>1
      <4> QED BY <1>2, <2>1, <2>2, <4>1
    <3>4. ASSUME NEW r \in T PROVE r = RowRead(t, 2) \/ r = RowRead(t, 4)
      <4>1. PICK k \in 1..5 : r = RowRead(t, k)
        BY <2>1
      <4>2. Steps[k] \in {"said", "answer"}
        BY <1>2, <4>1
      <4>3. k \in {2, 4}
        BY <4>2, <2>2
      <4> QED BY <4>1, <4>3
    <3> HIDE DEF T
    <3>5. Texts(E, ask) = {<<RowRead(t, 2).turn, What(RowRead(t, 2))>>,
                           <<RowRead(t, 4).turn, What(RowRead(t, 4))>>}
      BY <3>1, <3>2, <3>3, <3>4
    <3> QED BY <3>5, <1>2, <2>2 DEF Say
  <2>4. (\E r \in Slice(E, ask) : What(r) = "edit") <=> t \in Editing
    <3>1. ASSUME NEW r \in Slice(E, ask), What(r) = "edit" PROVE t \in Editing
      <4>1. PICK k \in 1..5 : (k = 5 => t \in Editing) /\ r = RowRead(t, k)
        BY <2>1, <3>1
      <4>2. Steps[k] = "edit"
        BY <1>2, <3>1, <4>1
      <4> QED BY <4>1, <4>2, <2>2
    <3>2. ASSUME t \in Editing PROVE \E r \in Slice(E, ask) : What(r) = "edit"
      <4>1. RowRead(t, 5) \in Slice(E, ask)
        BY <2>1, <3>2
      <4> QED BY <4>1, <1>2, <2>2
    <3> QED BY <3>1, <3>2
  <2>5. ask.turn = t /\ ask.time = time[t]
    BY <1>2
  <2> DEFINE edits == \E r \in Slice(E, ask) : What(r) = "edit"
  <2>6. edits <=> t \in Editing
    BY <2>4
  <2>7. Exchange(E, ask) = [id |-> ask.turn, texts |-> Texts(E, ask), files |-> edits, start |-> ask.time]
    BY DEF Exchange
  <2> HIDE DEF edits, ask
  <2>8. Exchange(E, ask) = [id |-> t, texts |-> Say(t), files |-> (t \in Editing), start |-> time[t]]
    BY <2>3, <2>5, <2>6, <2>7
  <2> QED BY <2>8 DEF Turn, ask
<1>8. \A x : x \in Exchanges(E) <=> \E t \in n + 1..N : x = Turn(t)
  BY <1>5, <1>7 DEF Exchanges
<1> QED BY <1>8 DEF E, N

-----------------------------------------------------------------------------
(* The invariant: what is stored, and what a run has in hand               *)

Own(u) == [id |-> u, key |-> u, texts |-> Say(u)]

\* An old row that took the id of a turn.
Taken(u, i) == [id |-> i, key |-> -u, texts |-> Say(u)]

\* A row is a turn's own, an old one, or an old one under the id of a turn that
\* says the same.
RowOK(x) ==
    \E u \in DOMAIN turns :
        \/ x = Own(u)
        \/ x = LegacyRow(u)
        \/ \E i \in DOMAIN turns : turns[i] = turns[u] /\ x = Taken(u, i)

\* A cursor stands after a turn, never within one.
Whole(c) == \E n \in 0..Len(turns) : c = LastRowids(n)

\* An exchange in hand is a turn as it was read.
HeldOK(x) == x.id \in DOMAIN turns /\ x.texts = Say(x.id)

RunOK(p) ==
    /\ pc[p] = "idle" => seen[p] = Unread /\ batch[p] = {}
    /\ pc[p] = "ingest" => Whole(seen[p].cursor)
    /\ \A y \in seen[p].legacy : \E u \in DOMAIN turns : y = LegacyRow(u)
    /\ \A x \in batch[p] : HeldOK(x)
    /\ \A x, y \in batch[p] : x.id = y.id \/ x.start = y.start => x = y

\* The values of a run's variables.
Held    == [id : 1..MaxTurns, texts : {Say(t) : t \in 1..MaxTurns}, files : BOOLEAN, start : 1..MaxTurns]
SeenSet == [legacy : SUBSET {LegacyRow(t) : t \in 1..MaxTurns},
            cursor : {NoCursor} \cup {LastRowids(n) : n \in 0..MaxTurns}]

RunTypes ==
    /\ pc \in [Indexers -> {"idle", "ingest"}]
    /\ seen \in [Indexers -> SeenSet]
    /\ batch \in [Indexers -> SUBSET Held]

Inv ==
    /\ SourceOK
    /\ RunTypes
    /\ cursor = NoCursor \/ Whole(cursor)
    /\ \A x \in stored : RowOK(x)
    /\ \A p \in Indexers : RunOK(p)

LEMMA Length ==
  ASSUME SourceOK
  PROVE  /\ Len(turns) \in Nat /\ DOMAIN turns = 1..Len(turns)
         /\ DOMAIN turns \subseteq 1..MaxTurns
BY OpenCodeAssumption DEF SourceOK

LEMMA InvInit == Init => Inv
<1> SUFFICES ASSUME Init PROVE Inv
  OBVIOUS
<1>1. PICK n \in 0..LegacyTurns : \E w \in [1..n -> Words] :
         /\ turns = w
         /\ time = [t \in 1..n |-> t]
         /\ stored = {LegacyRow(t) : t \in 1..n}
  BY DEF Init
<1>2. PICK w \in [1..n -> Words] : turns = w
  BY <1>1
<1>3. n \in Nat /\ n <= MaxTurns
  BY OpenCodeAssumption
<1>4. turns \in Seq(Words) /\ Len(turns) = n /\ DOMAIN turns = 1..n
  BY <1>2, <1>3
<1>5. SourceOK
  BY <1>1, <1>3, <1>4 DEF SourceOK
<1>6. RunTypes
  <2>1. Unread \in SeenSet
    BY DEF Unread, SeenSet
  <2> QED BY <2>1 DEF RunTypes, Init
<1>7. \A x \in stored : RowOK(x)
  BY <1>1, <1>4 DEF RowOK
<1>8. \A p \in Indexers : RunOK(p)
  BY DEF Init, RunOK, Unread
<1> QED BY <1>5, <1>6, <1>7, <1>8 DEF Inv, Init

-----------------------------------------------------------------------------
\* New turns leave what was said before as it was.
Grown ==
    /\ Len(turns)' \in Nat /\ Len(turns) <= Len(turns)'
    /\ DOMAIN turns' = 1..Len(turns)'
    /\ \A t \in DOMAIN turns : turns'[t] = turns[t]

LEMMA RowsStay ==
  ASSUME SourceOK, Grown
  PROVE  /\ DOMAIN turns \subseteq DOMAIN turns'
         /\ \A x : RowOK(x) => RowOK(x)'
         /\ \A c : Whole(c) => Whole(c)'
         /\ \A x : HeldOK(x) => HeldOK(x)'
<1>1. Len(turns) \in Nat /\ DOMAIN turns = 1..Len(turns)
  BY Length
<1>2. DOMAIN turns \subseteq DOMAIN turns'
  BY <1>1 DEF Grown
<1>3. ASSUME NEW CONSTANT x, RowOK(x) PROVE RowOK(x)'
  <2>1. PICK u \in DOMAIN turns :
        \/ x = Own(u)
        \/ x = LegacyRow(u)
        \/ \E i \in DOMAIN turns : turns[i] = turns[u] /\ x = Taken(u, i)
    BY <1>3 DEF RowOK
  <2>2. u \in DOMAIN turns'
    BY <1>2
  <2>3. ASSUME NEW i \in DOMAIN turns, turns[i] = turns[u]
        PROVE  i \in DOMAIN turns' /\ turns'[i] = turns'[u]
    BY <1>2, <2>3 DEF Grown
  <2> QED BY <2>1, <2>2, <2>3 DEF RowOK
<1>4. ASSUME NEW CONSTANT c, Whole(c) PROVE Whole(c)'
  <2>1. PICK n \in 0..Len(turns) : c = LastRowids(n)
    BY <1>4 DEF Whole
  <2>2. n \in 0..Len(turns)'
    BY <1>1 DEF Grown
  <2> QED BY <2>1, <2>2 DEF Whole
<1>5. \A x : HeldOK(x) => HeldOK(x)'
  BY <1>2 DEF HeldOK
<1> QED BY <1>2, <1>3, <1>4, <1>5

\* A run that does nothing itself stays as it should be.
LEMMA RunStays ==
  ASSUME SourceOK, Grown, NEW p \in Indexers, RunOK(p),
         pc'[p] = pc[p], seen'[p] = seen[p], batch'[p] = batch[p]
  PROVE  RunOK(p)'
<1>1. /\ DOMAIN turns \subseteq DOMAIN turns'
      /\ \A c : Whole(c) => Whole(c)'
      /\ \A x : HeldOK(x) => HeldOK(x)'
  BY RowsStay
<1>2. pc'[p] = "idle" => seen'[p] = Unread /\ batch'[p] = {}
  BY DEF RunOK
<1>3. (pc[p] = "ingest" => Whole(seen[p].cursor))'
  <2> DEFINE c == seen[p].cursor
  <2>1. ASSUME pc[p] = "ingest" PROVE \E n \in 0..Len(turns)' : c = LastRowids(n)
    <3>1. PICK n \in 0..Len(turns) : c = LastRowids(n)
      BY <2>1 DEF RunOK, Whole
    <3>2. n \in 0..Len(turns)'
      BY Length DEF Grown
    <3> QED BY <3>1, <3>2
  <2> QED BY <2>1 DEF Whole
<1>4. \A y \in seen'[p].legacy : \E u \in DOMAIN turns' : y = LegacyRow(u)
  BY <1>1 DEF RunOK
<1>5. \A x \in batch'[p] : HeldOK(x)'
  BY <1>1 DEF RunOK, HeldOK
<1>6. \A x, y \in batch'[p] : x.id = y.id \/ x.start = y.start => x = y
  BY DEF RunOK
<1> QED BY <1>2, <1>3, <1>4, <1>5, <1>6 DEF RunOK

LEMMA NewTurnGrows ==
  ASSUME SourceOK, NewTurn
  PROVE  SourceOK' /\ Grown
<1> DEFINE N == Len(turns)
<1>0. N \in Nat /\ DOMAIN turns = 1..N /\ N < MaxTurns /\ MaxTurns \in Nat
  BY Length, OpenCodeAssumption DEF NewTurn
<1>1. PICK w \in Words, i \in 1..N + 1 :
         /\ turns' = Append(turns, w)
         /\ time' = [t \in 1..N + 1 |->
                       IF t > N THEN i
                       ELSE IF time[t] < i THEN time[t] ELSE time[t] + 1]
  BY DEF NewTurn
<1>2. turns' \in Seq(Words) /\ Len(turns') = N + 1
  BY <1>1 DEF SourceOK
<1>3. DOMAIN turns' = 1..N + 1 /\ \A t \in 1..N : turns'[t] = turns[t]
  BY <1>0, <1>1, <1>2 DEF SourceOK
<1>4. \A t \in 1..N : time[t] \in 1..N
  BY <1>0 DEF SourceOK
<1>5. \A s, t \in 1..N : time[s] = time[t] => s = t
  BY <1>0 DEF SourceOK
<1> HIDE DEF N
<1>6. time' \in [1..N + 1 -> 1..N + 1]
  <2>1. ASSUME NEW t \in 1..N + 1 PROVE time'[t] \in 1..N + 1
    <3>1. CASE t > N
      BY <1>0, <1>1, <3>1
    <3>2. CASE t \in 1..N
      <4>1. time[t] \in 1..N
        BY <1>4, <3>2
      <4>2. time'[t] = IF time[t] < i THEN time[t] ELSE time[t] + 1
        BY <1>0, <1>1, <3>2
      <4> QED BY <1>0, <4>1, <4>2
    <3> QED BY <1>0, <3>1, <3>2
  <2> QED BY <1>1, <2>1
<1>7. ASSUME NEW s \in 1..N + 1, NEW t \in 1..N + 1, time'[s] = time'[t] PROVE s = t
  <2>1. /\ s \in 1..N => time[s] \in 1..N /\ time'[s] = IF time[s] < i THEN time[s] ELSE time[s] + 1
        /\ t \in 1..N => time[t] \in 1..N /\ time'[t] = IF time[t] < i THEN time[t] ELSE time[t] + 1
    BY <1>0, <1>1, <1>4
  <2>2. /\ s \notin 1..N => time'[s] = i /\ s = N + 1
        /\ t \notin 1..N => time'[t] = i /\ t = N + 1
    BY <1>0, <1>1
  <2>3. CASE s \in 1..N /\ t \in 1..N
    <3>1. time[s] = time[t]
      BY <1>0, <1>7, <2>1, <2>3
    <3> QED BY <1>5, <2>3, <3>1
  <2>4. CASE s \in 1..N /\ t \notin 1..N
    BY <1>0, <1>7, <2>1, <2>2, <2>4
  <2>5. CASE s \notin 1..N /\ t \in 1..N
    BY <1>0, <1>7, <2>1, <2>2, <2>5
  <2>6. CASE s \notin 1..N /\ t \notin 1..N
    BY <2>2, <2>6
  <2> QED BY <2>3, <2>4, <2>5, <2>6
<1>8. SourceOK'
  <2>1. Len(turns') <= MaxTurns
    BY <1>0, <1>2
  <2> QED BY <1>2, <1>3, <1>6, <1>7, <2>1 DEF SourceOK
<1>9. Grown
  <2>1. N + 1 \in Nat /\ N <= N + 1
    BY <1>0
  <2>2. Len(turns)' = N + 1 /\ Len(turns) = N
    BY <1>2 DEF N
  <2> QED BY <1>0, <1>3, <2>1, <2>2 DEF Grown
<1> QED BY <1>8, <1>9

-----------------------------------------------------------------------------
(* A run                                                                   *)

\* What a run has read of OpenCode: every turn after its starting point whose row
\* it did not find, unless it edits an ignored path.
LEMMA ReadTurns ==
  ASSUME Inv, NEW p \in Indexers, Read(p)
  PROVE  /\ batch'[p] \in SUBSET Held
         /\ \A x \in batch'[p] : \E t \in DOMAIN turns : x = Turn(t) /\ t \notin {y.id : y \in stored}
         /\ (\E y \in stored : IsLegacy(y)) \/ cursor = NoCursor =>
              \A t \in DOMAIN turns \ Editing :
                  t \notin {y.id : y \in stored} => Turn(t) \in batch'[p]
<1> DEFINE N == Len(turns)
           again == cursor = NoCursor \/ {x \in stored : IsLegacy(x)} # {}
           from == IF again THEN LastRowids(0) ELSE cursor
           B == {x \in Exchanges(Chunk(from)) :
                   /\ ~(ignoring /\ x.files)
                   /\ x.id \notin {y.id : y \in stored}}
<1>0. SourceOK /\ RunTypes /\ N \in Nat /\ DOMAIN turns = 1..N /\ DOMAIN turns \subseteq 1..MaxTurns
  BY Length DEF Inv
<1>1. batch' = [batch EXCEPT ![p] = B]
  BY DEF Read
<1>2. batch'[p] = B
  BY <1>0, <1>1 DEF RunTypes
<1>3. PICK n \in 0..N : from = LastRowids(n) /\ (again => n = 0)
  <2>1. CASE again
    <3>1. 0 \in 0..N
      BY <1>0
    <3>2. from = LastRowids(0)
      BY <2>1
    <3> HIDE DEF from, again, N
    <3> QED BY <3>1, <3>2
  <2>2. CASE ~again
    <3>1. from = cursor /\ cursor # NoCursor
      BY <2>2
    <3>2. Whole(cursor)
      BY <3>1 DEF Inv
    <3> HIDE DEF from, again
    <3> QED BY <2>2, <3>1, <3>2 DEF Whole, N
  <2> QED BY <2>1, <2>2
<1>4. Exchanges(Chunk(from)) = {Turn(t) : t \in n + 1..N}
  <2> HIDE DEF from, again
  <2> QED BY <1>0, <1>3, TurnsParsed DEF N
<1>5. \A x : x \in B <=> \E t \in n + 1..N : /\ x = Turn(t)
                                             /\ ~(ignoring /\ t \in Editing)
                                             /\ t \notin {y.id : y \in stored}
  <2> DEFINE ids == {y.id : y \in stored}
             C == Exchanges(Chunk(from))
  <2>1. \A x : x \in B <=> x \in C /\ ~(ignoring /\ x.files) /\ x.id \notin ids
    <3> HIDE DEF from
    <3> QED OBVIOUS
  <2>2. \A x : x \in C <=> \E t \in n + 1..N : x = Turn(t)
    <3> HIDE DEF from
    <3> QED BY <1>4
  <2>3. \A t : Turn(t).id = t /\ (Turn(t).files <=> t \in Editing)
    BY DEF Turn
  <2> HIDE DEF C, ids, B
  <2> QED BY <2>1, <2>2, <2>3 DEF ids
<1> HIDE DEF B, from
<1>6. ASSUME NEW x \in B
      PROVE  /\ x \in Held
             /\ \E t \in DOMAIN turns : x = Turn(t) /\ t \notin {y.id : y \in stored}
  <2>1. PICK t \in n + 1..N : x = Turn(t) /\ t \notin {y.id : y \in stored}
    BY <1>5, <1>6
  <2>2. t \in DOMAIN turns
    BY <1>0
  <2>3. t \in 1..MaxTurns /\ time[t] \in 1..MaxTurns
    BY <1>0, <2>2 DEF SourceOK
  <2>4. x \in Held
    <3> DEFINE says == {Say(u) : u \in 1..MaxTurns}
               s == Say(t)
    <3>1. s \in says
      BY <2>3
    <3>2. x = [id |-> t, texts |-> s, files |-> t \in Editing, start |-> time[t]]
      BY <2>1 DEF Turn
    <3>3. (t \in Editing) \in BOOLEAN
      OBVIOUS
    <3> HIDE DEF says, s
    <3>4. x \in [id : 1..MaxTurns, texts : says, files : BOOLEAN, start : 1..MaxTurns]
      BY <2>3, <3>1, <3>2, <3>3
    <3> QED BY <3>4 DEF Held, says
  <2> QED BY <2>1, <2>2, <2>4
<1>7. ASSUME (\E y \in stored : IsLegacy(y)) \/ cursor = NoCursor,
             NEW t \in DOMAIN turns \ Editing, t \notin {y.id : y \in stored}
      PROVE  Turn(t) \in B
  <2>1. again
    BY <1>7
  <2>2. t \in n + 1..N
    <3>1. n = 0
      BY <1>3, <2>1
    <3> QED BY <1>0, <3>1
  <2> QED BY <1>5, <1>7, <2>2
<1> QED BY <1>2, <1>6, <1>7

LEMMA ReadRun ==
  ASSUME Inv, NEW p \in Indexers, Read(p)
  PROVE  RunTypes' /\ RunOK(p)'
<1> DEFINE legacy == {x \in stored : IsLegacy(x)}
           c == LastRowids(Len(turns))
           s == [legacy |-> legacy, cursor |-> c]
<1>0. /\ SourceOK /\ RunTypes /\ Len(turns) \in Nat /\ DOMAIN turns = 1..Len(turns)
      /\ DOMAIN turns \subseteq 1..MaxTurns
  BY Length DEF Inv
<1>1. /\ pc' = [pc EXCEPT ![p] = "ingest"]
      /\ seen' = [seen EXCEPT ![p] = s]
      /\ turns' = turns
  BY DEF Read, source
<1>2. pc'[p] = "ingest" /\ seen'[p] = s
  <2> HIDE DEF s
  <2> QED BY <1>0, <1>1 DEF RunTypes
<1>3. ASSUME NEW y \in legacy PROVE \E u \in DOMAIN turns : y = LegacyRow(u)
  <2>1. y \in stored /\ y.id < 0
    BY <1>3 DEF IsLegacy
  <2>2. PICK u \in DOMAIN turns :
          \/ y = Own(u)
          \/ y = LegacyRow(u)
          \/ \E i \in DOMAIN turns : turns[i] = turns[u] /\ y = Taken(u, i)
    BY <2>1 DEF Inv, RowOK
  <2>3. \A i : Own(i).id = i /\ Taken(u, i).id = i
    BY DEF Own, Taken
  <2>4. \A i \in DOMAIN turns : ~(i < 0)
    BY <1>0
  <2> QED BY <2>1, <2>2, <2>3, <2>4
<1>4. Whole(c)
  <2>1. Len(turns) \in 0..Len(turns)
    BY <1>0
  <2> QED BY <2>1 DEF Whole
<1>5. s \in SeenSet
  <2> DEFINE L == {LegacyRow(t) : t \in 1..MaxTurns}
             D == {NoCursor} \cup {LastRowids(n) : n \in 0..MaxTurns}
  <2>1. legacy \in SUBSET L
    BY <1>0, <1>3
  <2>2. c \in D
    <3>1. Len(turns) \in 0..MaxTurns
      BY <1>0, OpenCodeAssumption DEF SourceOK
    <3> QED BY <3>1
  <2> HIDE DEF L, D, legacy, c
  <2>3. s \in [legacy : SUBSET L, cursor : D]
    BY <2>1, <2>2
  <2> QED BY <2>3 DEF SeenSet, L, D
<1>6. /\ batch'[p] \in SUBSET Held
      /\ \A x \in batch'[p] : \E t \in DOMAIN turns : x = Turn(t) /\ t \notin {y.id : y \in stored}
  BY ReadTurns
<1>7. RunTypes'
  <2>1. pc' \in [Indexers -> {"idle", "ingest"}]
    BY <1>0, <1>1 DEF RunTypes
  <2>2. seen' \in [Indexers -> SeenSet]
    <3> HIDE DEF s
    <3> QED BY <1>0, <1>1, <1>5 DEF RunTypes
  <2>3. PICK b : batch' = [batch EXCEPT ![p] = b]
    BY DEF Read
  <2>4. batch' \in [Indexers -> SUBSET Held]
    <3> DEFINE H == SUBSET Held
    <3>1. batch \in [Indexers -> H]
      BY <1>0 DEF RunTypes
    <3>2. b \in H
      <4>1. batch'[p] = b
        <5> HIDE DEF H
        <5> QED BY <3>1, <2>3
      <4> QED BY <4>1, <1>6
    <3> HIDE DEF H
    <3>3. batch' \in [Indexers -> H]
      BY <2>3, <3>1, <3>2
    <3> QED BY <3>3 DEF H
  <2> QED BY <2>1, <2>2, <2>4 DEF RunTypes
<1>8. \A t : Turn(t).id = t /\ Turn(t).texts = Say(t) /\ Turn(t).start = time[t]
  BY DEF Turn
<1>9. \A x \in batch'[p] : HeldOK(x)'
  BY <1>1, <1>6, <1>8 DEF HeldOK
<1>10. \A x, y \in batch'[p] : x.id = y.id \/ x.start = y.start => x = y
  <2> SUFFICES ASSUME NEW x \in batch'[p], NEW y \in batch'[p], x.id = y.id \/ x.start = y.start
               PROVE  x = y
    OBVIOUS
  <2>1. PICK t \in DOMAIN turns : x = Turn(t)
    BY <1>6
  <2>2. PICK u \in DOMAIN turns : y = Turn(u)
    BY <1>6
  <2>3. t = u
    BY <1>0, <1>8, <2>1, <2>2 DEF SourceOK
  <2> QED BY <2>1, <2>2, <2>3
<1>11. (\A y \in seen[p].legacy : \E u \in DOMAIN turns : y = LegacyRow(u))'
  <2>1. seen'[p].legacy = legacy
    BY <1>2
  <2> HIDE DEF legacy
  <2> QED BY <2>1, <1>1, <1>3
<1>12. Whole(seen[p].cursor)'
  <2>1. seen'[p].cursor = c
    BY <1>2
  <2> HIDE DEF c
  <2> QED BY <2>1, <1>1, <1>4 DEF Whole
<1> QED BY <1>2, <1>7, <1>9, <1>10, <1>11, <1>12 DEF RunOK

-----------------------------------------------------------------------------
(* What a run writes                                                       *)

\* Two turns have the same content when they say the same.
LEMMA ContentsOf ==
  ASSUME NEW t, NEW u
  PROVE  Content(Say(t)) = Content(Say(u)) <=> turns[t] = turns[u]
<1>1. \A s : Content(Say(s)) = {<<turns[s], "said">>, <<turns[s], "answer">>}
  BY DEF Content, Say
<1>2. ASSUME turns[t] = turns[u] PROVE Content(Say(t)) = Content(Say(u))
  BY <1>1, <1>2
<1>3. ASSUME Content(Say(t)) = Content(Say(u)) PROVE turns[t] = turns[u]
  <2>1. <<turns[t], "said">> \in {<<turns[u], "said">>, <<turns[u], "answer">>}
    BY <1>1, <1>3
  <2> QED BY <2>1
<1> QED BY <1>2, <1>3

\* A row is paired with a turn that says what its own said.
LEMMA PairedIs ==
  ASSUME Inv, NEW p \in Indexers, NEW x \in batch[p], NEW y \in Paired(p, x)
  PROVE  \E u \in DOMAIN turns : y = LegacyRow(u) /\ turns[u] = turns[x.id]
<1>1. y \in seen[p].legacy /\ Content(y.texts) = Content(x.texts)
  BY DEF Paired, Alike
<1>2. PICK u \in DOMAIN turns : y = LegacyRow(u)
  BY <1>1 DEF Inv, RunOK
<1>3. x.texts = Say(x.id)
  BY DEF Inv, RunOK, HeldOK
<1>4. y.texts = Say(u)
  BY <1>2 DEF LegacyRow, Say
<1> QED BY <1>1, <1>2, <1>3, <1>4, ContentsOf

\* The row y after the renaming.
After(p, y) ==
    IF \E x \in batch[p] : y \in Paired(p, x)
    THEN [y EXCEPT !.id = (CHOOSE x \in batch[p] : y \in Paired(p, x)).id]
    ELSE y

LEMMA RenamedAre ==
  ASSUME NEW p \in Indexers, NEW z
  PROVE  z \in Renamed(p) <=> \E y \in stored : z = After(p, y)
BY DEF Renamed, After

LEMMA AfterIs ==
  ASSUME Inv, NEW p \in Indexers, NEW y \in stored
  PROVE  \/ After(p, y) = y /\ \A x \in batch[p] : y \notin Paired(p, x)
         \/ \E x \in batch[p], u \in DOMAIN turns :
              /\ y \in Paired(p, x) /\ y = LegacyRow(u)
              /\ x.id \in DOMAIN turns /\ turns[u] = turns[x.id]
              /\ After(p, y) = Taken(u, x.id)
<1>1. CASE ~\E x \in batch[p] : y \in Paired(p, x)
  BY <1>1 DEF After
<1>2. CASE \E x \in batch[p] : y \in Paired(p, x)
  <2> DEFINE x == CHOOSE b \in batch[p] : y \in Paired(p, b)
  <2>1. x \in batch[p] /\ y \in Paired(p, x)
    BY <1>2
  <2>2. After(p, y) = [y EXCEPT !.id = x.id]
    BY <1>2 DEF After
  <2> HIDE DEF x
  <2>3. PICK u \in DOMAIN turns : y = LegacyRow(u) /\ turns[u] = turns[x.id]
    BY <2>1, PairedIs
  <2>4. x.id \in DOMAIN turns
    BY <2>1 DEF Inv, RunOK, HeldOK
  <2>5. After(p, y) = Taken(u, x.id)
    <3> DEFINE i == x.id
    <3>1. [LegacyRow(u) EXCEPT !.id = i] = Taken(u, i)
      <4> HIDE DEF i
      <4> QED BY DEF LegacyRow, Taken, Say
    <3> HIDE DEF i
    <3>2. After(p, y) = [y EXCEPT !.id = i]
      BY <2>2 DEF i
    <3> QED BY <2>3, <3>1, <3>2 DEF i
  <2> QED BY <2>1, <2>3, <2>4, <2>5
<1> QED BY <1>1, <1>2

\* The row of an exchange none of the old rows stands for.
LEMMA NewRows ==
  ASSUME Inv, NEW p \in Indexers, Ingest(p), NEW z
  PROVE  z \in stored' <=>
           \/ \E y \in stored : z = After(p, y)
           \/ \E x \in batch[p] : /\ Paired(p, x) = {} /\ z = Own(x.id)
                                  /\ \A y \in stored : After(p, y).key # x.id
<1> DEFINE new == {x \in batch[p] : Paired(p, x) = {}}
           rows == {[id |-> x.id, key |-> x.id, texts |-> x.texts] : x \in new}
<1>1. stored' = Added(Renamed(p), rows)
  BY DEF Ingest
<1>2. \A x \in batch[p] : x.texts = Say(x.id)
  BY DEF Inv, RunOK, HeldOK
<1>3. \A r : r \in rows <=> \E x \in batch[p] : Paired(p, x) = {} /\ r = Own(x.id)
  <2>1. \A x \in new : [id |-> x.id, key |-> x.id, texts |-> x.texts] = Own(x.id)
    BY <1>2 DEF Own
  <2> QED BY <2>1
<1>4. \A i : Own(i).key = i
  BY DEF Own
<1> HIDE DEF rows
<1>5. \A r : r \in Added(Renamed(p), rows) <=>
               \/ r \in Renamed(p)
               \/ r \in rows /\ \A y \in Renamed(p) : y.key # r.key
  BY DEF Added
<1> QED BY <1>1, <1>3, <1>4, <1>5, RenamedAre

LEMMA IngestRows ==
  ASSUME Inv, NEW p \in Indexers, Ingest(p)
  PROVE  \A z \in stored' : RowOK(z)
<1> SUFFICES ASSUME NEW z \in stored' PROVE RowOK(z)
  OBVIOUS
<1>1. CASE \E y \in stored : z = After(p, y)
  <2>1. PICK y \in stored : z = After(p, y)
    BY <1>1
  <2>2. RowOK(y)
    BY DEF Inv
  <2>3. CASE After(p, y) = y
    BY <2>1, <2>2, <2>3
  <2>4. CASE \E x \in batch[p], u \in DOMAIN turns :
              /\ x.id \in DOMAIN turns /\ turns[u] = turns[x.id]
              /\ After(p, y) = Taken(u, x.id)
    <3>1. PICK x \in batch[p], u \in DOMAIN turns :
              /\ x.id \in DOMAIN turns /\ turns[u] = turns[x.id]
              /\ After(p, y) = Taken(u, x.id)
      BY <2>4
    <3> QED BY <2>1, <3>1 DEF RowOK
  <2> QED BY <2>3, <2>4, AfterIs
<1>2. CASE \E x \in batch[p] : z = Own(x.id)
  BY <1>2 DEF Inv, RunOK, HeldOK, RowOK
<1> QED BY <1>1, <1>2, NewRows

LEMMA ReturnTypes ==
  ASSUME RunTypes, NEW p \in Indexers, Return(p), turns' = turns
  PROVE  /\ RunTypes' /\ RunOK(p)'
         /\ pc'[p] = "idle" /\ seen'[p] = Unread /\ batch'[p] = {}
<1>1. Unread \in SeenSet
  BY DEF Unread, SeenSet
<1>2. {} \in SUBSET Held
  OBVIOUS
<1>3. RunTypes'
  <2>1. pc' \in [Indexers -> {"idle", "ingest"}]
    BY DEF Return, RunTypes
  <2>2. seen' \in [Indexers -> SeenSet]
    BY <1>1 DEF Return, RunTypes
  <2>3. batch' \in [Indexers -> SUBSET Held]
    <3> DEFINE H == SUBSET Held
    <3>1. batch \in [Indexers -> H] /\ {} \in H
      BY DEF RunTypes
    <3> HIDE DEF H
    <3>2. batch' \in [Indexers -> H]
      BY <3>1 DEF Return
    <3> QED BY <3>2 DEF H
  <2> QED BY <2>1, <2>2, <2>3 DEF RunTypes
<1>4. pc'[p] = "idle" /\ seen'[p] = Unread /\ batch'[p] = {}
  BY DEF Return, RunTypes
<1>5. RunOK(p)'
  <2>1. Unread.legacy = {} /\ "idle" # "ingest"
    BY DEF Unread
  <2> QED BY <1>4, <2>1 DEF RunOK
<1> QED BY <1>3, <1>4, <1>5

\* The other runs.
LEMMA OthersStay ==
  ASSUME Inv, NEW p \in Indexers, Run(p) \/ Crash(p)
  PROVE  /\ turns' = turns /\ time' = time
         /\ \A q \in Indexers \ {p} :
              pc'[q] = pc[q] /\ seen'[q] = seen[q] /\ batch'[q] = batch[q] /\ RunOK(q)'
<1>1. turns' = turns /\ time' = time
  BY DEF Run, Read, Ingest, Crash, source
<1>2. \E a, s, b : /\ pc' = [pc EXCEPT ![p] = a]
                   /\ seen' = [seen EXCEPT ![p] = s]
                   /\ batch' = [batch EXCEPT ![p] = b]
  BY DEF Run, Read, Ingest, Crash, Return
<1>3. \A q \in Indexers \ {p} : pc'[q] = pc[q] /\ seen'[q] = seen[q] /\ batch'[q] = batch[q]
  BY <1>2 DEF Inv, RunTypes
<1>4. Grown
  BY <1>1, Length DEF Inv, Grown
<1>5. \A q \in Indexers \ {p} : RunOK(q)'
  <2> SUFFICES ASSUME NEW q \in Indexers \ {p} PROVE RunOK(q)'
    OBVIOUS
  <2> QED BY <1>3, <1>4, RunStays DEF Inv
<1> QED BY <1>1, <1>3, <1>5

LEMMA InvStep == Inv /\ [Next]_vars => Inv'
<1> SUFFICES ASSUME Inv, [Next]_vars PROVE Inv'
  OBVIOUS
<1>1. CASE NewTurn
  <2>1. SourceOK' /\ Grown
    BY <1>1, NewTurnGrows DEF Inv
  <2>2. UNCHANGED <<stored, cursor, pc, seen, batch>>
    BY <1>1 DEF NewTurn, memory, runVars
  <2>3. RunTypes'
    BY <2>2 DEF Inv, RunTypes
  <2>4. /\ \A x : RowOK(x) => RowOK(x)'
        /\ \A c : Whole(c) => Whole(c)'
    BY <2>1, RowsStay DEF Inv
  <2>5. (cursor = NoCursor \/ Whole(cursor))'
    <3>1. CASE Whole(cursor)
      <4>1. PICK n \in 0..Len(turns) : cursor = LastRowids(n)
        BY <3>1 DEF Whole
      <4>2. n \in 0..Len(turns)'
        BY <2>1, Length DEF Inv, Grown
      <4> QED BY <2>2, <4>1, <4>2 DEF Whole
    <3> QED BY <2>2, <3>1 DEF Inv
  <2>6. (\A x \in stored : RowOK(x))'
    BY <2>2, <2>4 DEF Inv
  <2>7. \A p \in Indexers : RunOK(p)'
    BY <2>1, <2>2, RunStays DEF Inv
  <2> QED BY <2>1, <2>3, <2>5, <2>6, <2>7 DEF Inv
<1>2. CASE EditIgnore \/ UNCHANGED vars
  <2>1. UNCHANGED <<turns, time, stored, cursor, pc, seen, batch>>
    BY <1>2 DEF EditIgnore, source, memory, runVars, vars
  <2> QED BY <2>1 DEF Inv, SourceOK, RunTypes, Whole, RowOK, RunOK, HeldOK
<1>3. ASSUME NEW p \in Indexers, Run(p) \/ Crash(p) PROVE Inv'
  <2>1. /\ turns' = turns /\ time' = time
        /\ \A q \in Indexers \ {p} : RunOK(q)'
    BY <1>3, OthersStay
  <2>2. SourceOK'
    BY <2>1 DEF Inv, SourceOK
  <2>3. RunTypes' /\ RunOK(p)'
    <3>1. CASE Read(p)
      BY <3>1, ReadRun
    <3>2. CASE Ingest(p) \/ Crash(p)
      <4>1. Return(p)
        BY <3>2 DEF Ingest, Crash
      <4> QED BY <2>1, <4>1, ReturnTypes DEF Inv
    <3> QED BY <1>3, <3>1, <3>2 DEF Run
  <2>4. (cursor = NoCursor \/ Whole(cursor))'
    <3>1. CASE Read(p) \/ Crash(p)
      <4>1. cursor' = cursor
        BY <3>1 DEF Read, Crash, memory
      <4> QED BY <2>1, <4>1 DEF Inv, Whole
    <3>2. CASE Ingest(p)
      <4>1. cursor' = cursor \/ cursor' = seen[p].cursor
        BY <3>2 DEF Ingest, CursorAfter
      <4>2. Whole(seen[p].cursor)
        BY <3>2 DEF Ingest, Inv, RunOK
      <4> QED BY <2>1, <4>1, <4>2 DEF Inv, Whole
    <3> QED BY <1>3, <3>1, <3>2 DEF Run
  <2>5. (\A x \in stored : RowOK(x))'
    <3>1. CASE Read(p) \/ Crash(p)
      <4>1. stored' = stored
        BY <3>1 DEF Read, Crash, memory
      <4> QED BY <2>1, <4>1 DEF Inv, RowOK
    <3>2. CASE Ingest(p)
      <4>1. \A x \in stored' : RowOK(x)
        BY <3>2, IngestRows
      <4> QED BY <2>1, <4>1 DEF RowOK
    <3> QED BY <1>3, <3>1, <3>2 DEF Run
  <2> QED BY <2>1, <2>2, <2>3, <2>4, <2>5 DEF Inv
<1> QED BY <1>1, <1>2, <1>3 DEF Next

\* The inductive invariant: every row is a turn's own row, its legacy row or the legacy
\* row renamed to a turn with the same words, and every cursor, stored or held by a run
\* (_make_opencode_cursor, ingest), stands at the end of a turn.
THEOREM Invariance == Spec => []Inv
BY InvInit, InvStep, PTL DEF Spec

-----------------------------------------------------------------------------
\* A cursor that stands after the first n turns is within the rows there are.
LEMMA InvTypes == Inv => TypeOK
<1> SUFFICES ASSUME Inv PROVE TypeOK
  OBVIOUS
<1>1. Len(turns) \in Nat /\ DOMAIN turns = 1..Len(turns)
  BY Length DEF Inv
<1>2. ASSUME NEW x \in stored PROVE x.id \in DOMAIN turns \/ IsLegacy(x)
  <2>1. PICK u \in DOMAIN turns :
        \/ x = Own(u)
        \/ x = LegacyRow(u)
        \/ \E i \in DOMAIN turns : turns[i] = turns[u] /\ x = Taken(u, i)
    BY DEF Inv, RowOK
  <2>2. -u < 0
    BY <1>1
  <2>3. \A i : Own(i).id = i /\ Taken(u, i).id = i
    BY DEF Own, Taken
  <2>4. LegacyRow(u).id = -u
    BY DEF LegacyRow
  <2> QED BY <2>1, <2>2, <2>3, <2>4 DEF IsLegacy
<1>3. ASSUME cursor # NoCursor, NEW table \in {"message", "part"}
      PROVE  cursor[table] \in 0..LastRowids(Len(turns))[table]
  <2>1. PICK n \in 0..Len(turns) : cursor = LastRowids(n)
    BY <1>3 DEF Inv, Whole
  <2>2. \A m : LastRowids(m).message = 2 * m /\ LastRowids(m).part = Parts(m)
    BY DEF LastRowids
  <2>3. Parts(n) \in Nat /\ Parts(Len(turns)) \in Nat /\ Parts(n) <= Parts(Len(turns))
    BY <1>1, <2>1, PartsGrow
  <2>4. CASE table = "message"
    BY <1>1, <2>1, <2>2, <2>4
  <2>5. CASE table = "part"
    BY <1>1, <2>1, <2>2, <2>3, <2>5
  <2> QED BY <2>4, <2>5
<1> QED BY <1>2, <1>3 DEF TypeOK, Inv, SourceOK, RunTypes

\* The state is typed, and no cursor is ahead of OpenCode's rows
\* (_make_opencode_cursor), whatever runs, crashes and new turns there are.
THEOREM TypeCorrect == Spec => []TypeOK
BY Invariance, InvTypes, PTL

\* A row that took another turn's id took it from a turn that says the same.
LEMMA InvSays == Inv => RowsSayTheirTurn
<1> SUFFICES ASSUME Inv, NEW x \in stored, ~IsLegacy(x), NEW z \in x.texts
             PROVE  turns[z[1]] = turns[x.id]
  BY DEF RowsSayTheirTurn
<1>1. Len(turns) \in Nat /\ DOMAIN turns = 1..Len(turns)
  BY Length DEF Inv
<1>2. PICK u \in DOMAIN turns :
        \/ x = Own(u)
        \/ x = LegacyRow(u)
        \/ \E i \in DOMAIN turns : turns[i] = turns[u] /\ x = Taken(u, i)
  BY DEF Inv, RowOK
<1>3. x.texts = Say(u)
  BY <1>2 DEF Own, LegacyRow, Taken, Say
<1>4. z[1] = u
  BY <1>3 DEF Say
<1>5. x # LegacyRow(u)
  <2>1. LegacyRow(u).id = -u /\ -u < 0
    BY <1>1 DEF LegacyRow
  <2> QED BY <2>1 DEF IsLegacy
<1>6. \A i : Own(i).id = i /\ Taken(u, i).id = i
  BY DEF Own, Taken
<1> QED BY <1>2, <1>4, <1>5, <1>6

\* A stored row says what the turn it is named after says: also an old row that took
\* a turn's id, and in whatever order turns come by their times.
THEOREM RowsSayWhatTheirTurnSays == Spec => []RowsSayTheirTurn
BY Invariance, InvSays, PTL

-----------------------------------------------------------------------------
(* Ranks                                                                   *)

\* How many elements of S have a smaller key.
Rank(S, key, x) == Cardinality({z \in S : key[z] < key[x]})

\* Distinct integer keys give n elements the ranks 0 to n - 1, each to one.
LEMMA Ranks ==
  ASSUME NEW S, IsFiniteSet(S), NEW key \in [S -> Int],
         \A x, y \in S : key[x] = key[y] => x = y
  PROVE  /\ \A x \in S : Rank(S, key, x) \in 0..Cardinality(S) - 1
         /\ \A x, y \in S : Rank(S, key, x) = Rank(S, key, y) => x = y
         /\ \A r \in 0..Cardinality(S) - 1 : \E x \in S : Rank(S, key, x) = r
<1> DEFINE Below(x) == {z \in S : key[z] < key[x]}
           n == Cardinality(S)
<1>0. n \in Nat
  BY FS_CardinalityType
<1>1. ASSUME NEW x \in S
      PROVE  IsFiniteSet(Below(x)) /\ Cardinality(Below(x)) \in Nat
  <2>1. Below(x) \in SUBSET S
    OBVIOUS
  <2> HIDE DEF Below
  <2> QED BY <2>1, FS_Subset, FS_CardinalityType
<1>2. ASSUME NEW x \in S PROVE Cardinality(Below(x)) \in 0..n - 1
  <2>1. Below(x) \in SUBSET S
    OBVIOUS
  <2>2. Below(x) # S
    <3>1. key[x] \in Int
      OBVIOUS
    <3>2. x \notin Below(x)
      BY <3>1
    <3> HIDE DEF Below
    <3> QED BY <3>2
  <2> HIDE DEF Below
  <2>3. Cardinality(Below(x)) <= n /\ Cardinality(Below(x)) # n
    BY <2>1, <2>2, FS_Subset
  <2> QED BY <1>0, <1>1, <2>3
<1>3. ASSUME NEW x \in S, NEW y \in S, key[x] < key[y]
      PROVE  Cardinality(Below(x)) < Cardinality(Below(y))
  <2>0. key[x] \in Int /\ key[y] \in Int
    OBVIOUS
  <2>1. Below(x) \in SUBSET Below(y)
    <3>1. ASSUME NEW z \in S, key[z] < key[x] PROVE key[z] < key[y]
      <4>1. key[z] \in Int
        OBVIOUS
      <4> QED BY <1>3, <2>0, <3>1, <4>1
    <3> QED BY <3>1
  <2>2. x \in Below(y) /\ x \notin Below(x)
    BY <1>3, <2>0
  <2> HIDE DEF Below
  <2>3. Cardinality(Below(x)) <= Cardinality(Below(y)) /\ Cardinality(Below(x)) # Cardinality(Below(y))
    BY <1>1, <2>1, <2>2, FS_Subset
  <2> QED BY <1>1, <2>3
<1>4. \A x, y \in S : Cardinality(Below(x)) = Cardinality(Below(y)) => x = y
  <2> SUFFICES ASSUME NEW x \in S, NEW y \in S, Cardinality(Below(x)) = Cardinality(Below(y))
               PROVE  x = y
    OBVIOUS
  <2>0. key[x] \in Int /\ key[y] \in Int
    OBVIOUS
  <2>1. ~(key[x] < key[y]) /\ ~(key[y] < key[x])
    <3> HIDE DEF Below
    <3> QED BY <1>1, <1>3
  <2> QED BY <2>0, <2>1
<1>5. \A r \in 0..n - 1 : \E x \in S : Cardinality(Below(x)) = r
  <2> DEFINE T == 0..n - 1
             f == [x \in S |-> Cardinality(Below(x))]
  <2> HIDE DEF Below
  <2>1. f \in [S -> T]
    BY <1>2
  <2>2. f \in Injection(S, T)
    BY <1>4, <2>1 DEF Injection, IsInjective
  <2>3. IsFiniteSet(T) /\ Cardinality(T) = n
    BY <1>0, FS_Interval
  <2>4. f \in Surjection(S, T)
    <3> HIDE DEF f, T
    <3> QED BY <2>2, <2>3, FS_Injection
  <2>5. \A r \in T : \E x \in S : f[x] = r
    <3> HIDE DEF f, T
    <3> QED BY <2>4 DEF Surjection
  <2> QED BY <2>5
<1>6. \A x : Rank(S, key, x) = Cardinality(Below(x))
  BY DEF Rank
<1> HIDE DEF Below
<1> QED BY <1>2, <1>4, <1>5, <1>6

\* The rank of an old row is by position, that of an exchange by time.
OldKey(S)  == [y \in S |-> -y.id]
HeldKey(S) == [x \in S |-> x.start]

\* Old rows and exchanges in hand are finitely many and told apart by their keys.
LEMMA OldKeys ==
  ASSUME Inv, NEW p \in Indexers, NEW S \in SUBSET seen[p].legacy
  PROVE  /\ IsFiniteSet(S) /\ OldKey(S) \in [S -> Int]
         /\ \A x, y \in S : OldKey(S)[x] = OldKey(S)[y] => x = y
         /\ \A y \in S : Rank(S, OldKey(S), y) = Cardinality({z \in S : z.id > y.id})
<1>0. Len(turns) \in Nat /\ DOMAIN turns = 1..Len(turns)
  BY Length DEF Inv
<1>1. \A y \in S : \E u \in 1..Len(turns) : y = LegacyRow(u)
  BY <1>0 DEF Inv, RunOK
<1>2. \A u : LegacyRow(u).id = -u
  BY DEF LegacyRow
<1>3. \A y \in S : -y.id \in 1..Len(turns) /\ y.id \in Int /\ y = LegacyRow(-y.id)
  <2> SUFFICES ASSUME NEW y \in S
               PROVE  -y.id \in 1..Len(turns) /\ y.id \in Int /\ y = LegacyRow(-y.id)
    OBVIOUS
  <2>1. PICK u \in 1..Len(turns) : y = LegacyRow(u)
    BY <1>1
  <2>2. y.id = -u
    BY <1>2, <2>1
  <2>3. -y.id = u
    BY <2>2
  <2> QED BY <2>1, <2>2, <2>3
<1> DEFINE f == OldKey(S)
           T == 1..Len(turns)
<1>4. f \in [S -> T] /\ \A y \in S : f[y] = -y.id
  BY <1>3 DEF OldKey
<1>5. \A x, y \in S : f[x] = f[y] => x = y
  <2> SUFFICES ASSUME NEW x \in S, NEW y \in S, f[x] = f[y] PROVE x = y
    OBVIOUS
  <2>1. -x.id = -y.id
    BY <1>4
  <2> QED BY <1>3, <2>1
<1>6. IsFiniteSet(S)
  <2>1. IsFiniteSet(T)
    BY <1>0, FS_Interval
  <2>2. f \in Injection(S, T)
    <3> HIDE DEF f, T
    <3> QED BY <1>4, <1>5 DEF Injection, IsInjective
  <2> HIDE DEF f, T
  <2> QED BY <2>1, <2>2, FS_Injection
<1>7. f \in [S -> Int]
  BY <1>3 DEF OldKey
<1>8. ASSUME NEW y \in S PROVE Rank(S, f, y) = Cardinality({z \in S : z.id > y.id})
  <2>1. \A z \in S : f[z] < f[y] <=> z.id > y.id
    BY <1>3, <1>4
  <2>2. {z \in S : f[z] < f[y]} = {z \in S : z.id > y.id}
    <3> HIDE DEF f
    <3> QED BY <2>1
  <2> HIDE DEF f
  <2> QED BY <2>2 DEF Rank
<1> QED BY <1>5, <1>6, <1>7, <1>8

LEMMA HeldKeys ==
  ASSUME Inv, NEW p \in Indexers, NEW S \in SUBSET batch[p]
  PROVE  /\ IsFiniteSet(S) /\ HeldKey(S) \in [S -> Int]
         /\ \A x, y \in S : HeldKey(S)[x] = HeldKey(S)[y] => x = y
         /\ \A x \in S : Rank(S, HeldKey(S), x) = Cardinality({z \in S : z.start < x.start})
<1> DEFINE f == HeldKey(S)
           T == 1..MaxTurns
<1>1. \A x \in S : x.start \in T
  BY DEF Inv, RunTypes, Held
<1>2. f \in [S -> T] /\ \A x \in S : f[x] = x.start
  BY <1>1 DEF HeldKey
<1>3. \A x, y \in S : f[x] = f[y] => x = y
  BY <1>2 DEF Inv, RunOK
<1>4. IsFiniteSet(S)
  <2>1. IsFiniteSet(T)
    BY OpenCodeAssumption, FS_Interval
  <2>2. f \in Injection(S, T)
    <3> HIDE DEF f, T
    <3> QED BY <1>2, <1>3 DEF Injection, IsInjective
  <2> HIDE DEF f, T
  <2> QED BY <2>1, <2>2, FS_Injection
<1>5. f \in [S -> Int]
  BY <1>1 DEF HeldKey
<1>6. ASSUME NEW x \in S PROVE Rank(S, f, x) = Cardinality({z \in S : z.start < x.start})
  <2>1. {z \in S : f[z] < f[x]} = {z \in S : z.start < x.start}
    BY <1>2
  <2> HIDE DEF f
  <2> QED BY <2>1 DEF Rank
<1> QED BY <1>3, <1>4, <1>5, <1>6

\* No two old rows are paired with one exchange.
LEMMA PairedOnce ==
  ASSUME Inv, NEW p \in Indexers, NEW x \in batch[p],
         NEW y \in Paired(p, x), NEW z \in Paired(p, x)
  PROVE  y = z
<1> DEFINE S == Alike(x, seen[p].legacy)
           Later(v) == {w \in S : w.id > v.id}
<1>1. y \in S /\ z \in S /\ Cardinality(Later(y)) = Cardinality(Later(z))
  BY DEF Paired
<1>2. S \in SUBSET seen[p].legacy
  BY DEF Alike
<1>3. /\ IsFiniteSet(S) /\ OldKey(S) \in [S -> Int]
      /\ \A a, b \in S : OldKey(S)[a] = OldKey(S)[b] => a = b
      /\ \A a \in S : Rank(S, OldKey(S), a) = Cardinality(Later(a))
  <2> HIDE DEF S
  <2> QED BY <1>2, OldKeys
<1>4. \A a, b \in S : Rank(S, OldKey(S), a) = Rank(S, OldKey(S), b) => a = b
  <2> HIDE DEF S
  <2> QED BY <1>3, Ranks
<1> HIDE DEF S, Later
<1> QED BY <1>1, <1>3, <1>4

-----------------------------------------------------------------------------
(* One run migrates the old rows                                           *)

\* A run that has the first k turns in hand pairs each of their old rows: of the
\* turns that say the same there are at least as many as old rows.
LEMMA AllPaired ==
  ASSUME Inv, NEW p \in Indexers, NEW k \in DOMAIN turns,
         seen[p].legacy = {LegacyRow(t) : t \in 1..k},
         \A t \in 1..k : \E x \in batch[p] : x.id = t,
         NEW y \in seen[p].legacy
  PROVE  \E x \in batch[p] : y \in Paired(p, x)
<1>0. Len(turns) \in Nat /\ DOMAIN turns = 1..Len(turns)
  BY Length DEF Inv
<1>1. PICK u \in 1..k : y = LegacyRow(u)
  OBVIOUS
<1>2. PICK x0 \in batch[p] : x0.id = u
  BY <1>1
<1>3. \A x \in batch[p] : x.texts = Say(x.id)
  BY DEF Inv, RunOK, HeldOK
<1>4. \A t : LegacyRow(t).texts = Say(t) /\ LegacyRow(t).id = -t
  BY DEF LegacyRow, Say
<1> DEFINE L == Alike(x0, seen[p].legacy)
           B == Alike(x0, batch[p])
<1>5. L \in SUBSET seen[p].legacy /\ B \in SUBSET batch[p]
  BY DEF Alike
<1>6. \A z : z \in L <=> z \in seen[p].legacy /\ Content(z.texts) = Content(x0.texts)
  BY DEF Alike
<1>7. \A x : x \in B <=> x \in batch[p] /\ Content(x.texts) = Content(x0.texts)
  BY DEF Alike
<1>8. y \in L
  BY <1>1, <1>2, <1>3, <1>4, <1>6
<1> HIDE DEF L, B
<1>9. IsFiniteSet(B) /\ Cardinality(B) \in Nat
  BY <1>5, HeldKeys, FS_CardinalityType
<1>10. IsFiniteSet(L) /\ Cardinality(L) \in Nat
  BY <1>5, OldKeys, FS_CardinalityType
<1>11. Cardinality(L) <= Cardinality(B)
  <2> DEFINE f == [z \in L |-> CHOOSE x \in batch[p] : x.id = -z.id]
  <2>1. ASSUME NEW z \in L
        PROVE  f[z] \in B /\ f[z].id = -z.id /\ z = LegacyRow(-z.id)
    <3>1. PICK t \in 1..k : z = LegacyRow(t)
      BY <1>6
    <3>2. z.id = -t /\ -z.id = t
      BY <1>0, <1>4, <3>1
    <3>3. f[z] \in batch[p] /\ f[z].id = t
      BY <3>2
    <3>4. Content(f[z].texts) = Content(z.texts)
      BY <1>3, <1>4, <3>1, <3>3
    <3> HIDE DEF f
    <3> QED BY <1>6, <1>7, <3>1, <3>2, <3>3, <3>4
  <2>2. DOMAIN f = L /\ f \in [L -> B]
    BY <2>1
  <2> HIDE DEF f
  <2>3. f \in Injection(L, B)
    <3>1. ASSUME NEW a \in L, NEW b \in L, f[a] = f[b] PROVE a = b
      BY <2>1, <3>1
    <3> QED BY <2>2, <3>1 DEF Injection, IsInjective
  <2> QED BY <1>9, <2>3, FS_Injection
<1>12. /\ OldKey(L) \in [L -> Int]
       /\ \A a, b \in L : OldKey(L)[a] = OldKey(L)[b] => a = b
       /\ \A a \in L : Rank(L, OldKey(L), a) = Cardinality({z \in L : z.id > a.id})
  BY <1>5, OldKeys
<1>13. /\ HeldKey(B) \in [B -> Int]
       /\ \A a, b \in B : HeldKey(B)[a] = HeldKey(B)[b] => a = b
       /\ \A a \in B : Rank(B, HeldKey(B), a) = Cardinality({z \in B : z.start < a.start})
  BY <1>5, HeldKeys
<1> DEFINE r == Rank(L, OldKey(L), y)
<1>14. r \in 0..Cardinality(L) - 1
  BY <1>8, <1>10, <1>12, Ranks
<1>15. r \in 0..Cardinality(B) - 1
  BY <1>9, <1>10, <1>11, <1>14
<1>16. PICK x \in B : Rank(B, HeldKey(B), x) = r
  <2> HIDE DEF r
  <2> QED BY <1>9, <1>13, <1>15, Ranks
<1>17. Content(x.texts) = Content(x0.texts)
  BY <1>7
<1>18. Alike(x, seen[p].legacy) = L /\ Alike(x, batch[p]) = B
  BY <1>17 DEF Alike, L, B
<1>19. Cardinality({z \in L : z.id > y.id}) = Cardinality({z \in B : z.start < x.start})
  BY <1>8, <1>12, <1>13, <1>16
<1>20. y \in Paired(p, x)
  BY <1>8, <1>18, <1>19 DEF Paired
<1> QED BY <1>5, <1>20

-----------------------------------------------------------------------------
(* No turn is stored twice                                                 *)

\* Before the migration the old rows are those of the first turns, and at most one
\* run is on, that has them all in hand together with their turns.
Unmigrated ==
    \E k \in 1..LegacyTurns :
        /\ k \in DOMAIN turns
        /\ stored = {LegacyRow(t) : t \in 1..k}
        /\ \A p \in Indexers : pc[p] = "ingest" =>
              /\ seen[p].legacy = stored
              /\ \A t \in 1..k : \E x \in batch[p] : x.id = t
              /\ \A q \in Indexers : pc[q] = "ingest" => q = p

\* After it no old row is left, stored or in hand. A turn stored since a run read is
\* stored with its own canonical id, so the run does not store it again.
Migrated ==
    /\ \A x \in stored : ~IsLegacy(x)
    /\ \A p \in Indexers : seen[p].legacy = {}
    /\ \A x, y \in stored : x.id = y.id => x = y
    /\ \A p \in Indexers : \A b \in batch[p], x \in stored : x.id = b.id => x.key = b.id

Once == ~overlapped => Unmigrated \/ Migrated

LEMMA OnceInit == Init => Once
<1> SUFFICES ASSUME Init PROVE Unmigrated \/ Migrated
  BY DEF Once
<1>1. PICK n \in 0..LegacyTurns : \E w \in [1..n -> Words] :
         turns = w /\ stored = {LegacyRow(t) : t \in 1..n}
  BY DEF Init
<1>2. n \in Nat
  BY OpenCodeAssumption
<1>3. CASE n = 0
  <2>1. stored = {}
    BY <1>1, <1>3
  <2>2. Unread.legacy = {}
    BY DEF Unread
  <2> QED BY <2>1, <2>2 DEF Init, Migrated
<1>4. CASE n # 0
  <2>1. n \in 1..LegacyTurns /\ n \in DOMAIN turns
    BY <1>1, <1>2, <1>4, OpenCodeAssumption
  <2>2. \A p \in Indexers : pc[p] # "ingest"
    BY DEF Init
  <2> QED BY <1>1, <2>1, <2>2 DEF Unmigrated
<1> QED BY <1>3, <1>4

\* What the two phases say while nothing is stored and no run moves.
LEMMA PhasesStay ==
  ASSUME DOMAIN turns \subseteq DOMAIN turns', UNCHANGED <<stored, pc, seen, batch>>
  PROVE  /\ Unmigrated => Unmigrated'
         /\ Migrated => Migrated'
BY DEF Unmigrated, Migrated, LegacyRow, IsLegacy

LEMMA OnceRead ==
  ASSUME Inv, Unmigrated \/ Migrated, NEW p \in Indexers, Read(p), ~overlapped'
  PROVE  Unmigrated' \/ Migrated'
<1> DEFINE legacy == {x \in stored : IsLegacy(x)}
           ids    == {y.id : y \in stored}
<1>0. Len(turns) \in Nat /\ DOMAIN turns = 1..Len(turns) /\ RunTypes
  BY Length DEF Inv
<1>1. /\ pc[p] = "idle" /\ turns' = turns /\ stored' = stored
      /\ seen' = [seen EXCEPT ![p] = [legacy |-> legacy, cursor |-> LastRowids(Len(turns))]]
      /\ pc' = [pc EXCEPT ![p] = "ingest"]
      /\ legacy # {} => \A q \in Indexers : seen[q].legacy = {}
  BY DEF Read, source, memory
<1>2. seen'[p].legacy = legacy /\ pc'[p] = "ingest"
  <2> HIDE DEF legacy
  <2> QED BY <1>0, <1>1 DEF RunTypes
<1>3. \A q \in Indexers \ {p} : pc'[q] = pc[q] /\ seen'[q] = seen[q] /\ batch'[q] = batch[q]
  BY OthersStay DEF Run
<1>4. /\ \A x \in batch'[p] : \E t \in DOMAIN turns : x = Turn(t) /\ t \notin ids
      /\ (\E y \in stored : IsLegacy(y)) \/ cursor = NoCursor =>
           \A t \in DOMAIN turns \ Editing : t \notin ids => Turn(t) \in batch'[p]
  BY ReadTurns
<1>5. \A t : Turn(t).id = t
  BY DEF Turn
<1>6. CASE Unmigrated
  <2>1. PICK k \in 1..LegacyTurns :
          /\ k \in DOMAIN turns
          /\ stored = {LegacyRow(t) : t \in 1..k}
          /\ \A q \in Indexers : pc[q] = "ingest" =>
                /\ seen[q].legacy = stored
                /\ \A t \in 1..k : \E x \in batch[q] : x.id = t
                /\ \A r \in Indexers : pc[r] = "ingest" => r = q
    BY <1>6 DEF Unmigrated
  <2>2. k \in Nat /\ 1 \in 1..k /\ LegacyTurns \in Nat /\ k <= LegacyTurns
    BY OpenCodeAssumption
  <2>3. \A t \in 1..k : LegacyRow(t).id = -t /\ IsLegacy(LegacyRow(t))
    BY <2>2 DEF LegacyRow, IsLegacy
  <2>4. legacy = stored /\ legacy # {}
    BY <2>1, <2>2, <2>3
  <2>5. \A q \in Indexers : pc[q] # "ingest"
    BY <1>1, <2>1, <2>4
  <2>6. ASSUME NEW t \in 1..k PROVE \E x \in batch'[p] : x.id = t
    <3>1. t \in DOMAIN turns
      BY <1>0, <2>1, <2>2
    <3>2. t \notin Editing
      BY <2>2, OpenCodeAssumption
    <3>3. t \notin ids
      BY <2>1, <2>2, <2>3
    <3>4. \E y \in stored : IsLegacy(y)
      BY <2>4
    <3> HIDE DEF ids
    <3> QED BY <1>4, <1>5, <3>1, <3>2, <3>3, <3>4
  <2>7. \A q \in Indexers : pc'[q] = "ingest" => q = p
    BY <1>3, <2>5
  <2>8. ASSUME NEW q \in Indexers, pc'[q] = "ingest"
        PROVE  /\ seen'[q].legacy = stored
               /\ \A t \in 1..k : \E x \in batch'[q] : x.id = t
               /\ \A r \in Indexers : pc'[r] = "ingest" => r = q
    <3>1. q = p
      BY <2>7, <2>8
    <3> HIDE DEF legacy
    <3> QED BY <1>2, <2>4, <2>6, <2>7, <3>1
  <2>9. stored' = {LegacyRow(t) : t \in 1..k} /\ k \in DOMAIN turns'
    BY <1>1, <2>1
  <2>10. \A q \in Indexers : pc'[q] = "ingest" =>
               /\ seen'[q].legacy = stored'
               /\ \A t \in 1..k : \E x \in batch'[q] : x.id = t
               /\ \A r \in Indexers : pc'[r] = "ingest" => r = q
    BY <2>8, <1>1
  <2> HIDE DEF legacy, ids
  <2> QED BY <2>9, <2>10 DEF Unmigrated
<1>7. CASE Migrated
  <2>1. legacy = {}
    BY <1>7 DEF Migrated
  <2>2. \A q \in Indexers : seen'[q].legacy = {}
    <3> HIDE DEF legacy
    <3> QED BY <1>2, <1>3, <1>7, <2>1 DEF Migrated
  <2>3. ASSUME NEW q \in Indexers, NEW b \in batch'[q], NEW x \in stored, x.id = b.id
        PROVE  x.key = b.id
    <3>1. CASE q = p
      <4>1. b.id \notin ids
        BY <1>4, <1>5, <3>1
      <4> QED BY <2>3, <4>1
    <3>2. CASE q # p
      BY <1>3, <1>7, <2>3, <3>2 DEF Migrated
    <3> QED BY <3>1, <3>2
  <2> QED BY <1>1, <1>7, <2>2, <2>3 DEF Migrated, IsLegacy
<1> QED BY <1>6, <1>7

\* The migration: each old row takes the id of a turn of its own, and what is
\* stored besides are turns none of them took.
LEMMA OnceMigrates ==
  ASSUME Inv, Unmigrated, NEW p \in Indexers, Ingest(p)
  PROVE  Migrated'
<1>0. Len(turns) \in Nat /\ DOMAIN turns = 1..Len(turns) /\ RunTypes
  BY Length DEF Inv
<1>1. pc[p] = "ingest" /\ Return(p) /\ turns' = turns
  BY DEF Ingest, source
<1>2. PICK k \in 1..LegacyTurns :
          /\ k \in DOMAIN turns
          /\ stored = {LegacyRow(t) : t \in 1..k}
          /\ seen[p].legacy = stored
          /\ \A t \in 1..k : \E x \in batch[p] : x.id = t
          /\ \A q \in Indexers : pc[q] = "ingest" => q = p
  BY <1>1 DEF Unmigrated
<1>3. \A y \in stored : \E x \in batch[p] : y \in Paired(p, x)
  BY <1>2, AllPaired
<1>4. ASSUME NEW y \in stored
      PROVE  \E x \in batch[p], u \in DOMAIN turns :
               /\ y \in Paired(p, x) /\ y = LegacyRow(u)
               /\ x.id \in DOMAIN turns /\ After(p, y) = Taken(u, x.id)
  BY <1>3, AfterIs
<1>5. \A i, u : Own(i).id = i /\ Taken(u, i).id = i
  BY DEF Own, Taken
<1>6. \A x \in batch[p] : x.id \in DOMAIN turns
  BY DEF Inv, RunOK, HeldOK
<1>7. \A x, y \in batch[p] : x.id = y.id => x = y
  BY DEF Inv, RunOK
<1>8. \A z \in stored' :
           \/ \E y \in stored : z = After(p, y)
           \/ \E x \in batch[p] : Paired(p, x) = {} /\ z = Own(x.id)
  BY NewRows
<1>9. ASSUME NEW z \in stored'
      PROVE  /\ z.id \in DOMAIN turns
             /\ \E x \in batch[p] : /\ z.id = x.id
                                    /\ \/ Paired(p, x) = {} /\ z = Own(x.id)
                                       \/ \E y \in Paired(p, x) : z = After(p, y)
  <2>1. CASE \E y \in stored : z = After(p, y)
    <3>1. PICK y \in stored : z = After(p, y)
      BY <2>1
    <3>2. PICK x \in batch[p], u \in DOMAIN turns :
               /\ y \in Paired(p, x)
               /\ x.id \in DOMAIN turns /\ After(p, y) = Taken(u, x.id)
      BY <1>4
    <3>3. z.id = x.id
      BY <1>5, <3>1, <3>2
    <3> QED BY <3>1, <3>2, <3>3
  <2>2. CASE \E x \in batch[p] : Paired(p, x) = {} /\ z = Own(x.id)
    BY <1>5, <1>6, <2>2
  <2> QED BY <1>8, <2>1, <2>2
<1>10. \A z \in stored' : ~IsLegacy(z)
  BY <1>0, <1>9 DEF IsLegacy
<1>11. ASSUME NEW a \in stored', NEW b \in stored', a.id = b.id
       PROVE  a = b
  <2>1. PICK x \in batch[p] : /\ a.id = x.id
                              /\ \/ Paired(p, x) = {} /\ a = Own(x.id)
                                 \/ \E y \in Paired(p, x) : a = After(p, y)
    BY <1>9
  <2>2. PICK v \in batch[p] : /\ b.id = v.id
                              /\ \/ Paired(p, v) = {} /\ b = Own(v.id)
                                 \/ \E y \in Paired(p, v) : b = After(p, y)
    BY <1>9
  <2>3. v = x
    BY <1>7, <1>11, <2>1, <2>2
  <2>4. CASE Paired(p, x) = {}
    BY <2>1, <2>2, <2>3, <2>4
  <2>5. CASE Paired(p, x) # {}
    <3>1. PICK y \in Paired(p, x) : a = After(p, y)
      BY <2>1, <2>5
    <3>2. PICK z \in Paired(p, x) : b = After(p, z)
      BY <2>2, <2>3, <2>5
    <3>3. y = z
      BY PairedOnce
    <3> QED BY <3>1, <3>2, <3>3
  <2> QED BY <2>4, <2>5
<1>12. ASSUME NEW q \in Indexers PROVE seen'[q] = Unread /\ batch'[q] = {}
  <2>1. CASE q = p
    BY <1>0, <1>1, <2>1, ReturnTypes
  <2>2. CASE q # p
    <3>1. pc[q] = "idle"
      BY <1>0, <1>2, <2>2 DEF RunTypes
    <3>2. seen[q] = Unread /\ batch[q] = {}
      BY <3>1 DEF Inv, RunOK
    <3> QED BY <2>2, <3>2, OthersStay DEF Run
  <2> QED BY <2>1, <2>2
<1>13. Unread.legacy = {}
  BY DEF Unread
<1> QED BY <1>10, <1>11, <1>12, <1>13 DEF Migrated, IsLegacy

LEMMA OnceAfterwards ==
  ASSUME Inv, Migrated, NEW p \in Indexers, Ingest(p)
  PROVE  Migrated'
<1>0. Len(turns) \in Nat /\ DOMAIN turns = 1..Len(turns) /\ RunTypes
  BY Length DEF Inv
<1>1. Return(p) /\ turns' = turns
  BY DEF Ingest, source
<1>2. \A x : Paired(p, x) = {}
  BY DEF Paired, Alike, Migrated
<1>3. \A y \in stored : After(p, y) = y
  BY <1>2 DEF After
<1>4. \A z : z \in stored' <=>
           \/ z \in stored
           \/ \E x \in batch[p] : z = Own(x.id) /\ \A y \in stored : y.key # x.id
  BY <1>2, <1>3, NewRows
<1>5. \A i : Own(i).id = i /\ Own(i).key = i
  BY DEF Own
<1>6. \A x \in batch[p] : x.id \in DOMAIN turns
  BY DEF Inv, RunOK, HeldOK
<1>7. \A z \in stored' : ~IsLegacy(z)
  BY <1>0, <1>4, <1>5, <1>6 DEF Migrated, IsLegacy
<1>8. ASSUME NEW a \in stored', NEW b \in stored', a.id = b.id PROVE a = b
  <2>1. CASE a \in stored /\ b \in stored
    BY <1>8, <2>1 DEF Migrated
  <2>2. ASSUME NEW c \in stored, NEW x \in batch[p], \A y \in stored : y.key # x.id
        PROVE  c.id # x.id
    BY <2>2 DEF Migrated
  <2> QED BY <1>4, <1>5, <1>8, <2>1, <2>2
<1>9. ASSUME NEW q \in Indexers
      PROVE  seen'[q].legacy = {} /\ (q = p \/ batch'[q] = batch[q]) /\ (q = p => batch'[q] = {})
  <2>1. CASE q = p
    <3>1. Unread.legacy = {}
      BY DEF Unread
    <3> QED BY <1>0, <1>1, <2>1, <3>1, ReturnTypes
  <2>2. CASE q # p
    BY <2>2, OthersStay DEF Run, Migrated
  <2> QED BY <2>1, <2>2
<1>10. ASSUME NEW q \in Indexers, NEW b \in batch'[q], NEW x \in stored', x.id = b.id
       PROVE  x.key = b.id
  <2>1. b \in batch[q]
    BY <1>9
  <2>2. CASE x \in stored
    BY <1>10, <2>1, <2>2 DEF Migrated
  <2> QED BY <1>4, <1>5, <1>10, <2>2
<1> QED BY <1>7, <1>8, <1>9, <1>10 DEF Migrated, IsLegacy

LEMMA OnceStep == Inv /\ Once /\ [Next]_vars => Once'
<1> SUFFICES ASSUME Inv, Once, [Next]_vars, ~overlapped' PROVE Unmigrated' \/ Migrated'
  BY DEF Once
<1>1. ~overlapped
  BY DEF Next, NewTurn, EditIgnore, Run, Read, Ingest, Crash, vars
<1>2. Unmigrated \/ Migrated
  BY <1>1 DEF Once
<1>3. CASE NewTurn
  <2>1. DOMAIN turns \subseteq DOMAIN turns'
    BY <1>3, NewTurnGrows, RowsStay DEF Inv
  <2>2. UNCHANGED <<stored, pc, seen, batch>>
    BY <1>3 DEF NewTurn, memory, runVars
  <2> QED BY <1>2, <2>1, <2>2, PhasesStay
<1>4. CASE EditIgnore \/ UNCHANGED vars
  <2>1. UNCHANGED <<turns, stored, pc, seen, batch>>
    BY <1>4 DEF EditIgnore, source, memory, runVars, vars
  <2> QED BY <1>2, <2>1, PhasesStay
<1>5. ASSUME NEW p \in Indexers, Read(p) PROVE Unmigrated' \/ Migrated'
  BY <1>2, <1>5, OnceRead
<1>6. ASSUME NEW p \in Indexers, Ingest(p) PROVE Unmigrated' \/ Migrated'
  BY <1>2, <1>6, OnceMigrates, OnceAfterwards
<1>7. ASSUME NEW p \in Indexers, Crash(p) PROVE Unmigrated' \/ Migrated'
  <2>1. stored' = stored /\ turns' = turns /\ Return(p)
    BY <1>7 DEF Crash, memory, source
  <2>2. pc'[p] = "idle" /\ seen'[p] = Unread /\ batch'[p] = {}
    BY <2>1, ReturnTypes DEF Inv
  <2>3. \A q \in Indexers \ {p} : pc'[q] = pc[q] /\ seen'[q] = seen[q] /\ batch'[q] = batch[q]
    BY <1>7, OthersStay
  <2>4. CASE Unmigrated
    <3>1. PICK k \in 1..LegacyTurns :
            /\ k \in DOMAIN turns
            /\ stored = {LegacyRow(t) : t \in 1..k}
            /\ \A q \in Indexers : pc[q] = "ingest" =>
                  /\ seen[q].legacy = stored
                  /\ \A t \in 1..k : \E x \in batch[q] : x.id = t
                  /\ \A r \in Indexers : pc[r] = "ingest" => r = q
      BY <2>4 DEF Unmigrated
    <3>2. \A q \in Indexers : pc'[q] = "ingest" =>
                  /\ seen'[q].legacy = stored
                  /\ \A t \in 1..k : \E x \in batch'[q] : x.id = t
                  /\ \A r \in Indexers : pc'[r] = "ingest" => r = q
      BY <2>2, <2>3, <3>1
    <3> QED BY <2>1, <3>1, <3>2 DEF Unmigrated, LegacyRow
  <2>5. CASE Migrated
    <3>1. Unread.legacy = {}
      BY DEF Unread
    <3>2. \A q \in Indexers : seen'[q].legacy = {} /\ \A b \in batch'[q] : b \in batch[q]
      BY <2>2, <2>3, <2>5, <3>1 DEF Migrated
    <3> QED BY <2>1, <2>5, <3>2 DEF Migrated, IsLegacy
  <2> QED BY <1>2, <2>4, <2>5
<1> QED BY <1>3, <1>4, <1>5, <1>6, <1>7 DEF Next, Run

\* The turn a row stands for.
Place(x) == IF IsLegacy(x) THEN -x.id ELSE x.id

\* Rows that stand for turns of their own are no more than those turns.
LEMMA OnceCounts == Inv /\ Once => LoneMigrationStoresOnce
<1> SUFFICES ASSUME Inv, Unmigrated \/ Migrated, NEW w \in Words
             PROVE  /\ \A x, y \in stored : x.id = y.id => x = y
                    /\ Cardinality({x \in stored : \E z \in x.texts : turns[z[1]] = w})
                         <= Cardinality({t \in DOMAIN turns : turns[t] = w})
  <2>1. Unmigrated \/ Migrated => \A x, y \in stored : x.id = y.id => x = y
    <3>1. ASSUME Unmigrated, NEW x \in stored, NEW y \in stored, x.id = y.id PROVE x = y
      <4>1. PICK k \in 1..LegacyTurns : stored = {LegacyRow(t) : t \in 1..k}
        BY <3>1 DEF Unmigrated
      <4>2. PICK s \in 1..k, t \in 1..k : x = LegacyRow(s) /\ y = LegacyRow(t)
        BY <4>1
      <4>3. -s = -t
        BY <3>1, <4>2 DEF LegacyRow
      <4>4. s = t
        BY <4>3
      <4> QED BY <4>2, <4>4
    <3> QED BY <3>1 DEF Migrated
  <2> QED BY <2>1 DEF Once, LoneMigrationStoresOnce
<1>0. Len(turns) \in Nat /\ DOMAIN turns = 1..Len(turns)
  BY Length DEF Inv
<1>1. ASSUME NEW x \in stored, NEW y \in stored
      PROVE  /\ x.id = y.id => x = y
             /\ Place(x) = Place(y) => x = y
  <2>1. CASE Unmigrated
    <3>1. PICK k \in 1..LegacyTurns : stored = {LegacyRow(t) : t \in 1..k}
      BY <2>1 DEF Unmigrated
    <3>2. PICK s \in 1..k, t \in 1..k : x = LegacyRow(s) /\ y = LegacyRow(t)
      BY <3>1
    <3>3. x.id = -s /\ y.id = -t /\ IsLegacy(x) /\ IsLegacy(y)
      BY <3>2 DEF LegacyRow, IsLegacy
    <3>4. -s = -t => s = t
      OBVIOUS
    <3>5. -(-s) = s /\ -(-t) = t
      OBVIOUS
    <3> QED BY <3>2, <3>3, <3>4, <3>5 DEF Place
  <2>2. CASE Migrated
    BY <2>2 DEF Migrated, Place
  <2> QED BY <2>1, <2>2
<1> DEFINE S == {x \in stored : \E z \in x.texts : turns[z[1]] = w}
           T == {t \in DOMAIN turns : turns[t] = w}
           f == [x \in S |-> Place(x)]
<1>2. ASSUME NEW x \in S PROVE Place(x) \in T
  <2>1. PICK z \in x.texts : turns[z[1]] = w
    OBVIOUS
  <2>2. PICK u \in DOMAIN turns :
        \/ x = Own(u)
        \/ x = LegacyRow(u)
        \/ \E i \in DOMAIN turns : turns[i] = turns[u] /\ x = Taken(u, i)
    BY DEF Inv, RowOK
  <2>3. x.texts = Say(u)
    BY <2>2 DEF Own, LegacyRow, Taken, Say
  <2>4. turns[u] = w
    BY <2>1, <2>3 DEF Say
  <2>5. \A i : Own(i).id = i /\ Taken(u, i).id = i
    BY DEF Own, Taken
  <2>6. LegacyRow(u).id = -u /\ -u < 0 /\ -(-u) = u
    BY <1>0 DEF LegacyRow
  <2>7. \A i \in DOMAIN turns : ~(i < 0)
    BY <1>0
  <2>8. Place(x) \in DOMAIN turns /\ turns[Place(x)] = turns[u]
    BY <2>2, <2>5, <2>6, <2>7 DEF Place, IsLegacy
  <2> QED BY <2>4, <2>8
<1>3. f \in Injection(S, T)
  <2>1. f \in [S -> T]
    <3> HIDE DEF T
    <3> QED BY <1>2
  <2>2. \A x, y \in S : f[x] = f[y] => x = y
    BY <1>1
  <2> HIDE DEF f, S, T
  <2> QED BY <2>1, <2>2 DEF Injection, IsInjective
<1>4. IsFiniteSet(T)
  <2>1. IsFiniteSet(1..Len(turns))
    BY <1>0, FS_Interval
  <2> QED BY <1>0, <2>1, FS_Subset
<1>5. Cardinality(S) <= Cardinality(T)
  <2> HIDE DEF f, S, T
  <2> QED BY <1>3, <1>4, FS_Injection
<1> QED BY <1>1, <1>5

\* No turn is stored twice, under its own id or under the position an earlier
\* release gave it, for as long as no two runs had old rows in hand at once: with
\* any number of runs otherwise, kills, turns that say the same, and ignored paths.
THEOREM MigratedOnceStoredOnce == Spec => []LoneMigrationStoresOnce
<1>1. Init => Once
  BY OnceInit
<1>2. Inv /\ Inv' /\ Once /\ [Next]_vars => Once'
  BY OnceStep
<1>3. Inv /\ Once => LoneMigrationStoresOnce
  BY OnceCounts
<1> QED BY Invariance, <1>1, <1>2, <1>3, PTL DEF Spec
=============================================================================
