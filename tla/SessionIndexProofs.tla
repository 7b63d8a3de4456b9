------------------------- MODULE SessionIndexProofs -------------------------
(***************************************************************************)
(* Proofs about SessionIndex, for every set of indexers, every line kinds  *)
(* and every bound: type correctness; the plies of a lone indexer are      *)
(* absolute; for harnesses whose turn ids do not depend on the position,   *)
(* and for grok with a lone indexer, no line is stored twice, no turn is   *)
(* jumped over, and the whole implements TurnMemory.                       *)
(***************************************************************************)
EXTENDS SessionIndex, FiniteSetTheorems, WellFoundedInduction, TLAPS

-----------------------------------------------------------------------------
(* Least and greatest elements                                             *)

\* A nonempty set of naturals has a least element.
LEMMA LeastElement ==
  ASSUME NEW T \in SUBSET Nat, T # {}
  PROVE  \E x \in T : \A y \in T : x <= y
<1> DEFINE R == OpToRel(<, Nat)
<1>1. IsWellFoundedOn(R, Nat)
  BY NatLessThanWellFounded
<1>2. PICK x \in T : \A y \in T : ~ (<<y, x>> \in R)
  <2> HIDE DEF R
  <2> QED BY <1>1, WFMin
<1>3. \A a, b \in Nat : (<<a, b>> \in R) <=> a < b
  BY DEF OpToRel
<1> HIDE DEF R
<1>4. ASSUME NEW y \in T PROVE x <= y
  <2>1. x \in Nat /\ y \in Nat
    OBVIOUS
  <2>2. ~ (y < x)
    BY <1>2, <1>3, <2>1
  <2> QED BY <2>1, <2>2
<1> QED BY <1>4

\* A nonempty bounded set of naturals has a greatest element.
LEMMA GreatestElement ==
  ASSUME NEW n \in Nat, NEW T \in SUBSET (0..n), T # {}
  PROVE  \E x \in T : \A y \in T : y <= x
<1> DEFINE U == {n - t : t \in T}
<1>1. U \in SUBSET Nat
  OBVIOUS
<1>2. U # {}
  OBVIOUS
<1>3. PICK u \in U : \A v \in U : u <= v
  <2> HIDE DEF U
  <2> QED BY <1>1, <1>2, LeastElement
<1>4. PICK x \in T : u = n - x
  OBVIOUS
<1>5. ASSUME NEW y \in T PROVE y <= x
  <2>1. n - x <= n - y
    BY <1>3, <1>4
  <2>2. x \in Int /\ y \in Int
    OBVIOUS
  <2> QED BY <2>1, <2>2
<1> QED BY <1>5


-----------------------------------------------------------------------------
(* Numbers                                                                 *)

\* The lines of an interval that satisfy a condition are finitely many, and
\* fewer in a smaller set.
LEMMA LinesFinite ==
  ASSUME NEW a \in Int, NEW b \in Int, NEW S \in SUBSET (a..b), NEW T \in SUBSET S
  PROVE  /\ IsFiniteSet(S)
         /\ Cardinality(S) \in Nat
         /\ Cardinality(T) <= Cardinality(S)
<1>1. IsFiniteSet(a..b)
  BY FS_Interval
<1>2. IsFiniteSet(S)
  BY <1>1, FS_Subset
<1> QED BY <1>2, FS_Subset, FS_CardinalityType

-----------------------------------------------------------------------------
(* The chunk and what is parsed from it                                    *)

\* A chunk is made of entries of the log after the offset.
LEMMA ChunkLines ==
  ASSUME NEW off \in Int, log \in Seq(Kinds), off >= 0
  PROVE  /\ Chunk(off) \subseteq off + 1..Len(log)
         /\ Chunk(off) \subseteq DOMAIN log
         /\ \A i \in Chunk(off) : log[i] \in Entries
BY DEF Chunk

\* Every entry after the offset and before a line of the chunk is in it: a
\* read stops, it never leaves an entry out.
LEMMA ChunkHasNoHoles ==
  ASSUME NEW off \in Int, log \in Seq(Kinds), off >= 0,
         NEW i \in Chunk(off), NEW j \in off + 1..i, log[j] \in Entries
  PROVE  j \in Chunk(off)
<1> DEFINE Upto(n) == {k \in off + 1..n : log[k] \in Entries}
<1>1. i \in off + 1..Len(log) /\ j \in off + 1..Len(log) /\ Len(log) \in Nat
  BY DEF Chunk
<1>2. \A k \in off + 1..j : log[k] # "huge"
  BY <1>1 DEF Chunk
<1>3. Cardinality(Upto(j)) <= MaxEntries
  <2>1. Upto(i) \in SUBSET (off + 1..i) /\ Upto(j) \in SUBSET Upto(i)
    BY <1>1
  <2>2. Cardinality(Upto(j)) <= Cardinality(Upto(i)) /\ Cardinality(Upto(i)) \in Nat
    <3>1. off + 1 \in Int /\ i \in Int
      BY <1>1
    <3> HIDE DEF Upto
    <3> QED BY <2>1, <3>1, LinesFinite
  <2>3. Cardinality(Upto(i)) <= MaxEntries
    BY DEF Chunk
  <2>4. Cardinality(Upto(j)) \in Nat
    <3>1. Upto(j) \in SUBSET (off + 1..j) /\ off + 1 \in Int /\ j \in Int
      BY <1>1
    <3> HIDE DEF Upto
    <3> QED BY <3>1, <1>1, LinesFinite
  <2> QED BY <2>2, <2>3, <2>4, IndexAssumption
<1> QED BY <1>1, <1>2, <1>3 DEF Chunk

\* A parsed exchange captures the beginning of a turn of the log, and its
\* plies are naturals not below the offset.
LEMMA ParsedShape ==
  ASSUME NEW off \in Int, NEW offset \in Nat, log \in Seq(Kinds), Len(log) <= MaxLog,
         off >= 0, NEW x \in Parse(Chunk(off), offset)
  PROVE  /\ x \in Exchange
         /\ IsCapture(log, x)
         /\ x.first > off
         /\ x.first \in Chunk(off) /\ x.last \in Chunk(off)
         /\ x.start >= offset
<1> DEFINE C == Chunk(off)
<1>1. PICK t \in Turns(C) :
        x = [first |-> t[1], last |-> t[2],
             start |-> Ply(C, offset, t[1]), end |-> Ply(C, offset, t[2])]
  BY DEF Parse
<1>2. /\ t \in C \X C
      /\ log[t[1]] \in Prompts
      /\ t[1] <= t[2]
      /\ NoPrompt(log, t[1] + 1, t[2])
  BY DEF Turns
<1>3. /\ C \subseteq off + 1..Len(log)
      /\ C \subseteq DOMAIN log
      /\ Len(log) \in Nat
  BY ChunkLines
<1>4. \A i \in Int : Ply(C, offset, i) \in Nat /\ Ply(C, offset, i) >= offset
  <2> TAKE i \in Int
  <2> DEFINE D == {k \in C : k < i}
  <2>1. D \in SUBSET (off + 1..Len(log)) /\ off + 1 \in Int /\ Len(log) \in Int
    BY <1>3
  <2>2. Cardinality(D) \in Nat
    <3> HIDE DEF D
    <3> QED BY <2>1, LinesFinite
  <2> QED BY <2>2 DEF Ply
<1> HIDE DEF C
<1>5. /\ t[1] \in C /\ t[2] \in C
      /\ t[1] \in off + 1..Len(log) /\ t[2] \in off + 1..Len(log)
      /\ t[1] \in 1..MaxLog /\ t[2] \in 1..MaxLog
      /\ t[1] \in Int /\ t[2] \in Int /\ t[1] > off
  BY <1>2, <1>3, IndexAssumption
<1>6. x \in Exchange
  BY <1>1, <1>4, <1>5 DEF Exchange
<1>7. IsCapture(log, x)
  BY <1>1, <1>2, <1>3, <1>5 DEF IsCapture, InTurn
<1>8. x.first = t[1] /\ x.last = t[2] /\ x.start >= offset
  BY <1>1, <1>4, <1>5
<1> QED BY <1>5, <1>6, <1>7, <1>8 DEF C

\* A parse gives one exchange for each prompt.
LEMMA ParsedOncePerTurn ==
  ASSUME NEW off \in Int, NEW offset \in Nat, log \in Seq(Kinds), off >= 0,
         NEW x \in Parse(Chunk(off), offset), NEW y \in Parse(Chunk(off), offset),
         x.first = y.first
  PROVE  x = y
<1> DEFINE C == Chunk(off)
<1>1. PICK t \in Turns(C) :
        x = [first |-> t[1], last |-> t[2],
             start |-> Ply(C, offset, t[1]), end |-> Ply(C, offset, t[2])]
  BY DEF Parse
<1>2. PICK u \in Turns(C) :
        y = [first |-> u[1], last |-> u[2],
             start |-> Ply(C, offset, u[1]), end |-> Ply(C, offset, u[2])]
  BY DEF Parse
<1>3. C \subseteq DOMAIN log /\ DOMAIN log \subseteq Int
  BY ChunkLines
<1> HIDE DEF C
<1>4. /\ t \in C \X C /\ u \in C \X C
      /\ NoPrompt(log, t[1] + 1, t[2]) /\ NoPrompt(log, u[1] + 1, u[2])
      /\ \A i \in C : i > t[2] => ~NoPrompt(log, t[2] + 1, i)
      /\ \A i \in C : i > u[2] => ~NoPrompt(log, u[2] + 1, i)
      /\ t[1] <= t[2] /\ u[1] <= u[2]
  BY DEF Turns
<1>5. /\ t[1] \in C /\ t[2] \in C /\ u[1] \in C /\ u[2] \in C
      /\ t[1] \in Int /\ t[2] \in Int /\ u[1] \in Int /\ u[2] \in Int
      /\ t[1] = u[1]
  BY <1>1, <1>2, <1>3, <1>4
<1>6. ~(t[2] < u[2])
  <2> SUFFICES ASSUME t[2] < u[2] PROVE FALSE
    OBVIOUS
  <2>1. NoPrompt(log, t[2] + 1, u[2])
    BY <1>4, <1>5 DEF NoPrompt
  <2> QED BY <2>1, <1>4, <1>5
<1>7. ~(u[2] < t[2])
  <2> SUFFICES ASSUME u[2] < t[2] PROVE FALSE
    OBVIOUS
  <2>1. NoPrompt(log, u[2] + 1, t[2])
    BY <1>4, <1>5 DEF NoPrompt
  <2> QED BY <2>1, <1>4, <1>5
<1>8. t[2] = u[2]
  BY <1>5, <1>6, <1>7
<1> QED BY <1>1, <1>2, <1>5, <1>8

-----------------------------------------------------------------------------
(* Type correctness                                                        *)

\* The offsets a run computes from what it read are of the right type.
LEMMA OffsetTypes ==
  ASSUME TypeOK, NEW p \in Indexers
  PROVE  PlyOffset(p) \in Nat /\ ByteOffset(p) \in Nat
BY IndexAssumption DEF TypeOK, PlyOffset, ByteOffset, NoCursor, NoPly

\* Returning resets the locals to their initial values.
LEMMA ReturnTypes ==
  ASSUME TypeOK, NEW p \in Indexers, Return(p)
  PROVE  /\ pc' \in [Indexers -> {"idle", "cursor", "read", "reconcile", "ingest"}]
         /\ seenPly' \in [Indexers -> Nat \cup {NoPly}]
         /\ seenCursor' \in [Indexers -> 1..MaxLog \cup {NoCursor}]
         /\ batch' \in [Indexers -> SUBSET Exchange]
BY DEF TypeOK, Return

\* Every variable stays in its type: no step writes a cursor outside the log
\* or a ply below zero.
THEOREM TypeCorrect == Spec => []TypeOK
<1>1. Init => TypeOK
  <2>1. <<>> \in Seq(Kinds) /\ Len(<<>>) = 0
    OBVIOUS
  <2>2. 0 \in 0..MaxCrashes /\ 0 <= MaxLog
    BY IndexAssumption
  <2>3. Init => batch \in [Indexers -> SUBSET Exchange] /\ stored \subseteq Exchange
    BY DEF Init
  <2> QED BY <2>1, <2>2, <2>3 DEF Init, TypeOK, NoCursor, NoPly
<1>2. TypeOK /\ [Next]_vars => TypeOK'
  <2> SUFFICES ASSUME TypeOK, [Next]_vars PROVE TypeOK'
    OBVIOUS
  <2>1. CASE AppendLine
    <3>1. PICK k \in Kinds : log' = Append(log, k)
      BY <2>1 DEF AppendLine
    <3>2. log' \in Seq(Kinds) /\ Len(log') = Len(log) + 1 /\ Len(log) \in Nat
      BY <3>1 DEF TypeOK
    <3> QED BY <2>1, <3>2, IndexAssumption DEF AppendLine, TypeOK, dbVars, runVars
  <2>2. CASE ToggleIgnore
    BY <2>2 DEF ToggleIgnore, TypeOK, dbVars, runVars
  <2>3. ASSUME NEW p \in Indexers, Begin(p) PROVE TypeOK'
    BY <2>3 DEF Begin, TypeOK, dbVars
  <2>4. ASSUME NEW p \in Indexers, ReadCursor(p) PROVE TypeOK'
    BY <2>4 DEF ReadCursor, TypeOK, dbVars
  <2>5. ASSUME NEW p \in Indexers, ReadLog(p) PROVE TypeOK'
    <3>1. Parse(Chunk(ByteOffset(p)), PlyOffset(p)) \subseteq Exchange
      BY ParsedShape, OffsetTypes DEF TypeOK
    <3>2. batch' \in [Indexers -> SUBSET Exchange]
      BY <2>5, <3>1 DEF ReadLog, TypeOK
    <3> QED BY <2>5, <3>2 DEF ReadLog, TypeOK, dbVars
  <2>6. ASSUME NEW p \in Indexers, Reconcile(p) PROVE TypeOK'
    <3>1. CASE Return(p)
      BY <2>6, <3>1, ReturnTypes DEF Reconcile, TypeOK, dbVars
    <3>2. CASE ~Return(p)
      BY <2>6, <3>2 DEF Reconcile, TypeOK, dbVars
    <3> QED BY <3>1, <3>2
  <2>7. ASSUME NEW p \in Indexers, Ingest(p) PROVE TypeOK'
    <3>1. batch[p] \subseteq Exchange /\ stored' \subseteq Exchange
      BY <2>7 DEF Ingest, Inserted, TypeOK
    <3>2. PICK x \in batch[p] :
            /\ cursor' = NextCursor(x)
            /\ lastPlyEnd' = IF x.end > lastPlyEnd THEN x.end ELSE lastPlyEnd
      BY <2>7 DEF Ingest
    <3>3. cursor' \in 1..MaxLog /\ lastPlyEnd' \in Nat \cup {NoPly}
      BY <3>1, <3>2 DEF Exchange, NextCursor, TypeOK
    <3> QED BY <2>7, <3>1, <3>3, ReturnTypes DEF Ingest, TypeOK
  <2>8. ASSUME NEW p \in Indexers, Crash(p) PROVE TypeOK'
    <3>1. crashes' \in 0..MaxCrashes
      BY <2>8, IndexAssumption DEF Crash, TypeOK
    <3> QED BY <2>8, <3>1, ReturnTypes DEF Crash, TypeOK, dbVars
  <2>9. CASE UNCHANGED vars
    BY <2>9 DEF vars, dbVars, runVars, TypeOK
  <2> QED BY <2>1, <2>2, <2>3, <2>4, <2>5, <2>6, <2>7, <2>8, <2>9 DEF Next, Step
<1> QED BY <1>1, <1>2, PTL DEF Spec

-----------------------------------------------------------------------------
(* A log that grows                                                        *)

\* m is l with lines added at its end.
Grown(l, m) ==
    /\ l \in Seq(LineKinds)
    /\ m \in Seq(LineKinds)
    /\ Len(l) <= Len(m)
    /\ \A i \in 1..Len(l) : m[i] = l[i]

\* A step appends to the log or leaves it alone.
LEMMA LogGrows ==
  ASSUME TypeOK, [Next]_vars
  PROVE  Grown(log, log')
<1>1. log \in Seq(LineKinds) /\ Len(log) \in Nat
  BY IndexAssumption DEF TypeOK
<1>2. CASE log' = log
  BY <1>1, <1>2 DEF Grown
<1>3. CASE AppendLine
  <2>1. PICK k \in Kinds : log' = Append(log, k)
    BY <1>3 DEF AppendLine
  <2>2. k \in LineKinds
    BY IndexAssumption
  <2>3. log' \in Seq(LineKinds) /\ Len(log') = Len(log) + 1
        /\ \A i \in 1..Len(log) : log'[i] = log[i]
    BY <1>1, <2>1, <2>2
  <2> QED BY <1>1, <2>3 DEF Grown
<1> QED
  BY <1>2, <1>3 DEF Next, Step, vars, ToggleIgnore, Begin, ReadCursor, ReadLog, Reconcile,
     Ingest, Crash

\* What is known of a turn's first lines does not change when lines are added.
LEMMA GrownTurns ==
  ASSUME NEW l, NEW m, Grown(l, m)
  PROVE  /\ \A b, i \in 1..Len(l) : InTurn(l, b, i) <=> InTurn(m, b, i)
         /\ \A a, b \in 1..Len(l), K \in SUBSET LineKinds :
               Holds(l, a, b, K) <=> Holds(m, a, b, K)
         /\ \A b \in 1..Len(l) : Finished(l, b) => Finished(m, b)
         /\ \A b \in 1..Len(l), K \in SUBSET LineKinds :
               TurnHas(l, b, K) => TurnHas(m, b, K)
         /\ \A b \in 1..Len(l), K \in SUBSET LineKinds :
               Finished(l, b) /\ ~TurnHas(l, b, K) => ~TurnHas(m, b, K)
<1>1. /\ Len(l) \in Nat /\ Len(m) \in Nat /\ Len(l) <= Len(m)
      /\ DOMAIN l = 1..Len(l) /\ DOMAIN m = 1..Len(m)
      /\ \A i \in 1..Len(l) : m[i] = l[i]
  BY DEF Grown
<1>2. ASSUME NEW b \in 1..Len(l), NEW i \in 1..Len(l)
      PROVE  InTurn(l, b, i) <=> InTurn(m, b, i)
  BY <1>1 DEF InTurn, NoPrompt
<1>3. ASSUME NEW b \in 1..Len(l), NEW a \in 1..Len(l), NEW K \in SUBSET LineKinds
      PROVE  Holds(l, a, b, K) <=> Holds(m, a, b, K)
  BY <1>1 DEF Holds
<1>4. ASSUME NEW b \in 1..Len(l), Finished(l, b)
      PROVE  Finished(m, b)
  BY <1>1, <1>4 DEF Finished, NoPrompt
<1>5. ASSUME NEW b \in 1..Len(l), NEW K \in SUBSET LineKinds, TurnHas(l, b, K)
      PROVE  TurnHas(m, b, K)
  <2>1. PICK i \in b..Len(l) : InTurn(l, b, i) /\ l[i] \in K
    BY <1>5 DEF TurnHas
  <2>2. i \in 1..Len(l) /\ i \in b..Len(m)
    BY <1>1
  <2> QED BY <1>1, <1>2, <2>1, <2>2 DEF TurnHas
<1>6. ASSUME NEW b \in 1..Len(l), NEW K \in SUBSET LineKinds, Finished(l, b), TurnHas(m, b, K)
      PROVE  TurnHas(l, b, K)
  <2>1. PICK i \in b..Len(m) : InTurn(m, b, i) /\ m[i] \in K
    BY <1>6 DEF TurnHas
  <2>2. PICK n \in b + 1..Len(l) : l[n] \in Prompts
    BY <1>6 DEF Finished, NoPrompt
  <2>3. m[n] \in Prompts
    BY <1>1, <2>2
  <2>4. ~(n <= i)
    BY <1>1, <2>1, <2>2, <2>3 DEF InTurn, NoPrompt
  <2>5. i \in b..Len(l) /\ i \in 1..Len(l)
    BY <1>1, <2>2, <2>4
  <2> QED BY <1>1, <1>2, <2>1, <2>5 DEF TurnHas
<1> QED BY <1>2, <1>3, <1>4, <1>5, <1>6

-----------------------------------------------------------------------------
(* Plies                                                                   *)

EntriesBefore(i) == Cardinality({k \in 1..i - 1 : log[k] \in Entries})

\* The entries before a line are finitely many; a later entry has more of them.
LEMMA EntriesGrow ==
  ASSUME NEW i \in Nat \ {0}, NEW j \in Nat \ {0}, i < j, log[i] \in Entries
  PROVE  /\ EntriesBefore(i) \in Nat /\ EntriesBefore(j) \in Nat
         /\ EntriesBefore(i) < EntriesBefore(j)
         /\ j = i + 1 => EntriesBefore(j) = EntriesBefore(i) + 1
<1> DEFINE E(n) == {k \in 1..n - 1 : log[k] \in Entries}
<1>1. E(i) \in SUBSET (1..j - 1) /\ E(j) \in SUBSET (1..j - 1) /\ E(i) \cup {i} \in SUBSET E(j)
  OBVIOUS
<1>2. i \notin E(i) /\ (j = i + 1 => E(j) = E(i) \cup {i})
  OBVIOUS
<1>3. /\ EntriesBefore(i) = Cardinality(E(i)) /\ EntriesBefore(j) = Cardinality(E(j))
  BY DEF EntriesBefore
<1> HIDE DEF E
<1>4. j - 1 \in Int /\ IsFiniteSet(1..j - 1)
  BY FS_Interval
<1>5. IsFiniteSet(E(i)) /\ IsFiniteSet(E(j))
  BY <1>1, <1>4, FS_Subset
<1>6. Cardinality(E(i) \cup {i}) = Cardinality(E(i)) + 1
  BY <1>2, <1>5, FS_AddElement
<1>7. Cardinality(E(i) \cup {i}) <= Cardinality(E(j))
  BY <1>1, <1>5, FS_Subset
<1>8. Cardinality(E(i)) \in Nat /\ Cardinality(E(j)) \in Nat
  BY <1>5, FS_CardinalityType
<1> QED BY <1>2, <1>3, <1>6, <1>7, <1>8

\* A line of a chunk is as many entries from the start of the log as there are
\* up to the offset and in the chunk before it: the read leaves none out.
LEMMA ChunkCounts ==
  ASSUME NEW off \in Nat, log \in Seq(Kinds), NEW i \in Chunk(off)
  PROVE  /\ EntriesBefore(off + 1) \in Nat
         /\ EntriesBefore(i) = EntriesBefore(off + 1) + Cardinality({k \in Chunk(off) : k < i})
<1> DEFINE A == {k \in 1..off : log[k] \in Entries}
           B == {k \in Chunk(off) : k < i}
           E == {k \in 1..i - 1 : log[k] \in Entries}
<1>1. /\ Chunk(off) \subseteq off + 1..Len(log)
      /\ \A k \in Chunk(off) : log[k] \in Entries
      /\ Len(log) \in Nat /\ i \in off + 1..Len(log)
  BY ChunkLines
<1>2. \A j \in off + 1..i : log[j] \in Entries => j \in Chunk(off)
  BY ChunkHasNoHoles
<1>3. E = A \cup B
  BY <1>1, <1>2
<1>4. A \cap B = {} /\ A \in SUBSET (1..Len(log)) /\ B \in SUBSET (1..Len(log))
  BY <1>1
<1>5. EntriesBefore(i) = Cardinality(E) /\ EntriesBefore(off + 1) = Cardinality(A)
  <2>1. off + 1 - 1 = off
    OBVIOUS
  <2> QED BY <2>1 DEF EntriesBefore
<1> HIDE DEF A, B, E
<1>6. IsFiniteSet(A) /\ IsFiniteSet(B)
  <2>1. IsFiniteSet(1..Len(log))
    BY <1>1, FS_Interval
  <2> QED BY <1>4, <2>1, FS_Subset
<1>7. Cardinality(E) = Cardinality(A) + Cardinality(B)
  <2>1. Cardinality(A \cap B) = 0
    BY <1>4, FS_EmptySet
  <2>2. Cardinality(A) \in Nat /\ Cardinality(B) \in Nat
    BY <1>6, FS_CardinalityType
  <2>3. Cardinality(A \cup B) = Cardinality(A) + Cardinality(B) - Cardinality(A \cap B)
    BY <1>6, FS_Union
  <2> QED BY <1>3, <2>1, <2>2, <2>3
<1>8. Cardinality(A) \in Nat
  BY <1>6, FS_CardinalityType
<1> QED BY <1>5, <1>7, <1>8 DEF B

-----------------------------------------------------------------------------
\* No two runs overlap.
Alone == \A p, q \in Indexers : p = q

\* The plies of x are the places of its lines among the log's entries.
Absolute(x) ==
    /\ x.start = EntriesBefore(x.first) /\ x.end = EntriesBefore(x.last)
    /\ x.first <= Len(log) /\ log[x.first] \in Entries
    /\ x.last <= Len(log) /\ log[x.last] \in Entries

\* The last ply is the cursor's line; a run has read them both as they are, and
\* what it is about to write lies behind them.
PlyInv ==
    /\ \A x \in stored : Absolute(x)
    /\ cursor = NoCursor => lastPlyEnd = NoPly
    /\ cursor # NoCursor => /\ lastPlyEnd = EntriesBefore(cursor)
                            /\ cursor <= Len(log) /\ log[cursor] \in Entries
    /\ \A p \in Indexers :
          /\ pc[p] # "idle" => seenPly[p] = lastPlyEnd
          /\ pc[p] \notin {"idle", "cursor"} => seenCursor[p] = cursor
          /\ \A x \in batch[p] : Absolute(x) /\ x.last > cursor

\* An exchange keeps its plies while the log grows.
LEMMA AbsoluteStable ==
  ASSUME TypeOK, [Next]_vars
  PROVE  /\ \A i \in 1..Len(log) : EntriesBefore(i)' = EntriesBefore(i)
         /\ \A x \in Exchange : Absolute(x) => Absolute(x)'
<1>1. /\ Len(log) \in Nat /\ Len(log') \in Nat /\ Len(log) <= Len(log')
      /\ \A i \in 1..Len(log) : log'[i] = log[i]
  BY LogGrows DEF Grown
<1>2. ASSUME NEW i \in 1..Len(log) PROVE EntriesBefore(i)' = EntriesBefore(i)
  <2>1. {k \in 1..i - 1 : log'[k] \in Entries} = {k \in 1..i - 1 : log[k] \in Entries}
    BY <1>1
  <2> QED BY <2>1 DEF EntriesBefore
<1> QED BY <1>1, <1>2 DEF Absolute, Exchange

\* A run that starts where the stored plies end gives absolute plies.
LEMMA ParsedAbsolute ==
  ASSUME TypeOK, PlyInv, NEW p \in Indexers, pc[p] = "read",
         NEW x \in Parse(Chunk(ByteOffset(p)), PlyOffset(p))
  PROVE  Absolute(x) /\ x.last > cursor /\ x \in Exchange
<1> DEFINE off == ByteOffset(p)
           C == Chunk(off)
<1>1. /\ off \in Nat /\ PlyOffset(p) \in Nat /\ log \in Seq(Kinds) /\ Len(log) \in Nat
      /\ Len(log) <= MaxLog
  BY OffsetTypes DEF TypeOK
<1>2. /\ x \in Exchange /\ IsCapture(log, x) /\ x.first > off
      /\ x.first \in C /\ x.last \in C
  BY <1>1, ParsedShape
<1>3. PICK t \in Turns(C) :
        x = [first |-> t[1], last |-> t[2],
             start |-> Ply(C, PlyOffset(p), t[1]), end |-> Ply(C, PlyOffset(p), t[2])]
  BY DEF Parse
<1>4. PlyOffset(p) = EntriesBefore(off + 1)
  <2>1. seenPly[p] = lastPlyEnd /\ seenCursor[p] = cursor
    BY DEF PlyInv
  <2>2. CASE cursor = NoCursor
    <3>1. off = 0 /\ PlyOffset(p) = 0
      BY <2>1, <2>2 DEF ByteOffset, PlyOffset
    <3>2. {k \in 1..off + 1 - 1 : log[k] \in Entries} = {}
      BY <3>1
    <3> QED BY <3>1, <3>2, FS_EmptySet DEF EntriesBefore
  <2>3. CASE cursor # NoCursor
    <3>1. off = cursor /\ PlyOffset(p) = EntriesBefore(cursor) + 1
      BY <2>1, <2>3 DEF ByteOffset, PlyOffset, PlyInv
    <3>2. cursor \in Nat \ {0} /\ log[cursor] \in Entries
      BY <2>3 DEF TypeOK, PlyInv
    <3> QED BY <3>1, <3>2, EntriesGrow
  <2> QED BY <2>2, <2>3
<1>5. \A i \in C : Ply(C, PlyOffset(p), i) = EntriesBefore(i)
  BY <1>1, <1>4, ChunkCounts DEF Ply
<1>6. /\ x.start = EntriesBefore(x.first) /\ x.end = EntriesBefore(x.last)
  BY <1>2, <1>3, <1>5
<1>7. /\ x.first \in off + 1..Len(log) /\ x.last \in off + 1..Len(log)
      /\ log[x.first] \in Entries /\ log[x.last] \in Entries
  BY <1>1, <1>2, ChunkLines
<1>8. cursor <= off
  BY DEF TypeOK, PlyInv, ByteOffset, NoCursor
<1> HIDE DEF C, off
<1>9. cursor \in Int /\ off \in Nat
  BY <1>1 DEF TypeOK, NoCursor
<1> QED BY <1>1, <1>2, <1>6, <1>7, <1>8, <1>9 DEF Absolute

LEMMA PlyStep ==
  ASSUME Alone, TypeOK, PlyInv, [Next]_vars
  PROVE  PlyInv'
<1>1. /\ \A i \in 1..Len(log) : EntriesBefore(i)' = EntriesBefore(i)
      /\ \A x \in Exchange : Absolute(x) => Absolute(x)'
      /\ Len(log) \in Nat /\ Len(log') \in Nat /\ Len(log) <= Len(log')
      /\ \A i \in 1..Len(log) : log'[i] = log[i]
  BY AbsoluteStable, LogGrows DEF Grown
<1>2. /\ \A x \in stored : Absolute(x)'
      /\ \A p \in Indexers : \A x \in batch[p] : Absolute(x)' /\ x.last > cursor
      /\ cursor # NoCursor => cursor <= Len(log') /\ log'[cursor] \in Entries
      /\ cursor # NoCursor /\ cursor' = cursor => lastPlyEnd = EntriesBefore(cursor)'
  <2>1. cursor # NoCursor => cursor \in 1..Len(log)
    BY <1>1 DEF TypeOK, PlyInv
  <2>2. cursor # NoCursor /\ cursor' = cursor => lastPlyEnd = EntriesBefore(cursor)'
    <3>1. \A i \in 1..Len(log) : i = cursor' => EntriesBefore(cursor)' = EntriesBefore(i)
      BY <1>1 DEF EntriesBefore
    <3> QED BY <2>1, <3>1 DEF PlyInv
  <2>3. cursor # NoCursor => cursor <= Len(log') /\ log'[cursor] \in Entries
    BY <1>1, <2>1 DEF PlyInv
  <2>4. \A x \in stored : Absolute(x)'
    BY <1>1 DEF PlyInv, TypeOK
  <2>5. \A p \in Indexers : \A x \in batch[p] : x \in Exchange /\ Absolute(x) /\ x.last > cursor
    BY DEF PlyInv, TypeOK
  <2> QED BY <1>1, <2>2, <2>3, <2>4, <2>5
<1>3. CASE UNCHANGED <<dbVars, runVars>>
  BY <1>2, <1>3 DEF PlyInv, dbVars, runVars
<1>4. ASSUME NEW p \in Indexers, Begin(p) PROVE PlyInv'
  BY <1>2, <1>4 DEF PlyInv, Begin, dbVars, TypeOK, Alone
<1>5. ASSUME NEW p \in Indexers, ReadCursor(p) PROVE PlyInv'
  BY <1>2, <1>5 DEF PlyInv, ReadCursor, dbVars, TypeOK, Alone
<1>6. ASSUME NEW p \in Indexers, ReadLog(p) PROVE PlyInv'
  <2>1. /\ pc[p] = "read" /\ pc' = [pc EXCEPT ![p] = "reconcile"]
        /\ UNCHANGED <<log, cursor, lastPlyEnd, stored, seenPly, seenCursor>>
        /\ \A q \in Indexers : q = p
    BY <1>6 DEF ReadLog, dbVars, Alone
  <2>2. \A x \in batch'[p] : x \in Exchange /\ Absolute(x) /\ x.last > cursor
    <3>1. batch'[p] \subseteq Parse(Chunk(ByteOffset(p)), PlyOffset(p))
      BY <1>6 DEF ReadLog, TypeOK
    <3> QED BY <2>1, <3>1, ParsedAbsolute
  <2>3. pc'[p] = "reconcile" /\ pc[p] \notin {"idle", "cursor"}
    BY <2>1 DEF TypeOK
  <2> QED BY <1>1, <1>2, <2>1, <2>2, <2>3 DEF PlyInv
<1>7. ASSUME NEW p \in Indexers, Return(p), UNCHANGED dbVars PROVE PlyInv'
  BY <1>2, <1>7 DEF PlyInv, Return, dbVars, TypeOK, Alone
<1>8. ASSUME NEW p \in Indexers, Reconcile(p) PROVE PlyInv'
  <2>1. CASE Return(p)
    BY <1>7, <1>8, <2>1 DEF Reconcile
  <2>2. CASE ~Return(p)
    <3>1. /\ pc[p] = "reconcile" /\ pc'[p] = "ingest" /\ batch'[p] \subseteq batch[p]
          /\ \A q \in Indexers : q = p
          /\ UNCHANGED <<cursor, lastPlyEnd, stored, seenPly, seenCursor>>
      BY <1>8, <2>2 DEF Reconcile, TypeOK, dbVars, Alone
    <3> QED BY <1>2, <3>1 DEF PlyInv
  <2> QED BY <2>1, <2>2
<1>9. ASSUME NEW p \in Indexers, Ingest(p) PROVE PlyInv'
  <2>1. PICK x \in batch[p] : /\ cursor' = x.last
                              /\ lastPlyEnd' = IF x.end > lastPlyEnd THEN x.end ELSE lastPlyEnd
    BY <1>9 DEF Ingest, NextCursor
  <2>2. x \in Exchange /\ Absolute(x) /\ Absolute(x)' /\ x.last > cursor
    BY <1>2 DEF PlyInv, TypeOK
  <2>3. x.end > lastPlyEnd
    <3>1. x.last \in Nat \ {0} /\ x.end = EntriesBefore(x.last) /\ x.end \in Nat
      BY <2>2 DEF Absolute, Exchange
    <3>2. CASE cursor = NoCursor
      BY <3>1, <3>2 DEF PlyInv, NoPly
    <3>3. CASE cursor # NoCursor
      <4>1. cursor \in Nat \ {0} /\ log[cursor] \in Entries /\ lastPlyEnd = EntriesBefore(cursor)
        BY <3>3 DEF TypeOK, PlyInv
      <4> QED BY <2>2, <3>1, <4>1, EntriesGrow
    <3> QED BY <3>2, <3>3
  <2>4. /\ lastPlyEnd' = EntriesBefore(cursor)' /\ cursor' <= Len(log') /\ log'[cursor'] \in Entries
        /\ cursor' # NoCursor
    <3>1. lastPlyEnd' = x.end
      BY <2>1, <2>3
    <3>2. EntriesBefore(cursor)' = EntriesBefore(x.last)'
      BY <2>1 DEF EntriesBefore
    <3>3. x.end = EntriesBefore(x.last)'
      BY <2>2 DEF Absolute
    <3> QED BY <2>1, <2>2, <3>1, <3>2, <3>3 DEF Absolute, Exchange, NoCursor
  <2>5. /\ \A q \in Indexers : q = p
        /\ pc'[p] = "idle" /\ batch'[p] = {} /\ stored' \subseteq stored \cup batch[p]
    BY <1>9 DEF Ingest, Return, Inserted, TypeOK, Alone
  <2> QED BY <1>2, <2>4, <2>5 DEF PlyInv
<1>10. ASSUME NEW p \in Indexers, Crash(p) PROVE PlyInv'
  BY <1>7, <1>10 DEF Crash
<1> QED
  BY <1>3, <1>4, <1>5, <1>6, <1>8, <1>9, <1>10 DEF Next, Step, vars, AppendLine, ToggleIgnore

LEMMA PlyInvariant == Alone => (Spec => []PlyInv)
<1> SUFFICES ASSUME Alone PROVE Spec => []PlyInv
  OBVIOUS
<1>1. Init => PlyInv
  BY DEF Init, PlyInv, NoCursor, NoPly
<1>2. TypeOK /\ PlyInv /\ [Next]_vars => PlyInv'
  BY PlyStep
<1> QED BY <1>1, <1>2, TypeCorrect, PTL DEF Spec

\* While no two runs overlap, the plies that the recall commands cite are the
\* places of the lines in the whole log, in however many pieces it is read.
THEOREM PliesAreAbsolute == Alone => (Spec => []PlyIsAbsolute)
<1>1. PlyInv => PlyIsAbsolute
  BY DEF PlyInv, Absolute, PlyIsAbsolute, EntriesBefore
<1> QED BY <1>1, PlyInvariant, PTL

-----------------------------------------------------------------------------
(* Ids                                                                     *)

\* Turn ids do not depend on the position, or no two runs overlap.
SafeIds == ~PlyIds \/ Alone

\* Two exchanges, stored or about to be, have one id exactly when they capture
\* the same turn.
TurnIds ==
    \A x, y \in stored \cup UNION {batch[p] : p \in Indexers} :
        IdOf(x) = IdOf(y) <=> x.first = y.first

\* Absolute plies name turns as well as line numbers do.
LEMMA PliesAreIds ==
  ASSUME NEW x \in Exchange, NEW y \in Exchange, Absolute(x), Absolute(y)
  PROVE  x.start = y.start <=> x.first = y.first
<1>1. /\ x.first \in Nat \ {0} /\ y.first \in Nat \ {0}
      /\ log[x.first] \in Entries /\ log[y.first] \in Entries
      /\ x.start = EntriesBefore(x.first) /\ y.start = EntriesBefore(y.first)
  BY DEF Exchange, Absolute
<1>2. CASE x.first < y.first
  BY <1>1, <1>2, EntriesGrow
<1>3. CASE y.first < x.first
  BY <1>1, <1>3, EntriesGrow
<1>4. CASE x.first = y.first
  BY <1>1, <1>4
<1> QED BY <1>1, <1>2, <1>3, <1>4

LEMMA TurnIdsHold == SafeIds => (Spec => []TurnIds)
<1>1. ~PlyIds => TurnIds
  BY DEF TurnIds, IdOf
<1>2. TypeOK /\ PlyInv => TurnIds
  <2> SUFFICES ASSUME TypeOK, PlyInv,
                      NEW x \in stored \cup UNION {batch[p] : p \in Indexers},
                      NEW y \in stored \cup UNION {batch[p] : p \in Indexers}
               PROVE  IdOf(x) = IdOf(y) <=> x.first = y.first
    BY DEF TurnIds
  <2>1. x \in Exchange /\ y \in Exchange /\ Absolute(x) /\ Absolute(y)
    BY DEF TypeOK, PlyInv
  <2> QED BY <2>1, PliesAreIds DEF IdOf
<1>3. ASSUME ~PlyIds PROVE Spec => []TurnIds
  <2>1. TurnIds
    BY <1>1, <1>3
  <2> QED BY <2>1, PTL
<1>4. ASSUME Alone PROVE Spec => []TurnIds
  <2>1. Spec => []PlyInv
    BY <1>4, PlyInvariant
  <2> QED BY <1>2, <2>1, TypeCorrect, PTL
<1> QED BY <1>3, <1>4 DEF SafeIds

-----------------------------------------------------------------------------
(* The inductive invariants                                                *)

\* An exchange, stored or about to be, captures the beginning of a turn and
\* has substance.
Sound(x) == IsCapture(log, x) /\ ~Trivial(x)

OnePerTurn(S) == \A x, y \in S : x.first = y.first => x = y

\* Neither the table nor any run's batch holds two exchanges of one turn. The
\* batches need not agree with the table or with each other: two runs may
\* hold the same turn cut at different lines.
CaptureInv ==
    /\ \A x \in stored : Sound(x)
    /\ OnePerTurn(stored)
    /\ \A p \in Indexers : OnePerTurn(batch[p]) /\ \A x \in batch[p] : Sound(x)

\* The turn opened at b needs no further look: it is stored, or refused.
Settled(b) ==
    \/ \E x \in stored : x.first = b
    \/ Finished(log, b) /\ ~TurnHas(log, b, Substance)
    \/ TurnHas(log, b, {"edit"})

\* Every turn opened at a line up to n is settled, or is one of S.
SettledUpTo(n, S) ==
    \A b \in 1..n : log[b] \in Prompts => Settled(b) \/ \E y \in S : y.first = b

\* The cursor, the cursors the runs have read, and the cursors they may write
\* leave no unsettled turn behind. A run may read last_ply_end and then a
\* cursor written later, never a ply without a cursor.
CursorInv ==
    /\ cursor <= Len(log) /\ SettledUpTo(cursor, {})
    /\ lastPlyEnd # NoPly => cursor # NoCursor
    /\ \A p \in Indexers :
          /\ seenCursor[p] <= Len(log) /\ SettledUpTo(seenCursor[p], {})
          /\ pc[p] = "cursor" /\ seenPly[p] # NoPly => cursor # NoCursor
          /\ pc[p] # "cursor" /\ seenPly[p] # NoPly => seenCursor[p] # NoCursor
          /\ \A x \in batch[p] : SettledUpTo(x.last, batch[p])

-----------------------------------------------------------------------------
(* One capture for each turn                                               *)

\* A capture with substance stays one when the log grows.
LEMMA SoundStable ==
  ASSUME TypeOK, [Next]_vars, NEW x \in Exchange, Sound(x)
  PROVE  Sound(x)'
<1>1. Grown(log, log')
  BY LogGrows
<1>2. /\ x.first \in 1..Len(log) /\ x.last \in 1..Len(log)
      /\ Len(log) \in Nat /\ Len(log') \in Nat /\ Len(log) <= Len(log')
      /\ DOMAIN log = 1..Len(log) /\ DOMAIN log' = 1..Len(log')
  BY <1>1 DEF Sound, IsCapture, InTurn, Exchange, Grown
<1>3. Substance \in SUBSET LineKinds
  BY DEF Substance, LineKinds, Entries, Prompts
<1>4. InTurn(log', x.first, x.last)
  BY <1>1, <1>2, GrownTurns DEF Sound, IsCapture
<1>5. ~Holds(log', x.first, x.last, Substance) <=> ~Holds(log, x.first, x.last, Substance)
  BY <1>1, <1>2, <1>3, GrownTurns
<1> QED BY <1>2, <1>4, <1>5 DEF Sound, IsCapture, Trivial

\* When ids name turns, a turn is known exactly when one of its captures is
\* stored.
LEMMA KnownTurns ==
  ASSUME TurnIds, NEW p \in Indexers, NEW x \in batch[p]
  PROVE  IdOf(x) \in Known <=> \E y \in stored : y.first = x.first
BY DEF TurnIds, Known

\* Inserting a batch with one exchange for each turn keeps the table so.
LEMMA InsertedOnePerTurn ==
  ASSUME TurnIds, NEW p \in Indexers, OnePerTurn(stored), OnePerTurn(batch[p])
  PROVE  OnePerTurn(Inserted(batch[p]))
BY KnownTurns DEF OnePerTurn, Inserted

\* CaptureInv is inductive relative to the types.
LEMMA CaptureStep ==
  ASSUME TurnIds, TypeOK, CaptureInv, [Next]_vars
  PROVE  CaptureInv'
<1>1. ASSUME NEW x \in Exchange, Sound(x) PROVE Sound(x)'
  BY <1>1, SoundStable
<1>2. /\ \A x \in stored : x \in Exchange /\ Sound(x)'
      /\ \A p \in Indexers : \A x \in batch[p] : x \in Exchange /\ Sound(x)'
      /\ OnePerTurn(stored) /\ \A p \in Indexers : OnePerTurn(batch[p])
  BY <1>1 DEF CaptureInv, TypeOK
<1>3. CASE UNCHANGED <<stored, batch>>
  BY <1>2, <1>3 DEF CaptureInv, OnePerTurn
<1>4. ASSUME NEW p \in Indexers, UNCHANGED stored,
             \/ batch' = [batch EXCEPT ![p] = {}]
             \/ \E S \in SUBSET batch[p] : batch' = [batch EXCEPT ![p] = S]
      PROVE  CaptureInv'
  <2>1. PICK S \in SUBSET batch[p] : batch' = [batch EXCEPT ![p] = S]
    BY <1>4
  <2>2. batch'[p] = S /\ \A q \in Indexers \ {p} : batch'[q] = batch[q]
    BY <2>1 DEF TypeOK
  <2>3. \A q \in Indexers : batch'[q] \subseteq batch[q]
    BY <2>2
  <2> QED BY <1>2, <1>4, <2>3 DEF CaptureInv, OnePerTurn
<1>5. ASSUME NEW p \in Indexers, ReadLog(p) PROVE CaptureInv'
  <2>1. UNCHANGED <<log, stored>> /\ \A q \in Indexers \ {p} : batch'[q] = batch[q]
    BY <1>5 DEF ReadLog, dbVars, TypeOK
  <2>2. batch'[p] = {x \in Parse(Chunk(ByteOffset(p)), PlyOffset(p)) :
              /\ ~Trivial(x)
              /\ x.start > seenPly[p]
              /\ ~(ignoring /\ Sensitive(x))}
    BY <1>5 DEF ReadLog, TypeOK
  <2>3. PlyOffset(p) \in Nat /\ ByteOffset(p) \in Nat
    BY OffsetTypes
  <2>4. \A x \in batch'[p] : Sound(x)
    BY <2>2, <2>3, ParsedShape DEF Sound, TypeOK
  <2>5. OnePerTurn(batch'[p])
    BY <2>2, <2>3, ParsedOncePerTurn DEF OnePerTurn, TypeOK
  <2>6. \A x \in batch'[p] : Sound(x)'
    BY <2>1, <2>4 DEF Sound, Trivial
  <2> QED BY <1>2, <2>1, <2>5, <2>6 DEF CaptureInv, OnePerTurn
<1>6. ASSUME NEW p \in Indexers, Ingest(p) PROVE CaptureInv'
  <2>1. stored' = Inserted(batch[p]) /\ UNCHANGED log
    BY <1>6 DEF Ingest
  <2>2. \A q \in Indexers : batch'[q] \subseteq batch[q]
    BY <1>6 DEF Ingest, Return, TypeOK
  <2>3. OnePerTurn(stored')
    BY <1>2, <2>1, InsertedOnePerTurn
  <2>4. \A x \in stored' : Sound(x)'
    BY <1>2, <2>1 DEF Inserted
  <2> QED BY <1>2, <2>2, <2>3, <2>4 DEF CaptureInv, OnePerTurn
<1>7. ASSUME NEW p \in Indexers, Reconcile(p) PROVE CaptureInv'
  <2>1. UNCHANGED stored
    BY <1>7 DEF Reconcile, dbVars
  <2>2. \E S \in SUBSET batch[p] : batch' = [batch EXCEPT ![p] = S]
    BY <1>7 DEF Reconcile, Return
  <2> QED BY <1>4, <2>1, <2>2
<1>8. ASSUME NEW p \in Indexers, Crash(p) PROVE CaptureInv'
  BY <1>4, <1>8 DEF Crash, Return, dbVars
<1> QED
  BY <1>3, <1>5, <1>6, <1>7, <1>8 DEF Next, Step, vars, dbVars, runVars, AppendLine,
     ToggleIgnore, Begin, ReadCursor

LEMMA CaptureInvariant == SafeIds => (Spec => []CaptureInv)
<1> SUFFICES ASSUME SafeIds PROVE Spec => []CaptureInv
  OBVIOUS
<1>1. Init => CaptureInv
  BY DEF Init, CaptureInv, OnePerTurn
<1>2. TurnIds /\ TypeOK /\ CaptureInv /\ [Next]_vars => CaptureInv'
  BY CaptureStep
<1> QED BY <1>1, <1>2, TypeCorrect, TurnIdsHold, PTL DEF Spec

\* Captures of different turns do not share a line.
LEMMA CapturesDisjoint ==
  ASSUME TypeOK, CaptureInv
  PROVE  NoLineStoredTwice
<1> SUFFICES ASSUME NEW x \in stored, NEW y \in stored, x # y
             PROVE  x.last < y.first \/ y.last < x.first
  BY DEF NoLineStoredTwice
<1>1. /\ x.first \in Int /\ x.last \in Int /\ y.first \in Int /\ y.last \in Int
      /\ x.first # y.first
  BY DEF TypeOK, Exchange, CaptureInv, OnePerTurn
<1>2. /\ log[x.first] \in Prompts /\ NoPrompt(log, x.first + 1, x.last)
      /\ log[y.first] \in Prompts /\ NoPrompt(log, y.first + 1, y.last)
  BY DEF CaptureInv, Sound, IsCapture, InTurn
<1> QED BY <1>1, <1>2 DEF NoPrompt

\* However many indexers race over the log, no line of it is stored by two
\* exchanges, provided turn ids do not depend on the position; and for grok, whose
\* ids do, while runs do not overlap.
THEOREM NeverStoredTwice == SafeIds => (Spec => []NoLineStoredTwice)
<1>1. TypeOK /\ CaptureInv => NoLineStoredTwice
  BY CapturesDisjoint
<1> QED BY <1>1, TypeCorrect, CaptureInvariant, PTL

-----------------------------------------------------------------------------
(* No turn is jumped over                                                  *)

LEMMA KindSets ==
  /\ Substance \in SUBSET LineKinds /\ {"edit"} \in SUBSET LineKinds
  /\ Substance \subseteq Entries /\ "edit" \in Entries /\ Prompts \subseteq Entries
BY DEF Substance, LineKinds, Entries, Prompts

\* No step removes or changes a stored exchange.
LEMMA StoredGrows ==
  ASSUME [Next]_vars
  PROVE  stored \subseteq stored'
BY DEF Next, Step, vars, dbVars, AppendLine, ToggleIgnore, Begin, ReadCursor, ReadLog,
   Reconcile, Ingest, Inserted, Crash

\* A settled turn stays settled.
LEMMA SettledStable ==
  ASSUME TypeOK, [Next]_vars, NEW b \in 1..Len(log), Settled(b)
  PROVE  Settled(b)'
<1>1. Grown(log, log') /\ stored \subseteq stored'
  BY LogGrows, StoredGrows
<1>2. CASE \E x \in stored : x.first = b
  BY <1>1, <1>2 DEF Settled
<1>3. CASE Finished(log, b) /\ ~TurnHas(log, b, Substance)
  <2>1. Finished(log', b) /\ ~TurnHas(log', b, Substance)
    BY <1>1, <1>3, GrownTurns, KindSets
  <2> QED BY <2>1 DEF Settled
<1>4. CASE TurnHas(log, b, {"edit"})
  <2>1. TurnHas(log', b, {"edit"})
    BY <1>1, <1>4, GrownTurns, KindSets
  <2> QED BY <2>1 DEF Settled
<1> QED BY <1>2, <1>3, <1>4 DEF Settled

\* So does every turn up to a line, with the same turns pending.
LEMMA SettledUpToStable ==
  ASSUME TypeOK, [Next]_vars, NEW n \in Int, n <= Len(log), NEW S, SettledUpTo(n, S)
  PROVE  SettledUpTo(n, S)'
<1> SUFFICES ASSUME NEW b \in 1..n, log'[b] \in Prompts
             PROVE  Settled(b)' \/ \E y \in S : y.first = b
  BY DEF SettledUpTo
<1>1. Grown(log, log') /\ Len(log) \in Nat
  BY LogGrows DEF TypeOK
<1>2. b \in 1..Len(log) /\ log[b] \in Prompts
  BY <1>1 DEF Grown
<1> QED BY <1>2, SettledStable DEF SettledUpTo

\* A read that starts at a settled line leaves nothing unsettled before the
\* last line of any exchange it keeps: a turn it refuses is over.
LEMMA ParseSettles ==
  ASSUME TypeOK, NEW off \in Nat, NEW offset \in Nat, NEW seen \in Int, seen < offset,
         SettledUpTo(off, {}),
         NEW S, S = {x \in Parse(Chunk(off), offset) :
                       /\ ~Trivial(x)
                       /\ x.start > seen
                       /\ ~(ignoring /\ Sensitive(x))},
         NEW x \in S
  PROVE  SettledUpTo(x.last, S)
<1> DEFINE C == Chunk(off)
<1> SUFFICES ASSUME NEW b \in 1..x.last, log[b] \in Prompts,
                    b > off, \A y \in S : y.first # b
             PROVE  Settled(b)
  BY DEF SettledUpTo
<1>1. log \in Seq(Kinds) /\ Len(log) \in Nat /\ Len(log) <= MaxLog
  BY DEF TypeOK
<1>2. /\ x \in Exchange /\ IsCapture(log, x) /\ x.first > off
      /\ x.first \in C /\ x.last \in C
  BY <1>1, ParsedShape
<1>3. /\ x.first \in 1..Len(log) /\ x.last \in 1..Len(log) /\ x.first <= x.last
      /\ log[x.first] \in Prompts /\ NoPrompt(log, x.first + 1, x.last)
      /\ b \in 1..Len(log) /\ b # x.first
  BY <1>1, <1>2 DEF IsCapture, InTurn
<1>4. b < x.first
  BY <1>3 DEF NoPrompt
<1>5. \A j \in off + 1..x.first : log[j] \in Entries => j \in C
  BY <1>1, <1>2, ChunkHasNoHoles
<1>6. b \in C
  BY <1>3, <1>4, <1>5, KindSets
<1>7. Finished(log, b)
  BY <1>1, <1>3, <1>4 DEF Finished, NoPrompt
<1> DEFINE Reach == {i \in C : i >= b /\ NoPrompt(log, b + 1, i)}
<1>8. C \subseteq off + 1..Len(log) /\ \A i \in C : log[i] \in Entries
  BY <1>1, ChunkLines
<1> HIDE DEF C
<1>9. PICK e \in Reach : \A i \in Reach : i <= e
  <2>1. b \in Reach
    BY <1>6, <1>3 DEF NoPrompt
  <2>2. off + 1..Len(log) \subseteq 0..Len(log)
    BY <1>1
  <2>3. Reach \in SUBSET (0..Len(log))
    BY <1>8, <2>2
  <2> HIDE DEF Reach
  <2> QED BY <1>1, <2>1, <2>3, GreatestElement
<1>10. e \in C /\ e \in Int /\ e >= b /\ NoPrompt(log, b + 1, e) /\ e \in 1..Len(log)
  BY <1>8, <1>9
<1>11. <<b, e>> \in Turns(C)
  <2>1. ASSUME NEW i \in C, i > e, NoPrompt(log, e + 1, i) PROVE FALSE
    <3>1. i \in Int /\ i >= b
      BY <1>8, <1>10, <2>1
    <3>2. NoPrompt(log, b + 1, i)
      BY <1>10, <2>1, <3>1 DEF NoPrompt
    <3> QED BY <1>9, <1>10, <2>1, <3>1, <3>2
  <2> QED BY <1>6, <1>10, <2>1 DEF Turns
<1> DEFINE z == [first |-> b, last |-> e,
                 start |-> Ply(C, offset, b), end |-> Ply(C, offset, e)]
<1>12. z \in Parse(C, offset)
  BY <1>11 DEF Parse
<1>13. z.start > seen
  <2>1. z.start >= offset /\ z \in Exchange
    BY <1>1, <1>12, ParsedShape DEF C
  <2> QED BY <2>1 DEF Exchange
<1>14. z \notin S /\ z.first = b /\ z.last = e
  OBVIOUS
<1>15. Trivial(z) \/ Sensitive(z)
  BY <1>12, <1>13, <1>14 DEF C
<1>16. CASE Sensitive(z)
  <2>1. PICK i \in b..e : log[i] \in {"edit"}
    BY <1>14, <1>16 DEF Sensitive, Holds
  <2>2. i \in b..Len(log) /\ InTurn(log, b, i)
    BY <1>1, <1>3, <1>10 DEF InTurn, NoPrompt
  <2> QED BY <2>1, <2>2 DEF Settled, TurnHas
<1>17. CASE Trivial(z)
  <2>1. ASSUME NEW i \in b..Len(log), InTurn(log, b, i), log[i] \in Substance
        PROVE  FALSE
    <3>1. i < x.first
      BY <1>1, <1>3, <1>4, <2>1 DEF InTurn, NoPrompt
    <3>2. i \in C
      BY <1>3, <1>5, <2>1, <3>1, KindSets
    <3>3. i \in b..e
      BY <1>9, <1>10, <2>1, <3>2 DEF InTurn
    <3> QED BY <1>14, <1>17, <2>1, <3>3 DEF Trivial, Holds
  <2> QED BY <1>7, <2>1 DEF Settled, TurnHas
<1> QED BY <1>15, <1>16, <1>17

\* A batch entry that the database already knows is settled.
LEMMA FreshBatchSettles ==
  ASSUME TurnIds, NEW p \in Indexers, NEW n,
         NEW T, T = {x \in batch[p] : IdOf(x) \notin Known}, SettledUpTo(n, batch[p])
  PROVE  SettledUpTo(n, T)
BY KnownTurns DEF SettledUpTo, Settled

\* CursorInv is inductive relative to the types and CaptureInv.
LEMMA CursorStep ==
  ASSUME TurnIds, TypeOK, CaptureInv, CursorInv, [Next]_vars
  PROVE  CursorInv'
<1> USE DEF SettledUpTo
<1>1. Len(log) \in Nat /\ Len(log') \in Nat /\ Len(log) <= Len(log')
      /\ \A i \in 1..Len(log) : log'[i] = log[i]
  BY LogGrows DEF Grown
<1>2. \A b \in 1..Len(log) : Settled(b) => Settled(b)'
  BY SettledStable
<1>3. /\ cursor \in Int /\ cursor <= Len(log)
      /\ \A p \in Indexers :
            /\ seenCursor[p] \in Int /\ seenCursor[p] <= Len(log)
            /\ \A x \in batch[p] : x.last \in Int /\ x.last <= Len(log)
  BY <1>1 DEF TypeOK, NoCursor, CursorInv, Exchange, CaptureInv, Sound, IsCapture, InTurn
<1>4. /\ \A b \in 1..cursor : log'[b] \in Prompts => Settled(b)'
      /\ \A p \in Indexers :
            /\ \A b \in 1..seenCursor[p] : log'[b] \in Prompts => Settled(b)'
            /\ \A x \in batch[p] : \A b \in 1..x.last : log'[b] \in Prompts =>
                  Settled(b)' \/ \E y \in batch[p] : y.first = b
  BY <1>1, <1>2, <1>3 DEF CursorInv
<1>5. CASE UNCHANGED <<dbVars, runVars>>
  BY <1>1, <1>3, <1>4, <1>5 DEF CursorInv, dbVars, runVars
<1>6. ASSUME NEW p \in Indexers, Return(p), UNCHANGED dbVars
      PROVE  CursorInv'
  <2>1. /\ pc'[p] = "idle" /\ seenPly'[p] = NoPly /\ seenCursor'[p] = NoCursor
        /\ batch'[p] = {}
        /\ \A q \in Indexers \ {p} :
              /\ pc'[q] = pc[q] /\ seenPly'[q] = seenPly[q]
              /\ seenCursor'[q] = seenCursor[q] /\ batch'[q] = batch[q]
    BY <1>6 DEF Return, TypeOK
  <2> QED BY <1>1, <1>3, <1>4, <1>6, <2>1 DEF CursorInv, dbVars, NoCursor
<1>7. ASSUME NEW p \in Indexers, Begin(p) PROVE CursorInv'
  <2>1. /\ pc'[p] = "cursor" /\ seenPly'[p] = lastPlyEnd
        /\ \A q \in Indexers \ {p} : pc'[q] = pc[q] /\ seenPly'[q] = seenPly[q]
        /\ UNCHANGED <<log, cursor, lastPlyEnd, stored, seenCursor, batch>>
    BY <1>7 DEF Begin, TypeOK, dbVars
  <2> QED BY <1>1, <1>3, <1>4, <2>1 DEF CursorInv
<1>8. ASSUME NEW p \in Indexers, ReadCursor(p) PROVE CursorInv'
  <2>1. /\ pc[p] = "cursor" /\ pc'[p] = "read" /\ seenCursor'[p] = cursor
        /\ \A q \in Indexers \ {p} : pc'[q] = pc[q] /\ seenCursor'[q] = seenCursor[q]
        /\ UNCHANGED <<log, cursor, lastPlyEnd, stored, seenPly, batch>>
    BY <1>8 DEF ReadCursor, TypeOK, dbVars
  <2> QED BY <1>1, <1>3, <1>4, <2>1 DEF CursorInv
<1>9. ASSUME NEW p \in Indexers, ReadLog(p) PROVE CursorInv'
  <2>1. /\ pc[p] = "read" /\ pc'[p] = "reconcile"
        /\ \A q \in Indexers \ {p} : pc'[q] = pc[q] /\ batch'[q] = batch[q]
        /\ UNCHANGED <<log, cursor, lastPlyEnd, stored, seenPly, seenCursor>>
    BY <1>9 DEF ReadLog, TypeOK, dbVars
  <2>2. batch'[p] = {x \in Parse(Chunk(ByteOffset(p)), PlyOffset(p)) :
              /\ ~Trivial(x)
              /\ x.start > seenPly[p]
              /\ ~(ignoring /\ Sensitive(x))}
    BY <1>9 DEF ReadLog, TypeOK
  <2>3. /\ PlyOffset(p) \in Nat /\ ByteOffset(p) \in Nat
        /\ seenPly[p] \in Int /\ seenPly[p] < PlyOffset(p)
    BY <2>1, OffsetTypes DEF TypeOK, CursorInv, PlyOffset, NoPly
  <2>4. SettledUpTo(ByteOffset(p), {})
    BY DEF CursorInv, ByteOffset
  <2>5. \A x \in batch'[p] : SettledUpTo(x.last, batch'[p])
    <3> HIDE DEF SettledUpTo
    <3> QED BY <2>2, <2>3, <2>4, ParseSettles
  <2>6. \A x \in batch'[p] : \A b \in 1..x.last : log'[b] \in Prompts =>
                  Settled(b)' \/ \E y \in batch'[p] : y.first = b
    <3>1. \A x \in batch'[p] : x.last \in Int /\ x.last <= Len(log)
      <4>1. \A x \in batch'[p] : x \in Exchange /\ IsCapture(log, x)
        BY <2>2, <2>3, ParsedShape DEF TypeOK
      <4> QED BY <1>1, <4>1 DEF Exchange, IsCapture, InTurn
    <3> QED BY <1>1, <1>2, <2>1, <2>5, <3>1
  <2> QED BY <1>1, <1>3, <1>4, <2>1, <2>6 DEF CursorInv
<1>10. ASSUME NEW p \in Indexers, Reconcile(p) PROVE CursorInv'
  <2>1. UNCHANGED dbVars /\ UNCHANGED log
    BY <1>10 DEF Reconcile
  <2>2. CASE Return(p)
    BY <1>6, <2>1, <2>2
  <2>3. CASE ~Return(p)
    <3> DEFINE fresh == {x \in batch[p] : IdOf(x) \notin Known}
    <3>1. /\ pc[p] = "reconcile" /\ pc'[p] = "ingest" /\ batch'[p] = fresh
          /\ \A q \in Indexers \ {p} : pc'[q] = pc[q] /\ batch'[q] = batch[q]
          /\ UNCHANGED <<log, cursor, lastPlyEnd, stored, seenPly, seenCursor>>
      BY <1>10, <2>3 DEF Reconcile, TypeOK, dbVars
    <3>2. \A x \in fresh : SettledUpTo(x.last, fresh)
      <4> HIDE DEF SettledUpTo
      <4>1. \A x \in fresh : SettledUpTo(x.last, batch[p])
        BY DEF CursorInv
      <4> QED BY <4>1, FreshBatchSettles
    <3>3. \A x \in fresh : \A b \in 1..x.last : log'[b] \in Prompts =>
                  Settled(b)' \/ \E y \in fresh : y.first = b
      BY <1>1, <1>2, <1>3, <3>1, <3>2
    <3> HIDE DEF fresh
    <3> QED BY <1>1, <1>3, <1>4, <3>1, <3>3 DEF CursorInv
  <2> QED BY <2>2, <2>3
<1>11. ASSUME NEW p \in Indexers, Ingest(p) PROVE CursorInv'
  <2>1. UNCHANGED log /\ stored' = Inserted(batch[p]) /\ Return(p)
    BY <1>11 DEF Ingest
  <2>2. /\ pc'[p] = "idle" /\ seenPly'[p] = NoPly /\ seenCursor'[p] = NoCursor
        /\ batch'[p] = {}
        /\ \A q \in Indexers \ {p} :
              /\ pc'[q] = pc[q] /\ seenPly'[q] = seenPly[q]
              /\ seenCursor'[q] = seenCursor[q] /\ batch'[q] = batch[q]
    BY <2>1 DEF Return, TypeOK
  <2>3. PICK x \in batch[p] : cursor' = x.last
    BY <1>11 DEF Ingest, NextCursor
  <2>4. cursor' \in Int /\ cursor' <= Len(log) /\ cursor' # NoCursor
    BY <1>3, <2>3 DEF TypeOK, Exchange, NoCursor
  <2>5. ASSUME NEW y \in batch[p] PROVE \E z \in stored' : z.first = y.first
    BY <2>1, KnownTurns DEF Inserted
  <2>6. \A b \in 1..cursor' : log'[b] \in Prompts => Settled(b)'
    BY <1>4, <2>3, <2>5 DEF Settled
  <2> QED BY <1>1, <1>3, <1>4, <2>1, <2>2, <2>4, <2>6 DEF CursorInv, NoCursor
<1>12. ASSUME NEW p \in Indexers, Crash(p) PROVE CursorInv'
  BY <1>6, <1>12 DEF Crash
<1> QED
  BY <1>5, <1>7, <1>8, <1>9, <1>10, <1>11, <1>12 DEF Next, Step, vars, AppendLine, ToggleIgnore

LEMMA CursorInvariant == SafeIds => (Spec => []CursorInv)
<1> SUFFICES ASSUME SafeIds PROVE Spec => []CursorInv
  OBVIOUS
<1>1. Init => CursorInv
  BY DEF Init, CursorInv, SettledUpTo, NoCursor, NoPly
<1>2. TurnIds /\ TypeOK /\ CaptureInv /\ CursorInv /\ [Next]_vars => CursorInv'
  BY CursorStep
<1> QED BY <1>1, <1>2, TypeCorrect, TurnIdsHold, CaptureInvariant, PTL DEF Spec

\* No turn of substance, outside the ignored paths, is left behind by the
\* cursor, however the runs, the appends and the crashes interleave.
THEOREM NothingJumpedOver == SafeIds => (Spec => []PassedTurnsAccounted)
<1>1. CursorInv => PassedTurnsAccounted
  BY DEF CursorInv, PassedTurnsAccounted, SettledUpTo, Settled
<1> QED BY <1>1, CursorInvariant, PTL

-----------------------------------------------------------------------------
(* The session's database implements the abstract memory                   *)

\* The abstract module's vocabulary is the detailed one's.
LEMMA SameTranscript ==
  /\ Memory!LineKinds = LineKinds
  /\ Memory!Substance = Substance
  /\ \A l, c : IsCapture(l, c) <=> Memory!IsCapture(l, c)
  /\ \A l, a, b, K : Holds(l, a, b, K) <=> Memory!Holds(l, a, b, K)
<1>1. Memory!Prompts = Prompts /\ Memory!Substance = Substance
  BY DEF Prompts, Memory!Prompts, Substance, Memory!Substance
<1>2. Memory!LineKinds = LineKinds
  BY <1>1 DEF LineKinds, Memory!LineKinds, Entries, Memory!Entries
<1>3. \A l, a, b, K : Holds(l, a, b, K) <=> Memory!Holds(l, a, b, K)
  BY DEF Holds, Memory!Holds
<1>4. \A l, c : IsCapture(l, c) <=> Memory!IsCapture(l, c)
  BY <1>1 DEF IsCapture, Memory!IsCapture, InTurn, Memory!InTurn, NoPrompt, Memory!NoPrompt
<1> QED BY <1>1, <1>2, <1>3, <1>4

LEMMA InitRefines == Init => Memory!Init
BY DEF Init, Memory!Init, Captures

\* A step that leaves the rows alone appends a line, or is invisible.
LEMMA OtherStepsRefine ==
  ASSUME TypeOK, [Next]_vars, UNCHANGED stored
  PROVE  [Memory!Next]_(Memory!memVars)
<1>1. UNCHANGED Captures
  BY DEF Captures
<1>2. CASE AppendLine
  <2>1. PICK k \in Kinds : log' = Append(log, k)
    BY <1>2 DEF AppendLine
  <2>2. k \in Memory!LineKinds
    BY IndexAssumption, SameTranscript
  <2> QED BY <1>1, <2>1, <2>2 DEF Memory!Next, Memory!Write
<1>3. CASE UNCHANGED log
  BY <1>1, <1>3 DEF Memory!memVars
<1> QED
  BY <1>2, <1>3 DEF Next, Step, vars, ToggleIgnore, Begin, ReadCursor, ReadLog,
     Reconcile, Ingest, Crash

\* A transaction adds sound captures of turns not captured before.
LEMMA IngestRefines ==
  ASSUME TypeOK, CaptureInv, CaptureInv', NEW p \in Indexers, Ingest(p)
  PROVE  Memory!Next
<1>1. UNCHANGED log /\ stored' = Inserted(batch[p])
  BY DEF Ingest
<1>2. Captures \subseteq Captures'
  BY <1>1 DEF Captures, Inserted
<1>3. ASSUME NEW c \in Captures'
      PROVE  IsCapture(log, c) /\ Holds(log, c.first, c.last, Substance)
  <2>1. PICK x \in stored' : c = [first |-> x.first, last |-> x.last]
    BY <1>3 DEF Captures
  <2>2. Sound(x)
    BY <1>1, <2>1 DEF CaptureInv, Inserted
  <2> QED BY <2>1, <2>2 DEF Sound, Trivial, IsCapture
<1>4. ASSUME NEW c \in Captures', NEW d \in Captures', c.first = d.first
      PROVE  c = d
  <2>1. PICK x \in stored' : c = [first |-> x.first, last |-> x.last]
    BY <1>4 DEF Captures
  <2>2. PICK y \in stored' : d = [first |-> y.first, last |-> y.last]
    BY <1>4 DEF Captures
  <2>3. x = y
    BY <1>4, <2>1, <2>2 DEF CaptureInv, OnePerTurn
  <2> QED BY <2>1, <2>2, <2>3
<1>5. \A c \in Captures' \ Captures :
         Memory!IsCapture(log, c) /\ Memory!Holds(log, c.first, c.last, Memory!Substance)
  BY <1>3, SameTranscript
<1> QED BY <1>1, <1>2, <1>4, <1>5 DEF Memory!Next, Memory!Remember

\* The rows that any number of indexers write, in any interleaving with the
\* harness, the user and crashes, are a growing set of captures, one for each
\* turn, never altered: index_file and ingest_parse_result keep the promise of
\* TurnMemory for every harness whose ids do not depend on the position, and for
\* grok while runs do not overlap.
THEOREM ImplementsMemory == SafeIds => (Spec => ImplementsTurnMemory)
<1> SUFFICES ASSUME SafeIds PROVE Spec => Memory!Spec
  BY DEF ImplementsTurnMemory
<1>1. Init => Memory!Init
  BY InitRefines
<1>2. TypeOK /\ CaptureInv /\ CaptureInv' /\ [Next]_vars => [Memory!Next]_(Memory!memVars)
  <2> SUFFICES ASSUME TypeOK, CaptureInv, CaptureInv', [Next]_vars
               PROVE  [Memory!Next]_(Memory!memVars)
    OBVIOUS
  <2>1. CASE \E p \in Indexers : Ingest(p)
    BY <2>1, IngestRefines
  <2>2. CASE UNCHANGED stored
    BY <2>2, OtherStepsRefine
  <2> QED
    BY <2>1, <2>2 DEF Next, Step, vars, dbVars, AppendLine, ToggleIgnore, Begin,
       ReadCursor, ReadLog, Reconcile, Crash
<1> QED BY <1>1, <1>2, TypeCorrect, CaptureInvariant, PTL DEF Spec, Memory!Spec
=============================================================================
