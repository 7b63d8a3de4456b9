---------------------------- MODULE DistillProofs ----------------------------
(***************************************************************************)
(* Proofs about Distill for any number of `loci distill` and `loci init`   *)
(* processes, sessions, answers, bounds and any --limit: type correctness; *)
(* what is distilled stays; and, for as long as only runs that took        *)
(* distill.lock have begun, a palace object of one answer each, no work on *)
(* an exchange already settled, and no server started for nothing.         *)
(***************************************************************************)
EXTENDS Distill, FiniteSetTheorems, WellFoundedInduction, TLAPS

-----------------------------------------------------------------------------
(* Least elements                                                          *)

\* A nonempty set of naturals has a least element.
LEMMA LeastElement ==
  ASSUME NEW T \in SUBSET Nat, T # {}
  PROVE  \E x \in T : \A y \in T : x <= y
<1> DEFINE R == OpToRel(<, Nat)
<1>1. IsWellFoundedOn(R, Nat)
  BY NatLessThanWellFounded
<1>2. PICK x \in T : \A y \in T : ~ (<<y, x>> \in R)
  <2> HIDE DEF R
  <2> QED BY <1>1, WFMin
<1>3. \A a, b \in Nat : (<<a, b>> \in R) <=> a < b
  BY DEF OpToRel
<1> HIDE DEF R
<1>4. ASSUME NEW y \in T PROVE x <= y
  <2>1. x \in Nat /\ y \in Nat
    OBVIOUS
  <2>2. ~ (y < x)
    BY <1>2, <1>3, <2>1
  <2> QED BY <2>1, <2>2
<1> QED BY <1>4


-----------------------------------------------------------------------------
(* Types                                                                   *)

\* The row in hand is one of the rows still to do.
LEMMA InHandToDo ==
  ASSUME NEW d \in Runs, todo[d] \in SUBSET (1..MaxRows), todo[d] # {}
  PROVE  InHand(d) \in todo[d]
<1>1. \E x \in todo[d] : \A y \in todo[d] : x <= y
  BY LeastElement
<1> QED BY <1>1 DEF InHand

\* Marking rows keeps the table's length and type, and touches their status.
LEMMA MarkedType ==
  ASSUME TypeOK, NEW S
  PROVE  /\ Marked(S) \in Seq(Exchange) /\ Len(Marked(S)) = Len(table)
         /\ DOMAIN Marked(S) = Rows
         /\ \A x \in Rows : Marked(S)[x] = IF x \in S THEN [table[x] EXCEPT !.status = "skipped"]
                                           ELSE table[x]
<1>1. table \in Seq(Exchange) /\ Rows = 1..Len(table) /\ Len(table) \in Nat
  BY DEF TypeOK, Rows
<1>2. ASSUME NEW e \in Exchange PROVE [e EXCEPT !.status = "skipped"] \in Exchange
  BY DEF Exchange
<1>3. \A x \in Rows : table[x] \in Exchange
  BY <1>1
<1>4. Marked(S) \in [1..Len(table) -> Exchange]
  BY <1>1, <1>2, <1>3 DEF Marked
<1>5. Marked(S) \in Seq(Exchange) /\ Len(Marked(S)) = Len(table)
  BY <1>1, <1>4
<1> QED BY <1>1, <1>5 DEF Marked

LEMMA SavedType ==
  ASSUME NEW e \in Exchange, NEW a \in Answers
  PROVE  Saved(e, a) \in Exchange
BY DEF Saved, Exchange

\* The table after a new exchange is indexed.
LEMMA IndexedTable ==
  ASSUME TypeOK, Index
  PROVE  /\ table' \in Seq(Exchange) /\ Len(table') = Len(table) + 1
         /\ Rows' = Rows \cup {Len(table) + 1}
         /\ \A x \in Rows : table'[x] = table[x]
         /\ table'[Len(table) + 1].status = "pending"
         /\ table'[Len(table) + 1].rooms = {}
         /\ table'[Len(table) + 1].core = NoAnswer
<1>1. table \in Seq(Exchange) /\ Rows = 1..Len(table) /\ Len(table) \in Nat
  BY DEF TypeOK, Rows
<1>2. PICK s \in Sessions, l \in BOOLEAN :
        table' = Append(table, [session |-> s, long |-> l, status |-> "pending",
                                core |-> NoAnswer, rooms |-> {}])
  BY DEF Index
<1>3. [session |-> s, long |-> l, status |-> "pending", core |-> NoAnswer, rooms |-> {}]
        \in Exchange
  BY DEF Exchange
<1> QED BY <1>1, <1>2, <1>3 DEF Rows

\* The table after a row is saved.
LEMMA SavedTable ==
  ASSUME TypeOK, NEW d \in Runs, Save(d), InHand(d) \in Rows, answer[d] \in Answers
  PROVE  /\ table' \in Seq(Exchange) /\ Len(table') = Len(table) /\ Rows' = Rows
         /\ table'[InHand(d)] = Saved(table[InHand(d)], answer[d])
         /\ \A x \in Rows \ {InHand(d)} : table'[x] = table[x]
<1>1. table \in Seq(Exchange) /\ Rows = 1..Len(table) /\ Len(table) \in Nat
  BY DEF TypeOK, Rows
<1>2. table[InHand(d)] \in Exchange
  BY <1>1
<1>3. Saved(table[InHand(d)], answer[d]) \in Exchange
  BY <1>2, SavedType
<1>4. table' = [table EXCEPT ![InHand(d)] = Saved(table[InHand(d)], answer[d])]
  BY DEF Save
<1>5. table' \in [1..Len(table) -> Exchange]
  BY <1>1, <1>3, <1>4
<1>6. table' \in Seq(Exchange) /\ Len(table') = Len(table)
  BY <1>1, <1>5
<1> QED BY <1>1, <1>4, <1>6 DEF Rows

\* What a run holds fits the place it is at.
RunShape ==
    \A d \in Runs :
        /\ todo[d] \subseteq Rows
        /\ pc[d] \in {"embed", "save", "commit"} => answer[d] \in Answers /\ todo[d] # {}
        /\ pc[d] \notin {"next", "embed", "save", "commit"} => todo[d] = {}

\* With an answer in hand there is a row in hand, of the table.
LEMMA RowInHand ==
  ASSUME TypeOK, RunShape, NEW d \in Runs, todo[d] # {}
  PROVE  InHand(d) \in todo[d] /\ InHand(d) \in Rows /\ InHand(d) \in 1..MaxRows
<1>1. todo[d] \in SUBSET (1..MaxRows) /\ todo[d] \subseteq Rows
  BY DEF TypeOK, RunShape
<1> QED BY <1>1, InHandToDo

Marking(d) == StartInit(d) \/ SkipSome(d) \/ HasPendingWork(d) \/ MarkSkipped(d)

\* The steps that mark rows mark pending ones only.
LEMMA MarkingSteps ==
  ASSUME NEW d \in Runs, Marking(d), table' # table
  PROVE  \E S \in SUBSET Pending : table' = Marked(S)
<1>1. {x \in Rows : Ineligible(x)} \in SUBSET Pending
  BY DEF Ineligible, Pending
<1>2. CASE StartInit(d)
  BY <1>1, <1>2 DEF StartInit
<1>3. CASE SkipSome(d)
  BY <1>3 DEF SkipSome
<1>4. CASE HasPendingWork(d)
  BY <1>1, <1>4 DEF HasPendingWork
<1>5. CASE MarkSkipped(d)
  BY <1>1, <1>5 DEF MarkSkipped
<1> QED BY <1>2, <1>3, <1>4, <1>5 DEF Marking

\* No step shortens the table.
LEMMA RowsStay ==
  ASSUME TypeOK, RunShape, [Next]_vars
  PROVE  Rows \subseteq Rows'
<1>1. ASSUME NEW S, table' = Marked(S) PROVE Rows' = Rows
  BY <1>1, MarkedType DEF Rows
<1>2. ASSUME table' = table PROVE Rows' = Rows
  BY <1>2 DEF Rows
<1>3. CASE Index
  BY <1>3, IndexedTable
<1>4. ASSUME NEW d \in Runs, Save(d) PROVE Rows' = Rows
  <2>1. pc[d] = "commit"
    BY <1>4 DEF Save
  <2>2. answer[d] \in Answers /\ todo[d] # {}
    BY <2>1 DEF RunShape
  <2> QED BY <1>4, <2>2, RowInHand, SavedTable
<1>5. ASSUME NEW d \in Runs, Marking(d) PROVE Rows' = Rows
  BY <1>1, <1>2, <1>5, MarkingSteps
<1> QED
  BY <1>2, <1>3, <1>4, <1>5 DEF Next, Step, Marking, vars, StartCli, Select, CallModel, Embed,
     BeginSave, Fail, Finish, Abort

\* A run keeps rows of the table to do, and what it holds fits its place.
LEMMA RunShapeStep ==
  ASSUME TypeOK, RunShape, [Next]_vars
  PROVE  RunShape'
<1> DEFINE Fits(d) ==
      /\ todo'[d] \subseteq Rows
      /\ pc'[d] \in {"embed", "save", "commit"} => answer'[d] \in Answers /\ todo'[d] # {}
      /\ pc'[d] \notin {"next", "embed", "save", "commit"} => todo'[d] = {}
<1>1. Rows \subseteq Rows'
  BY RowsStay
<1> SUFFICES \A e \in Runs : Fits(e)
  BY <1>1 DEF RunShape
<1>2. ASSUME NEW e \in Runs, pc'[e] = pc[e], answer'[e] = answer[e], todo'[e] = todo[e]
      PROVE  Fits(e)
  BY <1>2 DEF RunShape
<1>3. ASSUME NEW d \in Runs,
             StartCli(d) \/ StartInit(d) \/ SkipSome(d) \/ Step(d) \/ Abort(d),
             NEW e \in Runs \ {d}
      PROVE  pc'[e] = pc[e] /\ answer'[e] = answer[e] /\ todo'[e] = todo[e]
  BY <1>3 DEF TypeOK, StartCli, StartInit, SkipSome, Step, HasPendingWork, MarkSkipped, Select,
     CallModel, Embed, BeginSave, Save, Fail, Finish, Abort, Over
<1>4. ASSUME NEW d \in Runs, Over(d) PROVE Fits(d)
  BY <1>4 DEF TypeOK, Over
<1>5. ASSUME NEW d \in Runs, StartCli(d) \/ Marking(d) PROVE Fits(d)
  <2>1. pc[d] \notin {"next", "embed", "save", "commit"} /\ todo[d] = {}
    BY <1>5 DEF RunShape, StartCli, Marking, StartInit, SkipSome, HasPendingWork, MarkSkipped
  <2>2. todo' = todo /\ pc'[d] \notin {"embed", "save", "commit"}
    BY <1>5 DEF TypeOK, StartCli, Marking, StartInit, SkipSome, HasPendingWork, MarkSkipped
  <2> QED BY <2>1, <2>2
<1>6. ASSUME NEW d \in Runs, Select(d) PROVE Fits(d)
  BY <1>6 DEF TypeOK, Select, Selected, Pending
<1>7. ASSUME NEW d \in Runs, CallModel(d) PROVE Fits(d)
  BY <1>7 DEF TypeOK, RunShape, CallModel
<1>8. ASSUME NEW d \in Runs, Embed(d) \/ BeginSave(d) PROVE Fits(d)
  BY <1>8 DEF TypeOK, RunShape, Embed, BeginSave
<1>9. ASSUME NEW d \in Runs, Save(d) \/ Fail(d) PROVE Fits(d)
  BY <1>9 DEF TypeOK, RunShape, Save, Fail
<1>10. ASSUME NEW d \in Runs,
              StartCli(d) \/ StartInit(d) \/ SkipSome(d) \/ Step(d) \/ Abort(d)
       PROVE  Fits(d)
  BY <1>4, <1>5, <1>6, <1>7, <1>8, <1>9, <1>10 DEF Marking, Step, Finish, Abort
<1> QED BY <1>2, <1>3, <1>10 DEF Next, vars, runVars, Index

\* Type correctness is inductive together with RunShape.
LEMMA TypeStep ==
  ASSUME TypeOK, RunShape, [Next]_vars
  PROVE  TypeOK'
<1>1. CASE UNCHANGED vars
  BY <1>1 DEF TypeOK, vars, runVars
<1>2. CASE Index
  <2>1. table' \in Seq(Exchange) /\ Len(table') = Len(table) + 1
    BY <1>2, IndexedTable
  <2>2. Len(table) < MaxRows /\ Len(table) \in Nat
    BY <1>2 DEF TypeOK, Index
  <2>3. Len(table') <= MaxRows
    BY <2>1, <2>2, DistillAssumption
  <2> QED BY <1>2, <2>1, <2>3 DEF TypeOK, Index, CommitBy, runVars
<1>3. ASSUME NEW d \in Runs, Marking(d) PROVE TypeOK'
  <2>1. table' \in Seq(Exchange) /\ Len(table') <= MaxRows
    BY <1>3, MarkingSteps, MarkedType DEF TypeOK
  <2>2. pc' \in [Runs -> {"idle", "ask", "check", "mark", "select", "next", "embed",
                          "save", "commit", "done"}]
    <3> USE <1>3 DEF TypeOK, Marking
    <3>1. CASE StartInit(d)
      BY <3>1 DEF StartInit
    <3>2. CASE SkipSome(d)
      BY <3>2 DEF SkipSome
    <3>3. CASE HasPendingWork(d)
      BY <3>3 DEF HasPendingWork
    <3>4. CASE MarkSkipped(d)
      BY <3>4 DEF MarkSkipped
    <3> QED BY <3>1, <3>2, <3>3, <3>4
  <2>4. stale' \in [Runs -> BOOLEAN]
    BY <1>3 DEF TypeOK, Marking, StartInit, SkipSome, HasPendingWork, MarkSkipped, CommitBy
  <2>5. bound' \in [Runs -> BOOLEAN]
    <3>1. CASE bound' = bound
      BY <3>1 DEF TypeOK
    <3>2. CASE bound' = [bound EXCEPT ![d] = Local /\ Worthwhile]
      <4>1. (Local /\ Worthwhile) \in BOOLEAN
        OBVIOUS
      <4> QED BY <3>2, <4>1 DEF TypeOK
    <3> QED
      BY <1>3, <3>1, <3>2 DEF Marking, StartInit, SkipSome, HasPendingWork, MarkSkipped
  <2>3. UNCHANGED <<lastError, lock, todo, answer, crashes>>
    BY <1>3 DEF Marking, StartInit, SkipSome, HasPendingWork, MarkSkipped
  <2> QED BY <2>1, <2>2, <2>3, <2>4, <2>5 DEF TypeOK
<1>4. ASSUME NEW d \in Runs, Over(d), UNCHANGED <<table, lastError, stale>>,
             crashes' \in 0..MaxCrashes
      PROVE  TypeOK'
  BY <1>4 DEF TypeOK, Over
<1>5. ASSUME NEW d \in Runs, StartCli(d) PROVE TypeOK'
  BY <1>5 DEF TypeOK, StartCli, LockAcquired
<1>6. ASSUME NEW d \in Runs, Select(d) PROVE TypeOK'
  <2>1. Selected \in SUBSET (1..MaxRows)
    BY DistillAssumption DEF TypeOK, Selected, Pending, Rows
  <2> QED BY <1>6, <2>1 DEF TypeOK, Select
<1>7. ASSUME NEW d \in Runs, CallModel(d) \/ Embed(d) \/ BeginSave(d) PROVE TypeOK'
  BY <1>7 DEF TypeOK, CallModel, Embed, BeginSave
<1>8. ASSUME NEW d \in Runs, Save(d) PROVE TypeOK'
  <2>1. answer[d] \in Answers /\ todo[d] # {}
    BY <1>8 DEF RunShape, Save
  <2>2. table' \in Seq(Exchange) /\ Len(table') <= MaxRows
    BY <1>8, <2>1, RowInHand, SavedTable DEF TypeOK
  <2> QED BY <1>8, <2>2 DEF TypeOK, Save, CommitBy
<1>9. ASSUME NEW d \in Runs, Fail(d) PROVE TypeOK'
  <2>1. InHand(d) \in 1..MaxRows
    BY <1>9, RowInHand DEF Fail
  <2> QED BY <1>9, <2>1 DEF TypeOK, Fail, CommitBy
<1>10. ASSUME NEW d \in Runs, Abort(d) PROVE TypeOK'
  BY <1>4, <1>10, DistillAssumption DEF TypeOK, Abort
<1>11. ASSUME NEW d \in Runs, Finish(d) PROVE TypeOK'
  BY <1>4, <1>11 DEF TypeOK, Finish
<1> QED
  BY <1>1, <1>2, <1>3, <1>5, <1>6, <1>7, <1>8, <1>9, <1>10, <1>11 DEF Next, Step, Marking

\* Every variable keeps its type, with or without runs that take no lock.
THEOREM TypeCorrect == Spec => [](TypeOK /\ RunShape)
<1>1. Init => TypeOK /\ RunShape
  BY DistillAssumption DEF Init, TypeOK, RunShape, Rows
<1>2. TypeOK /\ RunShape /\ [Next]_vars => TypeOK' /\ RunShape'
  BY TypeStep, RunShapeStep
<1> QED BY <1>1, <1>2, PTL DEF Spec

-----------------------------------------------------------------------------
(* Under the lock                                                          *)

\* A run that is on its way holds the lock.
LockHeld == \A d \in Clis : pc[d] # "idle" => lock = d

\* So at most one run holds rows to do.
LEMMA Alone ==
  ASSUME UnderLock, RunShape, LockHeld,
         NEW d \in Runs, pc[d] # "idle", NEW e \in Runs \ {d}
  PROVE  pc[e] = "idle" /\ todo[e] = {}
BY DEF Runs, RunShape, LockHeld, UnderLock

LEMMA LockStep ==
  ASSUME TypeOK, LockHeld, [Next]_vars
  PROVE  LockHeld'
<1>1. Runs = Clis \cup Inits /\ Clis \cap Inits = {} /\ Nobody \notin Runs
  BY DistillAssumption DEF Runs
<1>2. CASE UNCHANGED <<lock, pc>>
  BY <1>2 DEF LockHeld
<1>3. ASSUME NEW d \in Runs, StartCli(d) PROVE LockHeld'
  BY <1>1, <1>3, DistillAssumption DEF TypeOK, LockHeld, StartCli, LockAcquired, Runs
<1>4. ASSUME NEW d \in Runs, Over(d) PROVE LockHeld'
  BY <1>1, <1>4 DEF TypeOK, LockHeld, Over
<1>5. ASSUME NEW d \in Runs, UNCHANGED lock, pc[d] # "idle",
             \E v : pc' = [pc EXCEPT ![d] = v]
      PROVE  LockHeld'
  BY <1>1, <1>5 DEF TypeOK, LockHeld
<1>6. ASSUME NEW d \in Runs, HasPendingWork(d) \/ MarkSkipped(d) \/ Select(d) \/ CallModel(d)
                             \/ Embed(d) \/ BeginSave(d) \/ Save(d) \/ Fail(d) \/ SkipSome(d)
      PROVE  UNCHANGED lock /\ pc[d] # "idle" /\ \E v : pc' = [pc EXCEPT ![d] = v]
  BY <1>6 DEF HasPendingWork, MarkSkipped, Select, CallModel, Embed, BeginSave, Save, Fail,
     SkipSome
<1>7. ASSUME NEW d \in Runs, StartInit(d) PROVE LockHeld'
  BY <1>1, <1>7 DEF TypeOK, LockHeld, StartInit
<1> QED
  BY <1>2, <1>3, <1>4, <1>5, <1>6, <1>7 DEF Next, Step, vars, runVars, Index, Finish, Abort

\* What rows look like while every run that has begun took the lock.
Coherent == PalaceFromOneAnswer /\ OnlyPendingInHand

\* A run without the lock, once begun, never counts as not begun again.
LEMMA UnderLockBefore ==
  ASSUME TypeOK, [Next]_vars, UnderLock'
  PROVE  /\ UnderLock
         /\ \A d \in Inits : ~(StartInit(d) \/ SkipSome(d) \/ Step(d) \/ Abort(d))
<1>1. ASSUME NEW d \in Inits PROVE pc'[d] = "idle" /\ d \in Runs /\ d \notin Clis
  BY <1>1, DistillAssumption DEF UnderLock, Runs
<1>2. ASSUME NEW d \in Inits, StartInit(d) \/ SkipSome(d) \/ Step(d) \/ Abort(d)
      PROVE  pc'[d] # "idle"
  BY <1>1, <1>2 DEF TypeOK, StartInit, SkipSome, Step, HasPendingWork, MarkSkipped, Select,
     CallModel, Embed, BeginSave, Save, Fail, Finish, Abort, Over
<1>3. ASSUME NEW d \in Inits PROVE ~(StartInit(d) \/ SkipSome(d) \/ Step(d) \/ Abort(d))
  BY <1>1, <1>2
<1>4. ASSUME NEW e \in Inits, NEW d \in Runs \ {e},
             StartCli(d) \/ StartInit(d) \/ SkipSome(d) \/ Step(d) \/ Abort(d)
      PROVE  pc'[e] = pc[e]
  BY <1>1, <1>4 DEF TypeOK, StartCli, StartInit, SkipSome, Step, HasPendingWork, MarkSkipped,
     Select, CallModel, Embed, BeginSave, Save, Fail, Finish, Abort, Over
<1>5. ASSUME NEW e \in Inits, StartCli(e) PROVE FALSE
  BY <1>1, <1>5 DEF StartCli
<1>6. ASSUME NEW e \in Inits PROVE pc[e] = "idle"
  <2>1. CASE pc' = pc
    BY <1>1, <2>1
  <2>2. CASE \E d \in Runs :
               StartCli(d) \/ StartInit(d) \/ SkipSome(d) \/ Step(d) \/ Abort(d)
    BY <1>1, <1>3, <1>4, <1>5, <2>2
  <2> QED BY <2>1, <2>2 DEF Next, vars, runVars, Index
<1> QED BY <1>3, <1>6 DEF UnderLock

\* Marking happens when no run has rows to do, and spares what is distilled.
LEMMA MarkingCoherent ==
  ASSUME UnderLock, TypeOK, RunShape, LockHeld, Coherent,
         NEW d \in Runs, Marking(d), ~StartInit(d)
  PROVE  Coherent'
<1>1. pc[d] \notin {"idle", "next", "embed", "save", "commit"} /\ UNCHANGED todo
  BY DEF Marking, SkipSome, HasPendingWork, MarkSkipped
<1>2. \A e \in Runs : todo'[e] = {}
  BY <1>1, Alone DEF RunShape
<1>3. CASE table' = table
  BY <1>2, <1>3 DEF Coherent, PalaceFromOneAnswer, OnlyPendingInHand, Rows
<1>4. CASE table' # table
  <2>1. PICK S \in SUBSET Pending : table' = Marked(S)
    BY <1>4, MarkingSteps
  <2>2. Rows' = Rows /\ \A x \in Rows :
          table'[x] = IF x \in S THEN [table[x] EXCEPT !.status = "skipped"] ELSE table[x]
    BY <2>1, MarkedType DEF Rows
  <2>3. \A x \in Rows : table[x] \in Exchange
    BY DEF TypeOK, Rows
  <2>4. \A x \in S : table[x].status = "pending"
    BY DEF Pending
  <2>5. ASSUME NEW x \in Rows, x \in S
        PROVE  /\ table'[x].status = "skipped"
               /\ table'[x].rooms = table[x].rooms /\ table'[x].core = table[x].core
    BY <2>2, <2>3, <2>5 DEF Exchange
  <2>6. PalaceFromOneAnswer'
    BY <2>2, <2>4, <2>5 DEF Coherent, PalaceFromOneAnswer
  <2> QED BY <1>2, <2>6 DEF Coherent, OnlyPendingInHand
<1> QED BY <1>3, <1>4

\* Saving turns the one pending row in hand into a palace of one answer.
LEMMA SaveCoherent ==
  ASSUME UnderLock, TypeOK, RunShape, LockHeld, Coherent, NEW d \in Runs, Save(d)
  PROVE  Coherent'
<1> DEFINE x == InHand(d)
<1>1. pc[d] = "commit" /\ todo' = [todo EXCEPT ![d] = @ \ {x}]
  BY DEF Save
<1>2. answer[d] \in Answers /\ x \in todo[d] /\ x \in Rows
  BY <1>1, RowInHand DEF RunShape
<1>3. /\ Rows' = Rows /\ table'[x] = Saved(table[x], answer[d])
      /\ \A y \in Rows \ {x} : table'[y] = table[y]
  BY <1>2, SavedTable
<1>4. table[x].status = "pending" /\ table[x] \in Exchange
  BY <1>2 DEF Coherent, OnlyPendingInHand, TypeOK, Rows
<1>5. table[x].rooms = {} /\ table[x].core = NoAnswer
  BY <1>2, <1>4 DEF Coherent, PalaceFromOneAnswer
<1> HIDE DEF x
<1>6. /\ table'[x].status = "distilled" /\ table'[x].core = answer[d]
      /\ table'[x].rooms = {answer[d]}
  BY <1>3, <1>4, <1>5 DEF Saved, Exchange
<1>7. PalaceFromOneAnswer'
  BY <1>3, <1>6 DEF Coherent, PalaceFromOneAnswer
<1>8. \A e \in Runs : todo'[e] \subseteq Rows \ {x} /\ todo'[e] \subseteq todo[e]
  <2>1. todo'[d] = todo[d] \ {x} /\ todo[d] \subseteq Rows
    BY <1>1 DEF TypeOK, RunShape
  <2>2. \A e \in Runs \ {d} : todo'[e] = {}
    BY <1>1, Alone DEF TypeOK
  <2> QED BY <2>1, <2>2
<1>9. OnlyPendingInHand'
  BY <1>3, <1>8 DEF Coherent, OnlyPendingInHand
<1> QED BY <1>7, <1>9 DEF Coherent

LEMMA CoherentStep ==
  ASSUME TypeOK, RunShape, LockHeld, Coherent, [Next]_vars
  PROVE  Coherent'
<1> SUFFICES ASSUME UnderLock' PROVE Coherent'
  BY DEF Coherent, PalaceFromOneAnswer, OnlyPendingInHand
<1>u. UnderLock /\ \A d \in Inits : ~(StartInit(d) \/ SkipSome(d) \/ Step(d) \/ Abort(d))
  BY UnderLockBefore
<1>1. CASE Index
  <2>1. /\ Rows' = Rows \cup {Len(table) + 1}
        /\ \A x \in Rows : table'[x] = table[x]
        /\ table'[Len(table) + 1].status = "pending"
        /\ table'[Len(table) + 1].rooms = {}
        /\ table'[Len(table) + 1].core = NoAnswer
    BY <1>1, IndexedTable
  <2>2. UNCHANGED todo /\ \A d \in Runs : todo[d] \subseteq Rows
    BY <1>1 DEF Index, runVars, RunShape
  <2>3. PalaceFromOneAnswer'
    BY <1>u, <2>1 DEF Coherent, PalaceFromOneAnswer
  <2> QED BY <1>u, <2>1, <2>2, <2>3 DEF Coherent, OnlyPendingInHand
<1>2. ASSUME UNCHANGED table, \A e \in Runs : todo'[e] \subseteq todo[e] \/ todo'[e] \subseteq Pending
      PROVE  Coherent'
  BY <1>u, <1>2 DEF Coherent, OnlyPendingInHand, PalaceFromOneAnswer, Rows, Pending
<1>3. ASSUME NEW d \in Runs, Select(d) PROVE Coherent'
  <2>1. Selected \subseteq Pending
    BY DEF Selected
  <2>2. UNCHANGED table /\ \A e \in Runs : todo'[e] = todo[e] \/ todo'[e] = Selected
    BY <1>3 DEF TypeOK, Select
  <2> QED BY <1>2, <2>1, <2>2
<1>4. ASSUME NEW d \in Runs, Fail(d) PROVE Coherent'
  BY <1>2, <1>4 DEF TypeOK, Fail
<1>5. ASSUME NEW d \in Runs, Over(d), UNCHANGED table PROVE Coherent'
  BY <1>2, <1>5 DEF TypeOK, Over
<1>6. CASE UNCHANGED <<table, todo>>
  BY <1>2, <1>6
<1>7. ASSUME NEW d \in Runs, Marking(d) PROVE Coherent'
  <2>1. ~StartInit(d)
    BY <1>u DEF StartInit
  <2> QED BY <1>u, <1>7, <2>1, MarkingCoherent
<1>8. ASSUME NEW d \in Runs, Save(d) PROVE Coherent'
  BY <1>u, <1>8, SaveCoherent
<1> QED
  BY <1>1, <1>3, <1>4, <1>5, <1>6, <1>7, <1>8 DEF Next, Step, Marking, vars,
     runVars, StartCli, CallModel, Embed, BeginSave, Finish, Abort

LEMMA LockInvariant == Spec => [](LockHeld /\ Coherent)
<1>1. Init => LockHeld /\ Coherent
  BY DEF Init, LockHeld, Coherent, PalaceFromOneAnswer, OnlyPendingInHand, Rows, Runs
<1>2. TypeOK /\ RunShape /\ LockHeld /\ Coherent /\ [Next]_vars => LockHeld' /\ Coherent'
  BY LockStep, CoherentStep
<1> QED BY <1>1, <1>2, TypeCorrect, PTL DEF Spec

\* While every run takes distill.lock, a palace object never mixes two
\* answers, whatever crashes, failures and indexing come between.
THEOREM OneAnswerEach == Spec => []PalaceFromOneAnswer
<1>1. Coherent => PalaceFromOneAnswer
  BY DEF Coherent
<1> QED BY <1>1, LockInvariant, PTL

\* And the model is only asked about exchanges that are still pending.
THEOREM NoWorkTwice == Spec => []OnlyPendingInHand
<1>1. Coherent => OnlyPendingInHand
  BY DEF Coherent
<1> QED BY <1>1, LockInvariant, PTL

-----------------------------------------------------------------------------
(* The server that is worth starting                                       *)

\* What a run with a server has found to do is still there when it selects.
StillWorth == UnderLock => \A d \in Clis : bound[d] /\ pc[d] \in {"mark", "select"} => Worthwhile

\* No server is started before has_pending_work says so.
NotBoundYet == \A d \in Runs : pc[d] \in {"idle", "ask", "check"} => ~bound[d]

LEMMA NotBoundYetStep ==
  ASSUME TypeOK, NotBoundYet, [Next]_vars
  PROVE  NotBoundYet'
<1>1. CASE UNCHANGED <<pc, bound>>
  BY <1>1 DEF NotBoundYet
<1>2. ASSUME NEW d \in Runs, Over(d) PROVE NotBoundYet'
  BY <1>2 DEF TypeOK, NotBoundYet, Over
<1>3. ASSUME NEW d \in Runs, HasPendingWork(d) PROVE NotBoundYet'
  <2>1. pc' = [pc EXCEPT ![d] = "mark"] /\ \E v : bound' = [bound EXCEPT ![d] = v] \/ bound' = bound
    BY <1>3 DEF HasPendingWork
  <2> QED BY <2>1 DEF TypeOK, NotBoundYet
<1>4. ASSUME NEW d \in Runs, UNCHANGED bound,
             \/ pc[d] \in {"idle", "ask", "check"}
             \/ pc'[d] \notin {"idle", "ask", "check"},
             \E v : pc' = [pc EXCEPT ![d] = v]
      PROVE  NotBoundYet'
  BY <1>4 DEF TypeOK, NotBoundYet
<1>5. ASSUME NEW d \in Runs, StartCli(d) \/ StartInit(d) \/ SkipSome(d)
      PROVE  NotBoundYet'
  <2>1. UNCHANGED bound /\ pc[d] \in {"idle", "ask", "check"} /\ \E v : pc' = [pc EXCEPT ![d] = v]
    BY <1>5 DEF StartCli, StartInit, SkipSome
  <2> QED BY <1>4, <2>1
<1>6. ASSUME NEW d \in Runs, MarkSkipped(d) \/ Select(d) \/ CallModel(d) \/ Embed(d)
                             \/ BeginSave(d) \/ Save(d) \/ Fail(d)
      PROVE  NotBoundYet'
  <2>1. UNCHANGED bound /\ \E v \in {"select", "next", "embed", "save", "commit"} :
           pc' = [pc EXCEPT ![d] = v]
    BY <1>6 DEF MarkSkipped, Select, CallModel, Embed, BeginSave, Save, Fail
  <2> QED BY <1>4, <2>1 DEF TypeOK
<1> QED
  BY <1>1, <1>2, <1>3, <1>5, <1>6 DEF Next, Step, vars, runVars, Index, Finish, Abort

\* A row that is neither alone nor short stays so: nothing in the table is
\* moved, shortened or taken away.
LEMMA WorthStays ==
  ASSUME TypeOK, TypeOK', NEW x \in Rows, ~Ineligible(x), table[x].status = "pending",
         Rows \subseteq Rows', table'[x].status = "pending",
         \A y \in Rows : table'[y].session = table[y].session /\ table'[y].long = table[y].long
  PROVE  Worthwhile'
<1>1. Rows = 1..Len(table) /\ Rows' = 1..Len(table') /\ Len(table) \in Nat /\ Len(table') \in Nat
  BY DEF TypeOK, Rows
<1>2. IsFiniteSet(Rows) /\ IsFiniteSet(Rows')
  BY <1>1, FS_Interval
<1>3. Siblings(x) \subseteq Siblings(x)' /\ Siblings(x)' \subseteq Rows'
  BY DEF Siblings
<1>4. IsFiniteSet(Siblings(x)')
  BY <1>2, <1>3, FS_Subset
<1>5. /\ Cardinality(Siblings(x)) <= Cardinality(Siblings(x)')
      /\ Cardinality(Siblings(x)) \in Nat /\ Cardinality(Siblings(x)') \in Nat
  BY <1>3, <1>4, FS_Subset, FS_CardinalityType
<1>6. ~(Cardinality(Siblings(x)) < 2) /\ table[x].long
  BY DEF Ineligible
<1>7. x \in Pending' /\ ~Ineligible(x)'
  BY <1>5, <1>6 DEF Pending, Ineligible
<1> QED BY <1>7 DEF Worthwhile

\* Marking the ineligible leaves what is worth distilling.
LEMMA MarkedWorth ==
  ASSUME TypeOK, TypeOK', Worthwhile, table' = Marked({x \in Rows : Ineligible(x)})
  PROVE  Worthwhile'
<1> DEFINE S == {x \in Rows : Ineligible(x)}
<1>1. PICK x \in Pending : ~Ineligible(x)
  BY DEF Worthwhile
<1>2. Rows' = Rows /\ \A y \in Rows :
        table'[y] = IF y \in S THEN [table[y] EXCEPT !.status = "skipped"] ELSE table[y]
  BY MarkedType DEF Rows
<1>3. \A y \in Rows : table[y] \in Exchange
  BY DEF TypeOK, Rows
<1>4. \A y \in Rows : table'[y].session = table[y].session /\ table'[y].long = table[y].long
  BY <1>2, <1>3 DEF Exchange
<1>5. x \in Rows /\ x \notin S /\ table[x].status = "pending"
  BY <1>1 DEF Pending
<1>6. table'[x].status = "pending"
  BY <1>2, <1>5
<1> QED BY <1>1, <1>2, <1>4, <1>5, <1>6, WorthStays

LEMMA IndexedWorth ==
  ASSUME TypeOK, TypeOK', Worthwhile, Index
  PROVE  Worthwhile'
<1>1. PICK x \in Pending : ~Ineligible(x)
  BY DEF Worthwhile
<1>2. Rows \subseteq Rows' /\ \A y \in Rows : table'[y] = table[y]
  BY IndexedTable
<1> QED BY <1>1, <1>2, WorthStays DEF Pending

LEMMA StillWorthStep ==
  ASSUME TypeOK, TypeOK', RunShape, LockHeld, NotBoundYet, StillWorth, [Next]_vars
  PROVE  StillWorth'
<1> SUFFICES ASSUME UnderLock',
                    NEW d \in Clis, bound'[d], pc'[d] \in {"mark", "select"}
             PROVE  Worthwhile'
  BY DEF StillWorth
<1>u. UnderLock /\ \A e \in Inits : ~(StartInit(e) \/ SkipSome(e) \/ Step(e) \/ Abort(e))
  BY UnderLockBefore
<1>r. d \in Runs
  BY DEF Runs
<1>1. CASE UNCHANGED <<table, pc, bound>>
  BY <1>u, <1>1 DEF StillWorth, Worthwhile, Pending, Ineligible, Siblings, Rows
<1>2. CASE Index
  <2>1. Worthwhile
    BY <1>u, <1>2 DEF Index, runVars, StillWorth
  <2> QED BY <1>2, <2>1, IndexedWorth
<1>3. CASE HasPendingWork(d)
  <2>1. CASE Limit = 0
    BY <1>3, <1>r, <2>1 DEF HasPendingWork, NotBoundYet
  <2>2. CASE Limit # 0
    <3>1. Worthwhile /\ table' = Marked({x \in Rows : Ineligible(x)})
      BY <1>3, <1>r, <2>2 DEF HasPendingWork, TypeOK
    <3> QED BY <3>1, MarkedWorth
  <2> QED BY <2>1, <2>2
<1>4. CASE MarkSkipped(d)
  <2>1. Worthwhile /\ table' = Marked({x \in Rows : Ineligible(x)})
    BY <1>4, <1>u DEF MarkSkipped, StillWorth
  <2> QED BY <2>1, MarkedWorth
<1>5. ASSUME NEW e \in Runs, e # d,
             StartCli(e) \/ StartInit(e) \/ SkipSome(e) \/ Step(e) \/ Abort(e)
      PROVE  FALSE
  <2>1. pc'[d] = pc[d] /\ pc[d] # "idle"
    BY <1>5, <1>r DEF TypeOK, StartCli, StartInit, SkipSome, Step, HasPendingWork, MarkSkipped,
       Select, CallModel, Embed, BeginSave, Save, Fail, Finish, Abort, Over
  <2>2. lock = d /\ pc[e] = "idle"
    BY <1>5, <1>r, <1>u, <2>1, Alone DEF LockHeld
  <2>3. StartCli(e) \/ StartInit(e)
    BY <1>5, <2>2 DEF SkipSome, Step, HasPendingWork, MarkSkipped, Select, CallModel, Embed,
       BeginSave, Save, Fail, Finish, Abort
  <2>4. ~StartInit(e)
    BY <1>u DEF StartInit
  <2>5. lock = Nobody
    BY <2>3, <2>4 DEF StartCli, LockAcquired
  <2> QED BY <2>2, <2>5, DistillAssumption
<1>6. ASSUME StartCli(d) \/ StartInit(d) \/ SkipSome(d) \/ Select(d) \/ CallModel(d) \/ Embed(d)
             \/ BeginSave(d) \/ Save(d) \/ Fail(d) \/ Finish(d) \/ Abort(d)
      PROVE  FALSE
  BY <1>6, <1>r DEF TypeOK, StartCli, StartInit, SkipSome, Select, CallModel, Embed, BeginSave,
     Save, Fail, Finish, Abort, Over
<1> QED BY <1>1, <1>2, <1>3, <1>4, <1>5, <1>6, <1>r DEF Next, Step, vars, runVars

\* A run that took the lock starts a llama-server only for rows that are
\* still pending when it selects, however often indexing comes between.
THEOREM ServerIsUsed == Spec => []ServerHasWork
<1>1. Init => NotBoundYet /\ StillWorth
  BY DEF Init, NotBoundYet, StillWorth, Runs
<1>2. TypeOK /\ TypeOK' /\ RunShape /\ LockHeld /\ NotBoundYet /\ StillWorth /\ [Next]_vars
        => NotBoundYet' /\ StillWorth'
  BY StillWorthStep, NotBoundYetStep
<1>3. StillWorth => ServerHasWork
  BY DEF StillWorth, ServerHasWork, Worthwhile
<1> QED BY <1>1, <1>2, <1>3, TypeCorrect, LockInvariant, PTL DEF Spec

-----------------------------------------------------------------------------
(* With or without the lock                                                *)

\* A distilled exchange has a core.
HasCore == \A x \in Rows : table[x].status = "distilled" => table[x].core # NoAnswer

\* What a step may do to an exchange that is in the table.
Kept(x) ==
    table[x].status = "distilled"
        => /\ table'[x].status = "distilled"
           /\ table'[x].core = table[x].core
           /\ table[x].rooms \subseteq table'[x].rooms

LEMMA KeptStep ==
  ASSUME TypeOK, RunShape, HasCore, [Next]_vars
  PROVE  HasCore' /\ \A x \in Rows : Kept(x)
<1>1. \A x \in Rows : table[x] \in Exchange
  BY DEF TypeOK, Rows
<1>2. CASE table' = table
  BY <1>2 DEF HasCore, Kept, Rows
<1>3. CASE Index
  <2>1. /\ Rows' = Rows \cup {Len(table) + 1}
        /\ \A x \in Rows : table'[x] = table[x]
        /\ table'[Len(table) + 1].status = "pending"
    BY <1>3, IndexedTable
  <2> QED BY <2>1 DEF HasCore, Kept
<1>4. ASSUME NEW d \in Runs, Marking(d), table' # table
      PROVE  HasCore' /\ \A x \in Rows : Kept(x)
  <2>1. PICK S \in SUBSET Pending : table' = Marked(S)
    BY <1>4, MarkingSteps
  <2>2. Rows' = Rows /\ \A x \in Rows :
          table'[x] = IF x \in S THEN [table[x] EXCEPT !.status = "skipped"] ELSE table[x]
    BY <2>1, MarkedType DEF Rows
  <2>3. ASSUME NEW x \in Rows
        PROVE  \/ table'[x] = table[x]
               \/ table[x].status = "pending" /\ table'[x].status = "skipped"
    BY <1>1, <2>2, <2>3 DEF Pending, Exchange
  <2> QED BY <2>2, <2>3 DEF HasCore, Kept
<1>5. ASSUME NEW d \in Runs, Save(d)
      PROVE  HasCore' /\ \A x \in Rows : Kept(x)
  <2> DEFINE x == InHand(d)
  <2>1. answer[d] \in Answers /\ x \in Rows
    BY <1>5, RowInHand DEF RunShape, Save
  <2>2. /\ Rows' = Rows /\ table'[x] = Saved(table[x], answer[d])
        /\ \A y \in Rows \ {x} : table'[y] = table[y]
    BY <1>5, <2>1, SavedTable
  <2>3. table[x] \in Exchange
    BY <1>1, <2>1
  <2> HIDE DEF x
  <2>4. /\ table'[x].core = IF table[x].core = NoAnswer THEN answer[d] ELSE table[x].core
        /\ table'[x].rooms = table[x].rooms \cup {answer[d]}
        /\ table'[x].status = "distilled"
    BY <2>2, <2>3 DEF Saved, Exchange
  <2>5. answer[d] # NoAnswer
    BY <2>1, DistillAssumption
  <2>6. Kept(x)
    BY <2>1, <2>4 DEF HasCore, Kept
  <2>7. HasCore'
    BY <2>2, <2>4, <2>5 DEF HasCore
  <2>8. \A y \in Rows \ {x} : Kept(y)
    BY <2>2 DEF Kept
  <2> QED BY <2>6, <2>7, <2>8
<1> QED
  BY <1>2, <1>3, <1>4, <1>5 DEF Next, Step, Marking, vars, StartCli, Select, CallModel,
     Embed, BeginSave, Fail, Finish, Abort

\* What is distilled is final even when runs that take no lock overlap: its
\* core, which search results cite, never changes.
THEOREM DistilledStays == Spec => DistilledIsFinal
<1>1. Init => HasCore
  BY DEF Init, HasCore, Rows
<1>2. TypeOK /\ RunShape /\ HasCore /\ [Next]_vars => HasCore'
  BY KeptStep
<1>3. TypeOK /\ RunShape /\ HasCore /\ [Next]_vars =>
        [\A x \in Rows :
          table[x].status = "distilled"
              => /\ table'[x].status = "distilled"
                 /\ table'[x].core = table[x].core
                 /\ table[x].rooms \subseteq table'[x].rooms]_vars
  BY KeptStep DEF Kept
<1> QED BY <1>1, <1>2, <1>3, TypeCorrect, PTL DEF Spec, DistilledIsFinal
=============================================================================
