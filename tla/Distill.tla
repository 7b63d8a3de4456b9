------------------------------- MODULE Distill -------------------------------
(***************************************************************************)
(* Distillation: every pending exchange is sent to a language model, its   *)
(* answer embedded, and both saved as a palace object with its rooms.      *)
(* `loci distill` (cli/distill_cmd.py) takes distill.lock first; the run   *)
(* that `loci init` offers (cli/__init__.py) calls the same distill_all of *)
(* distiller.py. Indexing goes on meanwhile, a run may be killed anywhere, *)
(* and the model, the embedder and the database may each refuse.           *)
(*                                                                         *)
(* An exchange is its rowid; an answer stands for the core, the context    *)
(* and the rooms of one reply of the model.                                *)
(***************************************************************************)
EXTENDS Integers, Sequences, FiniteSets

CONSTANTS
    Clis,         \* `loci distill` processes: turn and session hooks, users
    Inits,        \* `loci init` processes that distill at once
    Sessions,
    Answers,      \* what the model may answer
    Poison,       \* exchanges no answer is ever accepted for
    Limit,        \* --limit; MaxRows stands for no limit
    Local,        \* TRUE for llamacpp-ft, which needs a server of its own
    MaxRows,      \* bound: exchanges indexed
    MaxCrashes    \* bound: runs killed or aborted half-way

NoAnswer == "none"
Nobody   == "nobody"

ASSUME DistillAssumption ==
    /\ Clis \cap Inits = {}
    /\ Nobody \notin Clis \cup Inits
    /\ NoAnswer \notin Answers
    /\ Limit \in Nat
    /\ Local \in BOOLEAN
    /\ MaxRows \in Nat
    /\ MaxCrashes \in Nat

Runs == Clis \cup Inits

VARIABLES
    table,      \* the exchanges, by rowid, with what is saved about them
    lastError,  \* the exchange meta names in last_distill_error, or 0
    lock,       \* the process that holds distill.lock
    pc,
    bound,      \* this run started a llama-server of its own
    todo,       \* the rows of this run's SELECT not yet processed
    answer,     \* the model's answer for the row in hand
    stale,      \* another process committed since this run's BEGIN
    crashes

runVars == <<pc, bound, todo, answer>>
vars    == <<table, lastError, lock, runVars, stale, crashes>>

-----------------------------------------------------------------------------
Rows    == DOMAIN table
Pending == {x \in Rows : table[x].status = "pending"}

Siblings(x) == {y \in Rows : table[y].session = table[x].session}

\* What a run marks as not worth distilling: the only exchange of its session
\* so far, or a short one.
Ineligible(x) ==
    /\ table[x].status = "pending"
    /\ Cardinality(Siblings(x)) < 2 \/ ~table[x].long

Marked(S) == [x \in Rows |-> IF x \in S THEN [table[x] EXCEPT !.status = "skipped"]
                             ELSE table[x]]

\* Fault: the LIMIT is forgotten, and so is the status.
SelectedAll == Rows

\* The SELECT has no ORDER BY: SQLite scans the table in rowid order.
Selected ==
    {x \in Pending : Cardinality({y \in Pending : y <= x}) <= Limit}

\* The row of todo the loop is at.
InHand(d) == CHOOSE x \in todo[d] : \A y \in todo[d] : x <= y

At(d, x)  == todo[d] # {} /\ InHand(d) = x

\* A commit by d outdates the snapshots that other runs' transactions read.
CommitBy(d) == stale' = [e \in Runs |-> stale[e] \/ (e # d /\ pc[e] = "commit")]

-----------------------------------------------------------------------------
(* The lock                                                                *)

\* Fault: the run goes on although another one holds the lock.
LockAcquiredAnyway(d) == lock' = d

\* flock with LOCK_NB: a run that finds it taken exits.
LockAcquired(d) == lock = Nobody /\ lock' = d

\* The operating system releases the lock of a process that is gone.
Over(d) ==
    /\ lock' = IF lock = d THEN Nobody ELSE lock
    /\ pc' = [pc EXCEPT ![d] = IF d \in Clis THEN "idle" ELSE "done"]
    /\ bound' = [bound EXCEPT ![d] = FALSE]
    /\ todo' = [todo EXCEPT ![d] = {}]
    /\ answer' = [answer EXCEPT ![d] = NoAnswer]

\* `loci distill`, or a run whose client is not ready and which gives up.
StartCli(d) ==
    /\ d \in Clis
    /\ pc[d] = "idle"
    /\ LockAcquired(d)
    /\ pc' = [pc EXCEPT ![d] = "check"]
    /\ UNCHANGED <<table, lastError, bound, todo, answer, stale, crashes>>

\* `loci init`, after its indexing, marks what it will not distill and asks
\* how many of the others to skip; it takes no lock.
StartInit(d) ==
    /\ d \in Inits
    /\ pc[d] = "idle"
    /\ pc' = [pc EXCEPT ![d] = "ask"]
    /\ table' = Marked({x \in Rows : Ineligible(x)})
    /\ CommitBy(d)
    /\ UNCHANGED <<lastError, lock, bound, todo, answer, crashes>>

\* The user keeps some; by ply or by length, any of the others may be chosen.
\* The kept ones are distilled at once, or left to the hooks.
SkipSome(d) ==
    /\ pc[d] = "ask"
    /\ \E S \in SUBSET Pending : table' = Marked(S)
    /\ \E next \in {"check", "done"} : pc' = [pc EXCEPT ![d] = next]
    /\ CommitBy(d)
    /\ UNCHANGED <<lastError, lock, bound, todo, answer, crashes>>

-----------------------------------------------------------------------------
(* One run                                                                 *)

\* Fault: has_pending_work counts before it marks.
WorthwhileUnmarked == Pending # {}

\* Is there anything left to do once the ineligible are marked?
Worthwhile == \E x \in Pending : ~Ineligible(x)

\* has_pending_work: it decides whether a llama-server is worth starting.
HasPendingWork(d) ==
    /\ pc[d] = "check"
    /\ pc' = [pc EXCEPT ![d] = "mark"]
    /\ IF Limit = 0
       THEN UNCHANGED <<table, bound, stale>>
       ELSE /\ table' = Marked({x \in Rows : Ineligible(x)})
            /\ bound' = [bound EXCEPT ![d] = Local /\ Worthwhile]
            /\ CommitBy(d)
    /\ UNCHANGED <<lastError, lock, todo, answer, crashes>>

\* distill_all marks once more,
MarkSkipped(d) ==
    /\ pc[d] = "mark"
    /\ pc' = [pc EXCEPT ![d] = "select"]
    /\ table' = Marked({x \in Rows : Ineligible(x)})
    /\ CommitBy(d)
    /\ UNCHANGED <<lastError, lock, bound, todo, answer, crashes>>

\* and takes its rows; with none it returns.
Select(d) ==
    /\ pc[d] = "select"
    /\ pc' = [pc EXCEPT ![d] = "next"]
    /\ todo' = [todo EXCEPT ![d] = Selected]
    /\ UNCHANGED <<table, lastError, lock, bound, answer, stale, crashes>>

\* The model answers; without a base_url an unbound llamacpp-ft cannot.
CallModel(d) ==
    /\ pc[d] = "next"
    /\ todo[d] # {}
    /\ InHand(d) \notin Poison
    /\ Local => bound[d]
    /\ \E a \in Answers : answer' = [answer EXCEPT ![d] = a]
    /\ pc' = [pc EXCEPT ![d] = "embed"]
    /\ UNCHANGED <<table, lastError, lock, bound, todo, stale, crashes>>

Embed(d) ==
    /\ pc[d] = "embed"
    /\ pc' = [pc EXCEPT ![d] = "save"]
    /\ UNCHANGED <<table, lastError, lock, bound, todo, answer, stale, crashes>>

\* BEGIN is deferred: the first SELECT fixes what the transaction reads.
BeginSave(d) ==
    /\ pc[d] = "save"
    /\ pc' = [pc EXCEPT ![d] = "commit"]
    /\ stale' = [stale EXCEPT ![d] = FALSE]
    /\ UNCHANGED <<table, lastError, lock, bound, todo, answer, crashes>>

\* Fault: INSERT OR REPLACE, the later answer wins.
SavedLatest(e, a) ==
    [e EXCEPT !.core = a, !.rooms = @ \cup {a}, !.status = "distilled"]

\* The palace row is kept if there is one; the rooms are added to it.
Saved(e, a) ==
    [e EXCEPT !.core = IF @ = NoAnswer THEN a ELSE @,
              !.rooms = @ \cup {a},
              !.status = "distilled"]

\* A write cannot follow a stale read: SQLite then refuses it at once.
Save(d) ==
    /\ pc[d] = "commit"
    /\ ~stale[d]
    /\ table' = [table EXCEPT ![InHand(d)] = Saved(@, answer[d])]
    /\ todo' = [todo EXCEPT ![d] = @ \ {InHand(d)}]
    /\ answer' = [answer EXCEPT ![d] = NoAnswer]
    /\ pc' = [pc EXCEPT ![d] = "next"]
    /\ CommitBy(d)
    /\ UNCHANGED <<lastError, lock, bound, crashes>>

\* Fault: the first failure ends the loop.
FailLast(d) ==
    /\ pc[d] \in {"next", "embed", "commit"}
    /\ todo[d] # {}
    /\ lastError' = InHand(d)
    /\ todo' = [todo EXCEPT ![d] = {}]
    /\ answer' = [answer EXCEPT ![d] = NoAnswer]
    /\ pc' = [pc EXCEPT ![d] = "next"]
    /\ CommitBy(d)
    /\ UNCHANGED <<table, lock, bound, crashes>>

\* Any exception: rolled back and recorded, and the loop goes on.
Fail(d) ==
    /\ pc[d] \in {"next", "embed", "commit"}
    /\ todo[d] # {}
    /\ lastError' = InHand(d)
    /\ todo' = [todo EXCEPT ![d] = @ \ {InHand(d)}]
    /\ answer' = [answer EXCEPT ![d] = NoAnswer]
    /\ pc' = [pc EXCEPT ![d] = "next"]
    /\ CommitBy(d)
    /\ UNCHANGED <<table, lock, bound, crashes>>

Finish(d) ==
    /\ pc[d] = "next"
    /\ todo[d] = {}
    /\ Over(d)
    /\ UNCHANGED <<table, lastError, stale, crashes>>

\* The process is killed, its server does not start, or the embedder cannot
\* be set up, which ends the whole loop.
Abort(d) ==
    /\ pc[d] \notin {"idle", "done"}
    /\ crashes < MaxCrashes
    /\ crashes' = crashes + 1
    /\ Over(d)
    /\ UNCHANGED <<table, lastError, stale>>

\* `loci index` commits a new exchange.
Index ==
    /\ Len(table) < MaxRows
    /\ \E s \in Sessions, l \in BOOLEAN :
          table' = Append(table, [session |-> s, long |-> l, status |-> "pending",
                                  core |-> NoAnswer, rooms |-> {}])
    /\ CommitBy(Nobody)
    /\ UNCHANGED <<lastError, lock, runVars, crashes>>

-----------------------------------------------------------------------------
Init ==
    /\ table = <<>>
    /\ lastError = 0
    /\ lock = Nobody
    /\ pc = [d \in Runs |-> "idle"]
    /\ bound = [d \in Runs |-> FALSE]
    /\ todo = [d \in Runs |-> {}]
    /\ answer = [d \in Runs |-> NoAnswer]
    /\ stale = [d \in Runs |-> FALSE]
    /\ crashes = 0

Step(d) ==
    \/ HasPendingWork(d) \/ MarkSkipped(d) \/ Select(d)
    \/ CallModel(d) \/ Embed(d) \/ BeginSave(d) \/ Save(d) \/ Fail(d) \/ Finish(d)

Next ==
    \/ Index
    \/ \E d \in Runs : StartCli(d) \/ StartInit(d) \/ SkipSome(d) \/ Step(d) \/ Abort(d)

Spec == Init /\ [][Next]_vars

\* Hooks start `loci distill` at every session; a run never stops between two
\* steps; a model, an embedder and a database that are asked again and again
\* do not refuse for ever.
FairSpec ==
    /\ Spec
    /\ \A d \in Clis :
          /\ WF_vars(StartCli(d))
          /\ WF_vars(Step(d))
          /\ \A x \in 1..MaxRows \ Poison :
                /\ SF_vars(At(d, x) /\ CallModel(d))
                /\ SF_vars(At(d, x) /\ Embed(d))
                /\ SF_vars(At(d, x) /\ Save(d))

-----------------------------------------------------------------------------
(* Properties                                                              *)

Exchange ==
    [session : Sessions, long : BOOLEAN, status : {"pending", "skipped", "distilled"},
     core : Answers \cup {NoAnswer}, rooms : SUBSET Answers]

TypeOK ==
    /\ table \in Seq(Exchange) /\ Len(table) <= MaxRows
    /\ lastError \in 0..MaxRows
    /\ lock \in Clis \cup {Nobody}
    /\ pc \in [Runs -> {"idle", "ask", "check", "mark", "select", "next", "embed",
                        "save", "commit", "done"}]
    /\ bound \in [Runs -> BOOLEAN]
    /\ todo \in [Runs -> SUBSET (1..MaxRows)]
    /\ answer \in [Runs -> Answers \cup {NoAnswer}]
    /\ stale \in [Runs -> BOOLEAN]
    /\ crashes \in 0..MaxCrashes

\* No run without the lock has begun (and what began never is "idle" again).
UnderLock == \A d \in Inits : pc[d] = "idle"

\* What is saved of an exchange comes from one answer: a palace object's rooms
\* are those of the reply its core and its embedding come from, and an
\* exchange has them exactly when it is marked distilled.
PalaceFromOneAnswer ==
    UnderLock => \A x \in Rows :
        \/ table[x].status = "distilled" /\ table[x].rooms = {table[x].core}
        \/ table[x].status # "distilled" /\ table[x].rooms = {} /\ table[x].core = NoAnswer

\* What is distilled stays so, and search results that cite its core stay
\* true, even if a run that takes no lock processes it again.
DistilledIsFinal ==
    [][\A x \in Rows :
          table[x].status = "distilled"
              => /\ table'[x].status = "distilled"
                 /\ table'[x].core = table[x].core
                 /\ table[x].rooms \subseteq table'[x].rooms]_vars

\* The model is not paid for an exchange that is already settled: what a run
\* still means to process is pending, whoever else has run since its SELECT.
OnlyPendingInHand ==
    UnderLock => \A d \in Runs : \A x \in todo[d] : table[x].status = "pending"

\* A run that started a llama-server finds something to send to it.
ServerHasWork ==
    UnderLock => \A d \in Clis : bound[d] /\ pc[d] \in {"mark", "select"} => Pending # {}

\* Every exchange the model would answer for leaves the queue, even while
\* others fail for ever.
PendingSettles ==
    \A x \in 1..MaxRows \ Poison :
        (x \in Pending) ~> (x \in Rows /\ table[x].status # "pending")
=============================================================================
