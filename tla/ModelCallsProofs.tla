-------------------------- MODULE ModelCallsProofs --------------------------
(***************************************************************************)
(* Proofs about ModelCalls, for any projects, clients, limits, ports and   *)
(* numbers of exchanges and kills: types, the cap on llama-servers, no     *)
(* server without its run, and the session logs of a call and of the user. *)
(***************************************************************************)
EXTENDS ModelCalls, FiniteSetTheorems, TLAPS

\* The client that runs a llama-server of its own.
Local(p) == client[p] = "llamacpp-ft"

\* The stages from the slot to its release.
Holding == {"spec", "health", "call", "posted", "stop", "release"}

HasSlot(p) == \E i \in 0..limit[p] - 1 : slot[i] = p

-----------------------------------------------------------------------------
(* Types                                                                   *)

LEMMA SlotsAreNaturals == Slots \subseteq Nat
BY ModelCallsAssumption DEF Slots

LEMMA SlotZero == 0 \in Slots
<1>1. PICK l \in Limits : TRUE
  BY ModelCallsAssumption
<1>2. 0 \in 0..l - 1
  BY <1>1, ModelCallsAssumption
<1> QED BY <1>1, <1>2 DEF Slots

LEMMA SlotsOfLimit ==
  ASSUME NEW l \in Limits
  PROVE  0..l - 1 \subseteq Slots
BY DEF Slots

LEMMA NextSlot ==
  ASSUME NEW l \in Limits, NEW i \in Nat
  PROVE  (i + 1) % l \in Slots /\ (i + 1) % l \in 0..l - 1
<1>1. l \in Nat /\ l > 0
  BY ModelCallsAssumption
<1>2. (i + 1) % l \in 0..l - 1
  BY <1>1
<1> QED BY <1>2, SlotsOfLimit

\* Where the end of an exchange leads.
LEMMA NextRowLeads ==
  ASSUME TypeOK, NEW p \in Projects, NextRow(p)
  PROVE  /\ \E w \in {"call", IF Local(p) THEN "stop" ELSE "done"} : pc' = [pc EXCEPT ![p] = w]
         /\ row' \in [Projects -> 1..Rows]
         /\ net' = [net EXCEPT ![p] = 0]
         /\ val' = [val EXCEPT ![p] = 0]
<1>1. CASE row[p] < Rows
  <2>1. row[p] + 1 \in 1..Rows
    BY <1>1, ModelCallsAssumption DEF TypeOK
  <2> QED BY <1>1, <2>1 DEF TypeOK, NextRow, Goto
<1>2. CASE ~(row[p] < Rows)
  BY <1>2 DEF TypeOK, NextRow, Goto, Local
<1> QED BY <1>1, <1>2

\* What TypeOK says of the variables an exchange's end changes.
CallTypes ==
    /\ pc \in [Projects -> {"idle", "slot", "spec", "health", "call", "posted", "cli",
                             "cleanup", "stop", "release", "done"}]
    /\ row \in [Projects -> 1..Rows]
    /\ net \in [Projects -> 0..NetworkAttempts]
    /\ \A p \in Projects : pc[p] \notin {"posted", "done"} => net[p] < NetworkAttempts
    /\ val \in [Projects -> 0..ValidationAttempts - 1]

LEMMA NextRowTypes ==
  ASSUME TypeOK, NEW p \in Projects, NextRow(p)
  PROVE  CallTypes'
<1>1. PICK w \in {"call", IF Local(p) THEN "stop" ELSE "done"} : pc' = [pc EXCEPT ![p] = w]
  BY NextRowLeads
<1>2. w \in {"call", "stop", "done"}
  BY <1>1
<1>3. net' = [net EXCEPT ![p] = 0] /\ val' = [val EXCEPT ![p] = 0] /\ row' \in [Projects -> 1..Rows]
  BY NextRowLeads
<1>4. ASSUME NEW q \in Projects, pc'[q] \notin {"posted", "done"} PROVE net'[q] < NetworkAttempts
  BY <1>1, <1>2, <1>3, <1>4 DEF TypeOK, NetworkAttempts
<1> QED BY <1>1, <1>2, <1>3, <1>4 DEF TypeOK, CallTypes, NetworkAttempts, ValidationAttempts

LEMMA StepTypes ==
  ASSUME TypeOK, NEW p \in Projects, Step(p)
  PROVE  TypeOK'
<1> USE DEF TypeOK, Goto, Running, config, calling, logs
<1>1. CASE Start(p)
  BY <1>1, SlotZero, ModelCallsAssumption DEF Start, NetworkAttempts, ValidationAttempts
<1>2. CASE TrySlot(p)
  <2>1. (at[p] + 1) % limit[p] \in Slots
    BY NextSlot, SlotsAreNaturals
  <2> QED BY <1>2, <2>1 DEF TrySlot
<1>3. CASE Spawn(p)
  <2>1. CASE pc' = [pc EXCEPT ![p] = "release"] /\ UNCHANGED server
    BY <1>3, <2>1 DEF Spawn
  <2>2. ASSUME NEW port \in Ports,
               server' = [server EXCEPT ![p] = [state |-> "loading", port |-> port]],
               pc' = [pc EXCEPT ![p] = "health"]
        PROVE  TypeOK'
    BY <1>3, <2>2 DEF Spawn
  <2> QED BY <1>3, <2>1, <2>2 DEF Spawn
<1>4. CASE Health(p)
  BY <1>4 DEF Health
<1>5. CASE Post(p)
  BY <1>5 DEF Post, NetworkAttempts
<1>6. CASE PostFails(p)
  <2>1. CASE NextRow(p)
    BY <1>6, <2>1, NextRowTypes DEF PostFails, CallTypes
  <2>2. CASE ~LastAttempt(net[p]) /\ pc' = [pc EXCEPT ![p] = "call"] /\ UNCHANGED <<row, net, val>>
    BY <1>6, <2>2 DEF PostFails, LastAttempt, NetworkAttempts
  <2> QED BY <1>6, <2>1, <2>2 DEF PostFails
<1>7. CASE Answered(p)
  <2>1. CASE NextRow(p)
    BY <1>7, <2>1, NextRowTypes DEF Answered, CallTypes
  <2>2. CASE ~NextRow(p)
    <3>1. /\ val[p] + 1 < ValidationAttempts
          /\ val' = [val EXCEPT ![p] = @ + 1] /\ net' = [net EXCEPT ![p] = 0]
          /\ pc' = [pc EXCEPT ![p] = "call"] /\ UNCHANGED row
      BY <1>7, <2>2 DEF Answered
    <3>2. val' \in [Projects -> 0..ValidationAttempts - 1]
      BY <3>1 DEF ValidationAttempts
    <3> QED BY <1>7, <3>1, <3>2 DEF Answered, NetworkAttempts
  <2> QED BY <2>1, <2>2
<1>8. CASE CliStart(p)
  BY <1>8 DEF CliStart
<1>9. CASE CliEnd(p)
  BY <1>9 DEF CliEnd
<1>10. CASE Cleanup(p)
  BY <1>10, NextRowTypes DEF Cleanup, CallTypes
<1>11. CASE Stop(p)
  BY <1>11 DEF Stop, NoServer, None
<1>12. CASE Release(p)
  BY <1>12 DEF Release, Unlocked
<1> QED BY <1>1, <1>2, <1>3, <1>4, <1>5, <1>6, <1>7, <1>8, <1>9, <1>10, <1>11, <1>12 DEF Step

LEMMA OtherTypes ==
  ASSUME TypeOK, NEW p \in Projects, ServerBinds(p) \/ ServerExits(p) \/ Crash(p)
  PROVE  TypeOK'
<1> USE DEF TypeOK, Goto, Running, config, calling, logs
<1>1. CASE ServerBinds(p)
  BY <1>1 DEF ServerBinds
<1>2. CASE ServerExits(p)
  BY <1>2 DEF ServerExits
<1>3. CASE Crash(p)
  <2>1. crashes' \in 0..MaxCrashes /\ server' = [server EXCEPT ![p] = NoServer]
    BY <1>3, ModelCallsAssumption DEF Crash
  <2>2. orphans' \subseteq [owner : Projects, port : Ports]
    BY <1>3 DEF Crash
  <2>3. \A q \in Projects : Running(server'[q]) => server'[q].port \in Ports
    BY <2>1 DEF NoServer, None
  <2> QED BY <1>3, <2>1, <2>2, <2>3 DEF Crash, Unlocked, NoServer, NetworkAttempts
<1> QED BY <1>1, <1>2, <1>3

\* No body is posted more than three times and no exchange asked for more than
\* twice (_post_chat_completion, _call_openai); a run tries only slot files of
\* its limit's.
THEOREM TypeCorrect == Spec => []TypeOK
<1>1. Init => TypeOK
  BY SlotZero, ModelCallsAssumption
     DEF Init, TypeOK, NoServer, None, Running, NetworkAttempts, ValidationAttempts
<1>2. TypeOK /\ [Next]_vars => TypeOK'
  <2> SUFFICES ASSUME TypeOK, [Next]_vars PROVE TypeOK'
    OBVIOUS
  <2>1. ASSUME NEW u \in UserSessions, UserWorks(u) PROVE TypeOK'
    BY <2>1 DEF UserWorks, TypeOK, config, calling
  <2>2. CASE UNCHANGED vars
    BY <2>2 DEF vars, TypeOK
  <2> QED BY <2>1, <2>2, StepTypes, OtherTypes DEF Next, Terminated
<1> QED BY <1>1, <1>2, PTL DEF Spec

-----------------------------------------------------------------------------
(* Slots and servers                                                       *)

\* A run holds one of its own slots from there to its release, and its server
\* runs only in between.
Served(p) ==
    /\ at[p] \in 0..limit[p] - 1
    /\ pc[p] \in {"slot", "spec", "health", "stop", "release"} => Local(p)
    /\ pc[p] \in {"cli", "cleanup"} => ~Chat(p)
    /\ Local(p) /\ pc[p] \in Holding => HasSlot(p)
    /\ Running(server[p]) => Local(p) /\ pc[p] \in {"health", "call", "posted", "stop"}

AllServed == \A p \in Projects : Served(p)

\* A step that leaves a run's own variables and its slot alone.
LEMMA OtherServed ==
  ASSUME TypeOK, NEW q \in Projects, Served(q),
         UNCHANGED config, pc'[q] = pc[q], at'[q] = at[q], server'[q] = server[q],
         \A i \in Slots : slot[i] = q => slot'[i] = q
  PROVE  Served(q)'
<1>1. limit[q] \in Limits /\ 0..limit[q] - 1 \subseteq Slots
  BY SlotsOfLimit DEF TypeOK
<1>2. HasSlot(q) => HasSlot(q)'
  BY <1>1 DEF HasSlot, config
<1> QED BY <1>2 DEF Served, Local, Chat, Running, config

\* What an action of p does to the variables of others.
LEMMA Mine ==
  ASSUME TypeOK, NEW p \in Projects, NEW q \in Projects, p # q, Served(q),
         Step(p) \/ ServerBinds(p) \/ ServerExits(p) \/ Crash(p)
  PROVE  Served(q)'
<1>1. UNCHANGED config
  BY DEF Step, Start, TrySlot, Spawn, Health, Post, PostFails, Answered, CliStart, CliEnd,
         Cleanup, Stop, Release, ServerBinds, ServerExits, Crash, config
<1>2. server'[q] = server[q]
  BY DEF TypeOK, Step, Start, TrySlot, Spawn, Health, Post, PostFails, Answered, CliStart,
         CliEnd, Cleanup, Stop, Release, ServerBinds, ServerExits, Crash
<1>3. at'[q] = at[q]
  BY DEF TypeOK, Step, Start, TrySlot, Spawn, Health, Post, PostFails, Answered, CliStart,
         CliEnd, Cleanup, Stop, Release, ServerBinds, ServerExits, Crash
<1>4. \A i \in Slots : slot[i] = q => slot'[i] = q
  BY ModelCallsAssumption
     DEF TypeOK, Step, Start, TrySlot, Spawn, Health, Post, PostFails, Answered, CliStart,
         CliEnd, Cleanup, Stop, Release, ServerBinds, ServerExits, Crash, Unlocked
<1>5. pc'[q] = pc[q]
  <2>1. NextRow(p) => pc'[q] = pc[q]
    BY DEF TypeOK, NextRow, Goto
  <2> QED BY <2>1
     DEF TypeOK, Goto, Step, Start, TrySlot, Spawn, Health, Post, PostFails, Answered,
         CliStart, CliEnd, Cleanup, Stop, Release, ServerBinds, ServerExits, Crash
<1> QED BY <1>1, <1>2, <1>3, <1>4, <1>5, OtherServed

\* What the end of an exchange does to its own run.
LEMMA NextRowServed ==
  ASSUME TypeOK, NEW p \in Projects, Served(p), NextRow(p),
         pc[p] \in {"posted", "cleanup"},
         UNCHANGED <<config, slot, at, server>>
  PROVE  Served(p)'
<1>1. PICK w \in {"call", IF Local(p) THEN "stop" ELSE "done"} : pc' = [pc EXCEPT ![p] = w]
  BY NextRowLeads
<1>2. pc'[p] = w
  BY <1>1 DEF TypeOK
<1>3. CASE w = "call"
  BY <1>2, <1>3 DEF Served, Local, Chat, Holding, HasSlot, Running, config
<1>4. CASE w # "call" /\ Local(p)
  BY <1>1, <1>2, <1>4 DEF Served, Local, Chat, Holding, HasSlot, Running, config
<1>5. CASE w # "call" /\ ~Local(p)
  BY <1>1, <1>2, <1>5 DEF Served, Local, Chat, Holding, HasSlot, Running, config
<1> QED BY <1>3, <1>4, <1>5

LEMMA OwnServed ==
  ASSUME TypeOK, NEW p \in Projects, Served(p), Step(p)
  PROVE  Served(p)'
<1> USE DEF TypeOK, Served, Goto, Local, Chat, Holding, HasSlot, Running, config, calling, logs
<1>1. CASE Start(p)
  <2>1. limit[p] \in Limits
    OBVIOUS
  <2>2. limit[p] \in Nat \ {0}
    BY <2>1, ModelCallsAssumption
  <2>3. 0 \in 0..limit[p] - 1
    BY <2>2
  <2> QED BY <1>1, <2>3 DEF Start
<1>2. CASE TrySlot(p)
  <2>1. at[p] \in Slots /\ limit[p] \in Limits /\ (at[p] + 1) % limit[p] \in 0..limit[p] - 1
    BY NextSlot, SlotsAreNaturals
  <2>2. CASE slot[at[p]] = None
    BY <1>2, <2>1, <2>2 DEF TrySlot
  <2>3. CASE slot[at[p]] # None
    BY <1>2, <2>1, <2>3 DEF TrySlot
  <2> QED BY <2>2, <2>3
<1>3. CASE Spawn(p)
  BY <1>3 DEF Spawn
<1>4. CASE Health(p)
  BY <1>4 DEF Health
<1>5. CASE Post(p)
  BY <1>5 DEF Post
<1>6. CASE PostFails(p)
  <2>1. CASE NextRow(p)
    BY <1>6, <2>1, NextRowServed DEF PostFails
  <2>2. CASE ~NextRow(p)
    BY <1>6, <2>2 DEF PostFails
  <2> QED BY <2>1, <2>2
<1>7. CASE Answered(p)
  <2>1. CASE NextRow(p)
    BY <1>7, <2>1, NextRowServed DEF Answered
  <2>2. CASE ~NextRow(p)
    BY <1>7, <2>2 DEF Answered
  <2> QED BY <2>1, <2>2
<1>8. CASE CliStart(p)
  BY <1>8 DEF CliStart
<1>9. CASE CliEnd(p)
  BY <1>9 DEF CliEnd
<1>10. CASE Cleanup(p)
  BY <1>10, NextRowServed DEF Cleanup
<1>11. CASE Stop(p)
  BY <1>11 DEF Stop, NoServer, None
<1>12. CASE Release(p)
  BY <1>12 DEF Release
<1> QED BY <1>1, <1>2, <1>3, <1>4, <1>5, <1>6, <1>7, <1>8, <1>9, <1>10, <1>11, <1>12 DEF Step

LEMMA ServerServed ==
  ASSUME TypeOK, NEW p \in Projects, Served(p), ServerBinds(p) \/ ServerExits(p) \/ Crash(p)
  PROVE  Served(p)'
<1> USE DEF TypeOK, Served, Goto, Local, Chat, Holding, HasSlot, Running, config, calling, logs
<1>1. CASE ServerBinds(p)
  BY <1>1 DEF ServerBinds
<1>2. CASE ServerExits(p)
  BY <1>2 DEF ServerExits
<1>3. CASE Crash(p)
  BY <1>3 DEF Crash, NoServer, None
<1> QED BY <1>1, <1>2, <1>3

LEMMA AlwaysServed == Spec => []AllServed
<1>1. Init => AllServed
  <2> SUFFICES ASSUME Init, NEW p \in Projects PROVE Served(p)
    BY DEF AllServed
  <2>1. limit[p] \in Nat \ {0}
    BY ModelCallsAssumption DEF Init
  <2> QED BY <2>1 DEF Init, Served, Holding, Running, NoServer, None
<1>2. TypeOK /\ AllServed /\ [Next]_vars => AllServed'
  <2> SUFFICES ASSUME TypeOK, AllServed, [Next]_vars, NEW q \in Projects PROVE Served(q)'
    BY DEF AllServed
  <2>1. Served(q)
    BY DEF AllServed
  <2>2. ASSUME NEW p \in Projects, Step(p) \/ ServerBinds(p) \/ ServerExits(p) \/ Crash(p)
        PROVE  Served(q)'
    BY <2>1, <2>2, Mine, OwnServed, ServerServed
  <2>3. ASSUME NEW u \in UserSessions, UserWorks(u) PROVE Served(q)'
    BY <2>1, <2>3, OtherServed DEF UserWorks
  <2>4. CASE UNCHANGED vars
    BY <2>1, <2>4, OtherServed DEF vars, config
  <2> QED BY <2>2, <2>3, <2>4 DEF Next, Terminated
<1> QED BY <1>1, <1>2, TypeCorrect, PTL DEF Spec

\* A llama-server runs only for a run that is starting it, using it or stopping
\* it (LlamaServerProcess, bind_runtime_backend), whatever fails.
THEOREM NoServerLeft == Spec => []ServerHasRun
<1>1. AllServed => ServerHasRun
  BY DEF AllServed, Served, ServerHasRun
<1> QED BY <1>1, AlwaysServed, PTL

\* Of the projects whose limit is at most k, at most k have a server running,
\* whatever limits the others have (llamacpp_concurrency_slot).
THEOREM SlotsCap == Spec => []ServersCapped
<1>1. ASSUME TypeOK, AllServed, NEW k \in Limits
      PROVE  Cardinality({p \in Projects : limit[p] <= k /\ Running(server[p])}) <= k
  <2> DEFINE P == {p \in Projects : limit[p] <= k /\ Running(server[p])}
             f == [p \in P |-> CHOOSE i \in 0..limit[p] - 1 : slot[i] = p]
  <2>1. k \in Nat
    BY ModelCallsAssumption
  <2>2. ASSUME NEW p \in P PROVE f[p] \in 0..k - 1 /\ slot[f[p]] = p
    <3>1. HasSlot(p)
      BY <1>1 DEF AllServed, Served, Holding
    <3>2. f[p] \in 0..limit[p] - 1 /\ slot[f[p]] = p
      BY <3>1 DEF HasSlot
    <3>3. limit[p] \in Nat /\ limit[p] <= k
      BY <1>1, ModelCallsAssumption DEF TypeOK
    <3> QED BY <2>1, <3>2, <3>3
  <2> HIDE DEF f
  <2>3. f \in [P -> 0..k - 1]
    BY <2>2 DEF f
  <2>4. f \in Injection(P, 0..k - 1)
    BY <2>2, <2>3 DEF Injection, IsInjective
  <2>5. IsFiniteSet(0..k - 1) /\ Cardinality(0..k - 1) = k
    BY <2>1, FS_Interval
  <2> HIDE DEF P
  <2>6. Cardinality(P) <= k
    BY <2>4, <2>5, FS_Injection
  <2> QED BY <2>6 DEF P
<1>2. TypeOK /\ AllServed => ServersCapped
  BY <1>1 DEF ServersCapped
<1> QED BY <1>2, AlwaysServed, TypeCorrect, PTL

-----------------------------------------------------------------------------
(* Session logs                                                            *)

\* The user's own sessions are removed by no call's cleanup (issue 14 in llm.py):
\* it names what it removes, and never what it only saw appear.
THEOREM UsersStay == Spec => []UsersLogsStay
<1>1. Init => UsersLogsStay
  BY DEF Init, UsersLogsStay
<1>2. TypeOK /\ UsersLogsStay /\ [Next]_vars => UsersLogsStay'
  <2> SUFFICES ASSUME TypeOK, UsersLogsStay, [Next]_vars PROVE UsersLogsStay'
    OBVIOUS
  <2>1. ASSUME NEW p \in Projects, Cleanup(p) PROVE UsersLogsStay'
    <3>1. Removed(p) \subseteq Projects /\ theirs \cap Projects = {}
      BY ModelCallsAssumption DEF TypeOK, Removed
    <3> QED BY <2>1, <3>1 DEF Cleanup, UsersLogsStay
  <2>2. ASSUME NEW p \in Projects, CliStart(p) PROVE UsersLogsStay'
    BY <2>2 DEF CliStart, UsersLogsStay
  <2>3. ASSUME NEW u \in UserSessions, UserWorks(u) PROVE UsersLogsStay'
    BY <2>3 DEF UserWorks, UsersLogsStay
  <2>4. ASSUME NEW p \in Projects,
               Start(p) \/ TrySlot(p) \/ Spawn(p) \/ Health(p) \/ Post(p) \/ PostFails(p)
               \/ Answered(p) \/ CliEnd(p) \/ Stop(p) \/ Release(p) \/ ServerBinds(p)
               \/ ServerExits(p) \/ Crash(p)
        PROVE  UNCHANGED logs
    BY <2>4 DEF Start, TrySlot, Spawn, Health, Post, PostFails, Answered, CliEnd, Stop,
                Release, ServerBinds, ServerExits, Crash
  <2>5. UNCHANGED logs => UsersLogsStay'
    BY DEF logs, UsersLogsStay
  <2>6. UNCHANGED vars => UNCHANGED logs
    BY DEF vars, logs
  <2> QED BY <2>1, <2>2, <2>3, <2>4, <2>5, <2>6 DEF Next, Step, Terminated
<1> QED BY <1>1, <1>2, TypeCorrect, PTL DEF Spec

\* What CallsLeaveNoLog says of one run.
Tidy(p) ==
    p \in sessions =>
        \/ pc[p] \in {"cli", "cleanup"}
        \/ client[p] \notin {"claude", "grok"} /\ outcome[p] # "answer"
        \/ client[p] = "codex"

\* Only the commands that persist have a log at all.
LogsAreOfCommands ==
    \A p \in Projects \cap sessions : client[p] \in {"claude", "grok", "codex", "opencode"}

AllTidy == LogsAreOfCommands /\ (crashes = 0 => \A p \in Projects : Tidy(p))

LEMMA TidyKept ==
  ASSUME TypeOK, AllTidy, NEW p \in Projects, Step(p), crashes' = 0
  PROVE  Tidy(p)'
<1>1. Tidy(p) /\ crashes = 0 /\ UNCHANGED config
  BY DEF AllTidy, config, Step, Start, TrySlot, Spawn, Health, Post, PostFails, Answered,
         CliStart, CliEnd, Cleanup, Stop, Release
<1>2. CASE CliStart(p)
  BY <1>2 DEF CliStart, Tidy, Goto, TypeOK
<1>3. CASE CliEnd(p)
  BY <1>3 DEF CliEnd, Tidy, Goto, TypeOK
<1>4. CASE Cleanup(p)
  <2>1. p \in sessions' => p \in sessions /\ p \notin Removed(p)
    BY <1>4 DEF Cleanup
  <2>2. p \in sessions' => \/ client[p] = "opencode" /\ outcome[p] # "answer"
                           \/ client[p] = "codex"
    BY <2>1 DEF Removed, ClaudeCleans, GrokCleans, OpenCodeCleans, CodexCleans, AllTidy,
               LogsAreOfCommands
  <2> QED BY <1>1, <1>4, <2>2 DEF Cleanup, Tidy, config
<1>5. CASE Start(p)
  BY <1>1, <1>5 DEF Start, Tidy, config, logs, TypeOK, None
<1>6. CASE \/ TrySlot(p) \/ Spawn(p) \/ Health(p) \/ Post(p) \/ PostFails(p) \/ Answered(p)
           \/ Stop(p) \/ Release(p)
  <2>1. UNCHANGED <<sessions, outcome>> /\ pc[p] \notin {"cli", "cleanup"}
    BY <1>6 DEF TrySlot, Spawn, Health, Post, PostFails, Answered, Stop, Release, logs, calling
  <2> QED BY <1>1, <2>1 DEF Tidy, config
<1> QED BY <1>2, <1>3, <1>4, <1>5, <1>6 DEF Step

\* The log of a call goes when its command ends, by the id it was given (claude,
\* grok) or printed (opencode), unless the run is killed before (_call_*_cli).
THEOREM CallsTidyUp == Spec => []CallsLeaveNoLog
<1>1. Init => AllTidy
  BY DEF Init, AllTidy, LogsAreOfCommands, Tidy
<1>2. TypeOK /\ AllTidy /\ [Next]_vars => AllTidy'
  <2> SUFFICES ASSUME TypeOK, AllTidy, [Next]_vars PROVE AllTidy'
    OBVIOUS
  <2> USE DEF AllTidy
  <2>1. ASSUME NEW p \in Projects, Step(p) PROVE AllTidy'
    <3>1. ASSUME NEW q \in Projects, crashes' = 0 PROVE Tidy(q)'
      <4>1. CASE q = p
        BY <2>1, <3>1, <4>1, TidyKept
      <4>2. CASE q # p
        <5>1. NextRow(p) => pc'[q] = pc[q]
          BY <4>2 DEF TypeOK, NextRow, Goto
        <5>2. UNCHANGED config /\ pc'[q] = pc[q] /\ outcome'[q] = outcome[q] /\ crashes' = crashes
          BY <2>1, <4>2, <5>1
             DEF TypeOK, Goto, config, calling, Step, Start, TrySlot, Spawn, Health, Post,
                 PostFails, Answered, CliStart, CliEnd, Cleanup, Stop, Release
        <5>3. q \in sessions' <=> q \in sessions
          BY <2>1, <4>2
             DEF Removed, logs, Step, Start, TrySlot, Spawn, Health, Post, PostFails,
                 Answered, CliStart, CliEnd, Cleanup, Stop, Release
        <5> QED BY <3>1, <5>2, <5>3 DEF Tidy, config
      <4> QED BY <4>1, <4>2
    <3>2. CASE CliStart(p)
      <4>1. Persists(client[p]) => client[p] \in {"claude", "grok", "codex", "opencode"}
        BY <3>2, ModelCallsAssumption DEF CliStart, Chat, Persists, Cli, TypeOK
      <4> QED BY <3>1, <3>2, <4>1 DEF CliStart, LogsAreOfCommands, config
    <3>3. CASE ~CliStart(p)
      <4>1. sessions' \subseteq sessions /\ UNCHANGED config
        BY <2>1, <3>3 DEF logs, config, Step, Start, TrySlot, Spawn, Health, Post, PostFails,
                          Answered, CliEnd, Cleanup, Stop, Release
      <4> QED BY <3>1, <4>1 DEF LogsAreOfCommands, config
    <3> QED BY <3>2, <3>3
  <2>2. ASSUME NEW p \in Projects, ServerBinds(p) \/ ServerExits(p) PROVE AllTidy'
    BY <2>2 DEF ServerBinds, ServerExits, LogsAreOfCommands, Tidy, config, calling, logs
  <2>3. ASSUME NEW p \in Projects, Crash(p) PROVE AllTidy'
    <3>1. crashes' # 0
      BY <2>3 DEF Crash, TypeOK
    <3> QED BY <2>3, <3>1 DEF Crash, LogsAreOfCommands, config, logs
  <2>4. ASSUME NEW u \in UserSessions, UserWorks(u) PROVE AllTidy'
    BY <2>4, ModelCallsAssumption DEF UserWorks, LogsAreOfCommands, Tidy, config, calling
  <2>5. CASE UNCHANGED vars
    BY <2>5 DEF vars, LogsAreOfCommands, Tidy
  <2> QED BY <2>1, <2>2, <2>3, <2>4, <2>5 DEF Next, Terminated
<1>3. AllTidy => CallsLeaveNoLog
  BY DEF AllTidy, Tidy, CallsLeaveNoLog
<1> QED BY <1>1, <1>2, <1>3, TypeCorrect, PTL DEF Spec
=============================================================================
