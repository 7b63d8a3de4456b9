----------------------------- MODULE ModelCalls -----------------------------
(***************************************************************************)
(* The language model behind `loci distill`: the machine-wide slots and the*)
(* llama-server each llamacpp-ft run starts for itself (llama_server.py,   *)
(* bind_runtime_backend), and one call after the other through a transport *)
(* of llm.py: a chat/completions API, with its retries, or a harness's own *)
(* command line, which writes a session log that has to go again.          *)
(* Runs of one project exclude each other (distill.lock), so a project is  *)
(* a process here; any of them may be killed before any step.              *)
(***************************************************************************)
EXTENDS Naturals, FiniteSets

CONSTANTS
    Projects,    \* each runs `loci distill` once
    Clients,     \* the clients a project may have configured
    Limits,      \* the values of LOCI_LLAMACPP_MAX_CONCURRENT in use
    Ports,       \* what the system hands out for port 0
    Rows,        \* exchanges a run distills
    UserSessions,  \* sessions of the user's own in the harness's directory
    MaxCrashes   \* bound: runs killed

NetworkAttempts    == 3
ValidationAttempts == 2
Cli == {"claude", "grok", "codex", "opencode", "gemini", "omp"}
None == "none"

ASSUME ModelCallsAssumption ==
    /\ Clients \subseteq Cli \cup {"llamacpp-ft", "openai"}
    /\ Limits \subseteq Nat \ {0} /\ Limits # {}
    /\ Rows \in Nat \ {0} /\ MaxCrashes \in Nat
    /\ Projects \cap UserSessions = {} /\ None \notin Projects

Slots == UNION {0..l - 1 : l \in Limits}

VARIABLES
    client, limit,  \* each project's configuration
    pc,
    slot,      \* slot file -> the run that has it locked
    at,        \* the slot a run tries next
    server,    \* the llama-server each project started: state and port
    orphans,   \* servers whose run was killed, by project
    row,       \* the exchange a run is at
    net, val,  \* attempts made: posts of one body, bodies of one exchange
    outcome,   \* how the transport ended
    sessions,  \* session logs in the harness's directory, by who made them
    theirs,    \* history: the user's sessions made so far
    crashes

vars == <<client, limit, pc, slot, at, server, orphans, row, net, val,
          outcome, sessions, theirs, crashes>>

config == <<client, limit>>
calling == <<row, net, val, outcome>>
logs == <<sessions, theirs>>

-----------------------------------------------------------------------------
NoServer == [state |-> None, port |-> None]

Running(s) == s.state \in {"loading", "up"}

Init ==
    /\ client \in [Projects -> Clients] /\ limit \in [Projects -> Limits]
    /\ \A p \in Projects : client[p] # "llamacpp-ft" => limit[p] = Cardinality(Slots)
    /\ pc = [p \in Projects |-> "idle"]
    /\ slot = [i \in Slots |-> None] /\ at = [p \in Projects |-> 0]
    /\ server = [p \in Projects |-> NoServer]
    /\ orphans = {}
    /\ row = [p \in Projects |-> 1]
    /\ net = [p \in Projects |-> 0] /\ val = [p \in Projects |-> 0]
    /\ outcome = [p \in Projects |-> None]
    /\ sessions = {} /\ theirs = {}
    /\ crashes = 0

Goto(p, where) == pc' = [pc EXCEPT ![p] = where]

Start(p) ==
    /\ pc[p] = "idle"
    /\ Goto(p, IF client[p] = "llamacpp-ft" THEN "slot" ELSE "call")
    /\ at' = [at EXCEPT ![p] = 0]
    /\ row' = [row EXCEPT ![p] = 1]
    /\ net' = [net EXCEPT ![p] = 0] /\ val' = [val EXCEPT ![p] = 0]
    /\ outcome' = [outcome EXCEPT ![p] = None]
    /\ UNCHANGED <<config, slot, server, orphans, logs, crashes>>

\* llamacpp_concurrency_slot: each slot file in turn, and again after a pause.
TrySlot(p) ==
    /\ pc[p] = "slot"
    /\ IF slot[at[p]] = None
       THEN slot' = [slot EXCEPT ![at[p]] = p] /\ Goto(p, "spec") /\ UNCHANGED at
       ELSE at' = [at EXCEPT ![p] = (@ + 1) % limit[p]] /\ UNCHANGED <<slot, pc>>
    /\ UNCHANGED <<config, server, orphans, calling, logs, crashes>>

\* spec_for_model raises without a binary, a model or a draft model; the port is
\* free when it is chosen, and free for others until the server binds it.
InUse(s) == {s[p].port : p \in {q \in Projects : s[q].state = "up"}}

Spawn(p) ==
    /\ pc[p] = "spec"
    /\ \/ Goto(p, "release") /\ UNCHANGED server
       \/ /\ \E port \in Ports \ (InUse(server) \cup {o.port : o \in orphans}) :
               server' = [server EXCEPT ![p] = [state |-> "loading", port |-> port]]
          /\ Goto(p, "health")
    /\ UNCHANGED <<config, slot, at, orphans, calling, logs, crashes>>

\* The server exits when another one has the port, or for a reason of its own.
ServerBinds(p) ==
    /\ server[p].state = "loading"
    /\ server' = [server EXCEPT ![p].state =
           IF server[p].port \in InUse(server) \cup {o.port : o \in orphans}
           THEN "exited" ELSE "up"]
    /\ UNCHANGED <<config, pc, slot, at, orphans, calling, logs, crashes>>

ServerExits(p) ==
    /\ Running(server[p])
    /\ server' = [server EXCEPT ![p].state = "exited"]
    /\ UNCHANGED <<config, pc, slot, at, orphans, calling, logs, crashes>>

Answers(port) == port \in InUse(server) \cup {o.port : o \in orphans}

\* Fault: a server that never gets healthy is left running.
HealthLeaves(p) ==
    /\ pc[p] = "health"
    /\ \/ server[p].state # "exited" /\ Answers(server[p].port) /\ Goto(p, "call")
       \/ Goto(p, "release")
    /\ UNCHANGED <<config, slot, at, server, orphans, calling, logs, crashes>>

\* Fault: no deadline.
HealthWaits(p) ==
    /\ pc[p] = "health"
    /\ IF server[p].state = "exited" THEN Goto(p, "stop")
       ELSE Answers(server[p].port) /\ Goto(p, "call")
    /\ UNCHANGED <<config, slot, at, server, orphans, calling, logs, crashes>>

\* _wait_healthy: an exited server raises, a 2xx on the port is believed, and the
\* deadline raises; whatever raises stops the server.
Health(p) ==
    /\ pc[p] = "health"
    /\ \/ server[p].state # "exited" /\ Answers(server[p].port) /\ Goto(p, "call")
       \/ Goto(p, "stop")
    /\ UNCHANGED <<config, slot, at, server, orphans, calling, logs, crashes>>

-----------------------------------------------------------------------------
(* One exchange: _call_openai over _post_chat_completion.                  *)

Chat(p) == client[p] \in {"openai", "llamacpp-ft"}

\* The exchange is over, distilled or not: the next one, or the run's end.
NextRow(p) ==
    /\ IF row[p] < Rows THEN row' = [row EXCEPT ![p] = @ + 1] /\ Goto(p, "call")
       ELSE UNCHANGED row /\ Goto(p, IF client[p] = "llamacpp-ft" THEN "stop" ELSE "done")
    /\ net' = [net EXCEPT ![p] = 0] /\ val' = [val EXCEPT ![p] = 0]

Post(p) ==
    /\ pc[p] = "call" /\ Chat(p)
    /\ net' = [net EXCEPT ![p] = @ + 1]
    /\ Goto(p, "posted")
    /\ UNCHANGED <<config, slot, at, server, orphans, row, val, outcome, logs, crashes>>

LastAttempt(n) == n = NetworkAttempts

\* 5xx and timeouts are posted again, up to three times; what else fails (4xx, a
\* refused connection, an answer that is no JSON) is not.
PostFails(p) ==
    /\ pc[p] = "posted"
    /\ \E retryable \in BOOLEAN :
         IF retryable /\ ~LastAttempt(net[p])
         THEN Goto(p, "call") /\ UNCHANGED <<row, net, val>>
         ELSE NextRow(p)
    /\ UNCHANGED <<config, slot, at, server, orphans, outcome, logs, crashes>>

\* An answer, from whoever listens: a palace, or one that fails validation, which
\* is asked for once more with the error.
Answered(p) ==
    /\ pc[p] = "posted"
    /\ client[p] = "llamacpp-ft" => Answers(server[p].port)
    /\ \/ NextRow(p)
       \/ IF val[p] + 1 < ValidationAttempts
          THEN /\ val' = [val EXCEPT ![p] = @ + 1]
               /\ net' = [net EXCEPT ![p] = 0]
               /\ Goto(p, "call") /\ UNCHANGED row
          ELSE NextRow(p)
    /\ UNCHANGED <<config, slot, at, server, orphans, outcome, logs, crashes>>

-----------------------------------------------------------------------------
(* One exchange through a harness's command line.                          *)

\* The commands that write a session log whatever they are asked.
Persists(c) == c \notin {"gemini", "omp"}

CliStart(p) ==
    /\ pc[p] = "call" /\ ~Chat(p)
    /\ Goto(p, "cli")
    /\ sessions' = sessions \cup (IF Persists(client[p]) THEN {p} ELSE {})
    /\ UNCHANGED <<config, slot, at, server, orphans, calling, theirs, crashes>>

\* "silent": an end without the session's id on stdout.
CliEnd(p) ==
    /\ pc[p] = "cli"
    /\ Goto(p, "cleanup")
    /\ \E o \in {"answer", "error", "silent", "timeout"} :
         outcome' = [outcome EXCEPT ![p] = o]
    /\ UNCHANGED <<config, slot, at, server, orphans, row, net, val, logs, crashes>>

\* Fault: whatever appeared during the call is removed, as before issue 14.
RemovedByDiff(p) == sessions

\* Fault: no cleanup when the command times out.
RemovedOnReturn(p) == IF outcome[p] # "timeout" /\ client[p] # "codex" THEN {p} ELSE {}

\* Which ends of its command a transport removes the log after: claude and grok,
\* by the id given to the command, in `finally`; opencode by the id it printed,
\* when it returned; codex never.
ClaudeCleans(o) == TRUE

GrokCleans(o) == TRUE

OpenCodeCleans(o) == o \in {"answer", "error"}

CodexCleans(o) == FALSE

Removed(p) ==
    LET o == outcome[p]
        cleans == CASE client[p] = "claude"   -> ClaudeCleans(o)
                    [] client[p] = "grok"     -> GrokCleans(o)
                    [] client[p] = "opencode" -> OpenCodeCleans(o)
                    [] client[p] = "codex"    -> CodexCleans(o)
                    [] OTHER                  -> FALSE
    IN  IF cleans THEN {p} ELSE {}

Cleanup(p) ==
    /\ pc[p] = "cleanup"
    /\ sessions' = sessions \ Removed(p)
    /\ NextRow(p)
    /\ UNCHANGED <<config, slot, at, server, orphans, outcome, theirs, crashes>>

UserWorks(u) ==
    /\ u \notin theirs
    /\ theirs' = theirs \cup {u} /\ sessions' = sessions \cup {u}
    /\ UNCHANGED <<config, pc, slot, at, server, orphans, calling, crashes>>

-----------------------------------------------------------------------------
\* Fault: terminate, without the wait.
StopNoWait(p) ==
    /\ pc[p] = "stop"
    /\ Goto(p, "release")
    /\ UNCHANGED <<config, slot, at, server, orphans, calling, logs, crashes>>

\* _stop: terminate, wait, kill, wait. The server's exit comes before the slot's
\* release, the order of the two context managers.
Stop(p) ==
    /\ pc[p] = "stop"
    /\ server' = [server EXCEPT ![p] = NoServer]
    /\ Goto(p, "release")
    /\ UNCHANGED <<config, slot, at, orphans, calling, logs, crashes>>

\* flock is dropped by LOCK_UN and by the end of the process alike.
Unlocked(p) == [i \in Slots |-> IF slot[i] = p THEN None ELSE slot[i]]

Release(p) ==
    /\ pc[p] = "release"
    /\ slot' = Unlocked(p)
    /\ Goto(p, "done")
    /\ UNCHANGED <<config, at, server, orphans, calling, logs, crashes>>

\* A killed run: the system drops its lock, its llama-server lives on.
Crash(p) ==
    /\ crashes < MaxCrashes /\ pc[p] \notin {"idle", "done"}
    /\ crashes' = crashes + 1
    /\ Goto(p, "done")
    /\ slot' = Unlocked(p)
    /\ orphans' = orphans \cup (IF Running(server[p])
                                THEN {[owner |-> p, port |-> server[p].port]} ELSE {})
    /\ server' = [server EXCEPT ![p] = NoServer]
    /\ UNCHANGED <<config, at, calling, logs>>

Terminated == (\A p \in Projects : pc[p] = "done") /\ UNCHANGED vars

Step(p) ==
    \/ Start(p) \/ TrySlot(p) \/ Spawn(p) \/ Health(p) \/ Post(p) \/ PostFails(p)
    \/ Answered(p) \/ CliStart(p) \/ CliEnd(p) \/ Cleanup(p) \/ Stop(p) \/ Release(p)

Next ==
    \/ \E p \in Projects : Step(p) \/ ServerBinds(p) \/ ServerExits(p) \/ Crash(p)
    \/ \E u \in UserSessions : UserWorks(u)
    \/ Terminated

Spec == Init /\ [][Next]_vars

\* A run that is not killed goes on: every wait of it has a timeout.
FairSpec == Spec /\ \A p \in Projects : WF_vars(Step(p))

-----------------------------------------------------------------------------
(* Properties.                                                             *)

\* Every variable keeps its type: no body is posted more than three times, no
\* exchange asked for more than twice.
TypeOK ==
    /\ client \in [Projects -> Clients] /\ limit \in [Projects -> Limits]
    /\ pc \in [Projects -> {"idle", "slot", "spec", "health", "call", "posted", "cli",
                             "cleanup", "stop", "release", "done"}]
    /\ slot \in [Slots -> Projects \cup {None}]
    /\ at \in [Projects -> Slots]
    /\ server \in [Projects -> [state : {None, "loading", "up", "exited"},
                                 port : Ports \cup {None}]]
    /\ \A p \in Projects : Running(server[p]) => server[p].port \in Ports
    /\ orphans \subseteq [owner : Projects, port : Ports]
    /\ row \in [Projects -> 1..Rows]
    /\ net \in [Projects -> 0..NetworkAttempts]
    /\ \A p \in Projects : pc[p] \notin {"posted", "done"} => net[p] < NetworkAttempts
    /\ val \in [Projects -> 0..ValidationAttempts - 1]
    /\ outcome \in [Projects -> {None, "answer", "error", "silent", "timeout"}]
    /\ sessions \subseteq Projects \cup UserSessions /\ theirs \subseteq UserSessions
    /\ crashes \in 0..MaxCrashes

\* The slots cap the machine: of the projects whose limit is at most k, no more
\* than k have a llama-server running, apart from servers whose run was killed.
ServersCapped ==
    \A k \in Limits :
        Cardinality({p \in Projects : limit[p] <= k /\ Running(server[p])}) <= k

\* A llama-server runs only for a run that is starting it, using it or stopping
\* it: a failed start, a failed exchange and an error leave none behind.
ServerHasRun ==
    \A p \in Projects : Running(server[p]) => pc[p] \in {"health", "call", "posted", "stop"}

\* A call's own session log is gone when the run is over, however the command
\* ended, for claude and grok, and for opencode if it returned: but for a kill.
CallsLeaveNoLog ==
    crashes = 0 => \A p \in Projects \cap sessions :
        \/ pc[p] \in {"cli", "cleanup"}
        \/ client[p] \notin {"claude", "grok"} /\ outcome[p] # "answer"
        \/ client[p] = "codex"

\* The user's sessions in the same directory stay, whatever runs beside them.
UsersLogsStay == theirs \subseteq sessions

\* Every run ends: the wait for a slot too, however the runs that hold them fail.
RunsEnd == \A p \in Projects : pc[p] = "slot" ~> pc[p] = "done"
=============================================================================
