----------------------------- MODULE EmbedServer -----------------------------
(***************************************************************************)
(* The life of the embedding server: processes that serve one Unix socket  *)
(* path of a project (embedder_server.py), `loci server start` and `stop`  *)
(* (cli/server_cmd.py), and the embedder of every other command, which     *)
(* starts a server of its own accord when it finds no socket               *)
(* (embedder.py). The socket file names the server that bound it, alive or *)
(* dead; unlink removes the name, whoever's it is.                         *)
(***************************************************************************)
EXTENDS Integers, FiniteSets

CONSTANTS
    Servers,     \* process ids of servers; one that is gone may be reused
    Starters,    \* `loci server start` processes
    Stoppers,    \* `loci server stop` processes
    Clients,     \* processes that embed a text
    Patient,     \* TRUE: a model always loads within the 30 s of a start
    MaxKills,    \* bound: servers killed without a chance to clean up
    MaxAborts    \* bound: starts killed half-way

NoServer == "none"
Nobody   == "nobody"

ASSUME EmbedAssumption ==
    /\ {NoServer, "idle", "direct"} \cap Servers = {}
    /\ Nobody \notin Starters
    /\ Patient \in BOOLEAN
    /\ MaxKills \in Nat
    /\ MaxAborts \in Nat

VARIABLES
    server,      \* where each server stands
    recent,      \* servers that answered a request or a ping in the idle period
    stopping,    \* servers whose stop_event is set
    sock,        \* the server embedder.sock leads to
    pidFile,     \* the server embedder.pid names
    lock,        \* the start that holds server.lock
    start,       \* where each start stands
    child,       \* the server it spawned
    stop,
    client,      \* where each embedder stands: the server it asks, if any
    kills, aborts

serverVars == <<server, recent, stopping>>
fileVars   == <<sock, pidFile>>
startVars  == <<lock, start, child>>
vars       == <<serverVars, fileVars, startVars, stop, client, kills, aborts>>

-----------------------------------------------------------------------------
\* Fault: a socket file is taken for a server that listens.
AcceptsIfThere == sock # NoServer

\* A connection to the socket file is accepted.
Accepts == sock # NoServer /\ server[sock] = "serving"

\* A ping waits for one second, which a busy server may need.
PingFails == ~Accepts \/ \E c \in Clients : client[c] = sock

\* The process id is not in use, and no file, parent or peer remembers it.
Free(s) ==
    /\ server[s] = "off"
    /\ sock # s
    /\ \A c \in Clients : client[c] # s
    /\ \A t \in Starters : child[t] # s

At(s, from, to) == server[s] = from /\ server' = [server EXCEPT ![s] = to]

-----------------------------------------------------------------------------
(* A server: run_server                                                    *)

\* It leaves a socket that answers alone.
PingFirst(s) ==
    /\ \/ Accepts /\ At(s, "ping", "off") /\ recent' = recent \cup {sock}
       \/ PingFails /\ At(s, "ping", "unlink") /\ UNCHANGED recent
    /\ UNCHANGED <<stopping, fileVars, startVars, stop, client, kills, aborts>>

UnlinkStale(s) ==
    /\ At(s, "unlink", "load")
    /\ sock' = NoServer
    /\ UNCHANGED <<recent, stopping, pidFile, startVars, stop, client, kills, aborts>>

Load(s) ==
    /\ At(s, "load", "bind")
    /\ UNCHANGED <<recent, stopping, fileVars, startVars, stop, client, kills, aborts>>

\* An existing file makes bind fail, which ends the process there.
Bind(s) ==
    /\ \/ sock # NoServer /\ At(s, "bind", "off") /\ UNCHANGED sock
       \/ sock = NoServer /\ At(s, "bind", "listen") /\ sock' = s
    /\ UNCHANGED <<recent, stopping, pidFile, startVars, stop, client, kills, aborts>>

Listen(s) ==
    /\ At(s, "listen", "serving")
    /\ recent' = recent \cup {s}
    /\ UNCHANGED <<stopping, fileVars, startVars, stop, client, kills, aborts>>

\* SIGTERM or SIGINT
Terminate(s) ==
    /\ server[s] = "serving"
    /\ stopping' = stopping \cup {s}
    /\ UNCHANGED <<server, recent, fileVars, startVars, stop, client, kills, aborts>>

\* Fault: the idle clock restarts at every turn of the loop.
IdleNever(s) == FALSE

\* No request was answered for IDLE_TIMEOUT.
Idle(s) == s \notin recent

\* The accept loop: it ends on the stop event or when idle too long.
Loop(s) ==
    /\ server[s] = "serving"
    /\ IF s \in stopping \/ Idle(s)
       THEN /\ At(s, "serving", "rmsock")
            /\ recent' = recent \ {s}
            /\ stopping' = stopping \ {s}
       ELSE recent' = recent \ {s} /\ UNCHANGED <<server, stopping>>
    /\ UNCHANGED <<fileVars, startVars, stop, client, kills, aborts>>

\* Fault: the socket file stays behind.
SocketAfterExitLeft == sock

\* The listener is closed; now its file goes, whoever bound it.
SocketAfterExit == NoServer

RemoveSocket(s) ==
    /\ At(s, "rmsock", "rmpid")
    /\ sock' = SocketAfterExit
    /\ UNCHANGED <<recent, stopping, pidFile, startVars, stop, client, kills, aborts>>

RemovePid(s) ==
    /\ At(s, "rmpid", "off")
    /\ pidFile' = NoServer
    /\ UNCHANGED <<recent, stopping, sock, startVars, stop, client, kills, aborts>>

\* The process is killed, or its model cannot be loaded.
Kill(s) ==
    /\ server[s] # "off"
    /\ kills < MaxKills
    /\ kills' = kills + 1
    /\ server' = [server EXCEPT ![s] = "off"]
    /\ recent' = recent \ {s}
    /\ stopping' = stopping \ {s}
    /\ UNCHANGED <<fileVars, startVars, stop, client, aborts>>

-----------------------------------------------------------------------------
(* loci server start                                                       *)

Release(t) ==
    /\ lock' = Nobody
    /\ start' = [start EXCEPT ![t] = "idle"]
    /\ child' = [child EXCEPT ![t] = NoServer]

From(t, a, b) == start[t] = a /\ start' = [start EXCEPT ![t] = b]

WantStart(t) ==
    /\ From(t, "idle", "lock")
    /\ UNCHANGED <<serverVars, fileVars, lock, child, stop, client, kills, aborts>>

\* Fault: the lock is not waited for.
LockFreeAlways == TRUE

LockFree == lock = Nobody

Acquire(t) ==
    /\ From(t, "lock", "look")
    /\ LockFree
    /\ lock' = t
    /\ UNCHANGED <<serverVars, fileVars, child, stop, client, kills, aborts>>

\* Is there a socket, and does it answer?
Look(t) ==
    /\ \/ /\ sock = NoServer
          /\ From(t, "look", "pid")
          /\ UNCHANGED <<recent, lock, child>>
       \/ /\ Accepts
          /\ start[t] = "look"
          /\ Release(t)
          /\ recent' = recent \cup {sock}
       \/ /\ sock # NoServer
          /\ PingFails
          /\ From(t, "look", "clear")
          /\ UNCHANGED <<recent, lock, child>>
    /\ UNCHANGED <<server, stopping, fileVars, stop, client, kills, aborts>>

Clear(t) ==
    /\ From(t, "clear", "pid")
    /\ sock' = NoServer
    /\ pidFile' = NoServer
    /\ UNCHANGED <<serverVars, lock, child, stop, client, kills, aborts>>

\* A pid file is removed when its process is gone, and otherwise ignored.
CheckPid(t) ==
    /\ From(t, "pid", "spawn")
    /\ pidFile' = IF pidFile # NoServer /\ server[pidFile] = "off" THEN NoServer ELSE pidFile
    /\ UNCHANGED <<serverVars, sock, lock, child, stop, client, kills, aborts>>

Spawn(t) ==
    /\ From(t, "spawn", "write")
    /\ \E s \in Servers :
          /\ Free(s)
          /\ server' = [server EXCEPT ![s] = "ping"]
          /\ child' = [child EXCEPT ![t] = s]
    /\ UNCHANGED <<recent, stopping, fileVars, lock, stop, client, kills, aborts>>

WritePid(t) ==
    /\ From(t, "write", "poll")
    /\ pidFile' = child[t]
    /\ UNCHANGED <<serverVars, sock, lock, child, stop, client, kills, aborts>>

\* The attempts run out; a patient start meets this only without a child.
GivesUp(t) == Patient => server[child[t]] = "off"

\* Fault: the start polls for as long as it takes.
PollForever(t) ==
    /\ start[t] = "poll"
    /\ \/ sock # NoServer /\ Release(t)
       \/ sock = NoServer /\ UNCHANGED startVars
    /\ UNCHANGED <<serverVars, fileVars, stop, client, kills, aborts>>

\* The lock is held until the socket appears, or the attempts run out.
Poll(t) ==
    /\ start[t] = "poll"
    /\ sock # NoServer \/ GivesUp(t)
    /\ Release(t)
    /\ UNCHANGED <<serverVars, fileVars, stop, client, kills, aborts>>

\* The operating system releases the lock of a start that is killed.
AbortStart(t) ==
    /\ start[t] # "idle"
    /\ aborts < MaxAborts
    /\ aborts' = aborts + 1
    /\ start' = [start EXCEPT ![t] = "idle"]
    /\ child' = [child EXCEPT ![t] = NoServer]
    /\ lock' = IF lock = t THEN Nobody ELSE lock
    /\ UNCHANGED <<serverVars, fileVars, stop, client, kills>>

-----------------------------------------------------------------------------
(* loci server stop                                                        *)

WantStop(p) ==
    /\ stop[p] = "idle"
    /\ sock # NoServer
    /\ stop' = [stop EXCEPT ![p] = "connect"]
    /\ UNCHANGED <<serverVars, fileVars, startVars, client, kills, aborts>>

\* The stop request is sent, or the socket is taken for a stale one.
SendStop(p) ==
    /\ stop[p] = "connect"
    /\ stop' = [stop EXCEPT ![p] = "pid"]
    /\ \/ Accepts /\ stopping' = stopping \cup {sock} /\ UNCHANGED sock
       \/ ~Accepts /\ sock' = NoServer /\ UNCHANGED stopping
    /\ UNCHANGED <<server, recent, pidFile, startVars, client, kills, aborts>>

StopUnlinkPid(p) ==
    /\ stop[p] = "pid"
    /\ stop' = [stop EXCEPT ![p] = "idle"]
    /\ pidFile' = NoServer
    /\ UNCHANGED <<serverVars, sock, startVars, client, kills, aborts>>

-----------------------------------------------------------------------------
(* The embedder of another command                                         *)

\* It sends its text, or finds nobody to send it to and loads the model.
Request(c) ==
    /\ client[c] = "idle"
    /\ client' = [client EXCEPT ![c] = IF Accepts THEN sock ELSE "direct"]
    /\ UNCHANGED <<serverVars, fileVars, startVars, stop, kills, aborts>>

Answered(c) ==
    /\ client[c] \in Servers
    /\ server[client[c]] = "serving"
    /\ recent' = recent \cup {client[c]}
    /\ client' = [client EXCEPT ![c] = "idle"]
    /\ UNCHANGED <<server, stopping, fileVars, startVars, stop, kills, aborts>>

\* No answer within RECV_TIMEOUT, or the server went away: it loads the model.
Unanswered(c) ==
    /\ client[c] \in Servers
    /\ client' = [client EXCEPT ![c] = "direct"]
    /\ UNCHANGED <<serverVars, fileVars, startVars, stop, kills, aborts>>

\* Then it starts a server, with no lock and no pid file, if none is there.
StartInBackground(c) ==
    /\ client[c] = "direct"
    /\ client' = [client EXCEPT ![c] = "idle"]
    /\ \/ sock # NoServer /\ UNCHANGED server
       \/ /\ sock = NoServer
          /\ \E s \in Servers : Free(s) /\ server' = [server EXCEPT ![s] = "ping"]
    /\ UNCHANGED <<recent, stopping, fileVars, startVars, stop, kills, aborts>>

-----------------------------------------------------------------------------
Init ==
    /\ server = [s \in Servers |-> "off"]
    /\ recent = {}
    /\ stopping = {}
    /\ sock = NoServer
    /\ pidFile = NoServer
    /\ lock = Nobody
    /\ start = [t \in Starters |-> "idle"]
    /\ child = [t \in Starters |-> NoServer]
    /\ stop = [p \in Stoppers |-> "idle"]
    /\ client = [c \in Clients |-> "idle"]
    /\ kills = 0
    /\ aborts = 0

Serve(s) ==
    \/ PingFirst(s) \/ UnlinkStale(s) \/ Load(s) \/ Bind(s) \/ Listen(s)
    \/ Loop(s) \/ RemoveSocket(s) \/ RemovePid(s)

Start(t) ==
    \/ Look(t) \/ Clear(t) \/ CheckPid(t) \/ Spawn(t) \/ WritePid(t) \/ Poll(t)

Next ==
    \/ \E s \in Servers : Serve(s) \/ Terminate(s) \/ Kill(s)
    \/ \E t \in Starters : WantStart(t) \/ Acquire(t) \/ Start(t) \/ AbortStart(t)
    \/ \E p \in Stoppers : WantStop(p) \/ SendStop(p) \/ StopUnlinkPid(p)
    \/ \E c \in Clients : Request(c) \/ Answered(c) \/ Unanswered(c) \/ StartInBackground(c)

Spec == Init /\ [][Next]_vars

\* Every process takes its next step; flock wakes each waiter in the end;
\* session hooks go on calling `loci server start`.
FairSpec ==
    /\ Spec
    /\ \A s \in Servers : WF_vars(Serve(s))
    /\ \A t \in Starters :
          WF_vars(WantStart(t)) /\ SF_vars(Acquire(t)) /\ WF_vars(Start(t))

-----------------------------------------------------------------------------
(* Properties                                                              *)

Stage == {"off", "ping", "unlink", "load", "bind", "listen", "serving", "rmsock", "rmpid"}

TypeOK ==
    /\ server \in [Servers -> Stage]
    /\ recent \subseteq {s \in Servers : server[s] = "serving"}
    /\ stopping \subseteq {s \in Servers : server[s] = "serving"}
    /\ sock \in Servers \cup {NoServer}
    /\ pidFile \in Servers \cup {NoServer}
    /\ lock \in Starters \cup {Nobody}
    /\ start \in [Starters -> {"idle", "lock", "look", "clear", "pid", "spawn", "write", "poll"}]
    /\ child \in [Starters -> Servers \cup {NoServer}]
    /\ stop \in [Stoppers -> {"idle", "connect", "pid"}]
    /\ client \in [Clients -> Servers \cup {"idle", "direct"}]
    /\ kills \in 0..MaxKills
    /\ aborts \in 0..MaxAborts

Starting(s) == server[s] \in {"ping", "unlink", "load", "bind"}

\* Starts that overlap never have two servers loading the model at once: the
\* lock is held until the one that was spawned has bound its socket or is
\* gone (server_start). Only `start` spawns here, and a model loads in time.
OneServerStarting == \A s, u \in Servers : Starting(s) /\ Starting(u) => s = u

\* Whatever starts, stops and idle exits overlap, a server that ends by itself
\* leaves no file that leads nowhere: embedders, which start no server while
\* there is a socket, are not misled for ever.
SocketLeadsSomewhere ==
    sock # NoServer => server[sock] \in {"listen", "serving", "rmsock"}

\* A server that lost its socket to another ends: it cannot be reached, so it
\* idles out instead of holding a model in memory for ever.
OrphansEnd ==
    \A s \in Servers :
        (server[s] = "serving" /\ sock # s) ~> server[s] = "off"

\* Every `loci server start` returns, even when the server it spawned dies.
StartsReturn == \A t \in Starters : start[t] = "lock" ~> start[t] = "idle"

\* A socket that a killed server left behind is replaced.
StaleSocketReplaced ==
    \A s \in Servers :
        (sock = s /\ server[s] = "off") ~> ~(sock = s /\ server[s] = "off")
=============================================================================
