-------------------------- MODULE EmbedServerProofs --------------------------
(***************************************************************************)
(* Proofs about EmbedServer, for any number of servers, starts, stops and  *)
(* embedders and every bound: type correctness; one server loading at a    *)
(* time while only `loci server start` spawns servers; and no socket file  *)
(* left behind by servers that end by themselves.                          *)
(***************************************************************************)
EXTENDS EmbedServer, TLAPS

-----------------------------------------------------------------------------
(* Types                                                                   *)

LEMMA ServeTypes ==
  ASSUME TypeOK, NEW s \in Servers, Serve(s)
  PROVE  TypeOK'
<1> USE DEF TypeOK, Stage, At, fileVars, startVars
<1>1. CASE PingFirst(s)
  BY <1>1, EmbedAssumption DEF PingFirst, Accepts
<1>2. CASE UnlinkStale(s)
  BY <1>2 DEF UnlinkStale
<1>3. CASE Load(s)
  BY <1>3 DEF Load
<1>4. CASE Bind(s)
  BY <1>4 DEF Bind
<1>5. CASE Listen(s)
  BY <1>5 DEF Listen
<1>6. CASE Loop(s)
  BY <1>6 DEF Loop
<1>7. CASE RemoveSocket(s)
  BY <1>7 DEF RemoveSocket, SocketAfterExit
<1>8. CASE RemovePid(s)
  BY <1>8 DEF RemovePid
<1> QED BY <1>1, <1>2, <1>3, <1>4, <1>5, <1>6, <1>7, <1>8 DEF Serve

LEMMA StartTypes ==
  ASSUME TypeOK, NEW t \in Starters, WantStart(t) \/ Acquire(t) \/ Start(t) \/ AbortStart(t)
  PROVE  TypeOK'
<1> USE DEF TypeOK, Stage, From, Release, serverVars, fileVars, startVars
<1>1. CASE WantStart(t)
  BY <1>1 DEF WantStart
<1>2. CASE Acquire(t)
  BY <1>2 DEF Acquire
<1>3. CASE Look(t)
  BY <1>3, EmbedAssumption DEF Look, Accepts
<1>4. CASE Clear(t)
  BY <1>4 DEF Clear
<1>5. CASE CheckPid(t)
  BY <1>5 DEF CheckPid
<1>6. CASE Spawn(t)
  BY <1>6 DEF Spawn, Free
<1>7. CASE WritePid(t)
  BY <1>7 DEF WritePid
<1>8. CASE Poll(t)
  BY <1>8 DEF Poll
<1>9. CASE AbortStart(t)
  BY <1>9, EmbedAssumption DEF AbortStart
<1> QED BY <1>1, <1>2, <1>3, <1>4, <1>5, <1>6, <1>7, <1>8, <1>9 DEF Start

\* Every reachable state is well typed; above all, only a server in its accept
\* loop has a stop event to see or a request to have answered (run_server).
THEOREM TypeCorrect == Spec => []TypeOK
<1>1. Init => TypeOK
  BY EmbedAssumption DEF Init, TypeOK, Stage
<1>2. TypeOK /\ [Next]_vars => TypeOK'
  <2> SUFFICES ASSUME TypeOK, [Next]_vars PROVE TypeOK'
    OBVIOUS
  <2> USE DEF TypeOK, Stage, serverVars, fileVars, startVars
  <2>1. ASSUME NEW s \in Servers, Terminate(s) PROVE TypeOK'
    BY <2>1 DEF Terminate
  <2>2. ASSUME NEW s \in Servers, Kill(s) PROVE TypeOK'
    BY <2>2, EmbedAssumption DEF Kill
  <2>3. ASSUME NEW p \in Stoppers, WantStop(p) PROVE TypeOK'
    BY <2>3 DEF WantStop
  <2>4. ASSUME NEW p \in Stoppers, SendStop(p) PROVE TypeOK'
    BY <2>4 DEF SendStop, Accepts
  <2>5. ASSUME NEW p \in Stoppers, StopUnlinkPid(p) PROVE TypeOK'
    BY <2>5 DEF StopUnlinkPid
  <2>6. ASSUME NEW c \in Clients, Request(c) \/ Answered(c) \/ Unanswered(c) PROVE TypeOK'
    BY <2>6, EmbedAssumption DEF Request, Answered, Unanswered, Accepts
  <2>7. ASSUME NEW c \in Clients, StartInBackground(c) PROVE TypeOK'
    BY <2>7 DEF StartInBackground, Free
  <2>8. CASE UNCHANGED vars
    BY <2>8 DEF vars
  <2> QED BY <2>1, <2>2, <2>3, <2>4, <2>5, <2>6, <2>7, <2>8, ServeTypes, StartTypes DEF Next
<1> QED BY <1>1, <1>2, PTL DEF Spec

-----------------------------------------------------------------------------
(* The socket file                                                         *)

\* While no server is killed, the file at the path leads to a server between
\* its bind and its unlink, whatever starts, stops and embedders do to it:
\* run_server removes the file on every way out.
THEOREM NoDeadSocket == MaxKills = 0 => (Spec => []SocketLeadsSomewhere)
<1> SUFFICES ASSUME MaxKills = 0 PROVE Spec => []SocketLeadsSomewhere
  OBVIOUS
<1>1. Init => SocketLeadsSomewhere
  BY DEF Init, SocketLeadsSomewhere
<1>2. TypeOK /\ SocketLeadsSomewhere /\ [Next]_vars => SocketLeadsSomewhere'
  <2> SUFFICES ASSUME TypeOK, SocketLeadsSomewhere, [Next]_vars PROVE SocketLeadsSomewhere'
    OBVIOUS
  <2> USE EmbedAssumption
      DEF TypeOK, SocketLeadsSomewhere, At, From, Release, serverVars, fileVars, startVars
  <2>1. ASSUME NEW s \in Servers, Serve(s) PROVE SocketLeadsSomewhere'
    <3>1. CASE PingFirst(s)
      BY <3>1 DEF PingFirst
    <3>2. CASE UnlinkStale(s)
      BY <3>2 DEF UnlinkStale
    <3>3. CASE Load(s)
      BY <3>3 DEF Load
    <3>4. CASE Bind(s)
      BY <3>4 DEF Bind
    <3>5. CASE Listen(s)
      BY <3>5 DEF Listen
    <3>6. CASE Loop(s)
      BY <3>6 DEF Loop
    <3>7. CASE RemoveSocket(s)
      BY <3>7 DEF RemoveSocket, SocketAfterExit
    <3>8. CASE RemovePid(s)
      BY <3>8 DEF RemovePid
    <3> QED BY <2>1, <3>1, <3>2, <3>3, <3>4, <3>5, <3>6, <3>7, <3>8 DEF Serve
  <2>2. ASSUME NEW s \in Servers, Terminate(s) \/ Kill(s) PROVE SocketLeadsSomewhere'
    BY <2>2 DEF Terminate, Kill
  <2>3. ASSUME NEW t \in Starters, WantStart(t) \/ Acquire(t) \/ AbortStart(t)
        PROVE  SocketLeadsSomewhere'
    BY <2>3 DEF WantStart, Acquire, AbortStart
  <2>4. ASSUME NEW t \in Starters, Start(t) PROVE SocketLeadsSomewhere'
    <3>1. CASE Spawn(t)
      BY <3>1 DEF Spawn, Free
    <3>2. CASE Clear(t)
      BY <3>2 DEF Clear
    <3>3. CASE Look(t) \/ CheckPid(t) \/ WritePid(t) \/ Poll(t)
      BY <3>3 DEF Look, CheckPid, WritePid, Poll
    <3> QED BY <2>4, <3>1, <3>2, <3>3 DEF Start
  <2>5. ASSUME NEW p \in Stoppers, WantStop(p) \/ SendStop(p) \/ StopUnlinkPid(p)
        PROVE  SocketLeadsSomewhere'
    BY <2>5 DEF WantStop, SendStop, StopUnlinkPid
  <2>6. ASSUME NEW c \in Clients, Request(c) \/ Answered(c) \/ Unanswered(c) \/ StartInBackground(c)
        PROVE  SocketLeadsSomewhere'
    BY <2>6 DEF Request, Answered, Unanswered, StartInBackground, Free
  <2>7. CASE UNCHANGED vars
    BY <2>7 DEF vars
  <2> QED BY <2>1, <2>2, <2>3, <2>4, <2>5, <2>6, <2>7 DEF Next
<1> QED BY <1>1, <1>2, TypeCorrect, PTL DEF Spec

-----------------------------------------------------------------------------
(* The lock of `loci server start`                                         *)

\* A start past its lock holds it.
StartsLocked == \A t \in Starters : start[t] \notin {"idle", "lock"} => lock = t

\* A server that loads is the child of a start that waits for it, and no
\* socket is at the path then, nor when a start is about to spawn.
StartingWatched ==
    /\ \A s \in Servers : Starting(s) =>
          /\ sock = NoServer
          /\ \E t \in Starters : child[t] = s /\ start[t] \in {"write", "poll"}
    /\ \A t \in Starters : start[t] \in {"pid", "spawn"} => sock = NoServer

LockInv == StartsLocked /\ StartingWatched

\* The steps of servers: a bind ends the loading, and the only server that
\* may bind is the one a start waits for.
LEMMA ServeKeepsLock ==
  ASSUME TypeOK, LockInv, NEW s \in Servers, Serve(s) \/ Terminate(s) \/ Kill(s)
  PROVE  LockInv'
<1> USE DEF TypeOK, LockInv, StartsLocked, StartingWatched, Starting, At, fileVars, startVars
<1>1. CASE PingFirst(s)
  BY <1>1, EmbedAssumption DEF PingFirst, Accepts
<1>2. CASE UnlinkStale(s)
  BY <1>2 DEF UnlinkStale
<1>3. CASE Load(s)
  BY <1>3 DEF Load
<1>4. CASE Bind(s)
  <2>1. CASE sock # NoServer
    BY <1>4, <2>1 DEF Bind
  <2>2. CASE sock = NoServer
    <3>1. PICK t \in Starters : child[t] = s /\ start[t] \in {"write", "poll"}
      BY <1>4 DEF Bind
    <3>2. \A u \in Servers : Starting(u) => u = s
      BY <3>1
    <3>3. \A u \in Starters : start[u] \notin {"pid", "spawn"}
      BY <3>1
    <3> QED BY <1>4, <2>2, <3>2, <3>3 DEF Bind
  <2> QED BY <2>1, <2>2
<1>5. CASE Listen(s)
  BY <1>5 DEF Listen
<1>6. CASE Loop(s)
  BY <1>6 DEF Loop
<1>7. CASE RemoveSocket(s)
  BY <1>7 DEF RemoveSocket, SocketAfterExit
<1>8. CASE RemovePid(s)
  BY <1>8 DEF RemovePid
<1>9. CASE Terminate(s) \/ Kill(s)
  BY <1>9 DEF Terminate, Kill
<1> QED BY <1>1, <1>2, <1>3, <1>4, <1>5, <1>6, <1>7, <1>8, <1>9 DEF Serve

\* The steps of starts: one that lets the lock go leaves nobody loading.
LEMMA StartKeepsLock ==
  ASSUME TypeOK, LockInv, Patient, NEW t \in Starters, WantStart(t) \/ Acquire(t) \/ Start(t)
  PROVE  LockInv'
<1> USE EmbedAssumption
    DEF TypeOK, LockInv, StartsLocked, StartingWatched, Starting, From, Release,
        serverVars, fileVars, startVars
<1>1. CASE WantStart(t)
  BY <1>1 DEF WantStart
<1>2. CASE Acquire(t)
  BY <1>2 DEF Acquire, LockFree
<1>3. CASE Look(t)
  BY <1>3 DEF Look
<1>4. CASE Clear(t)
  BY <1>4 DEF Clear
<1>5. CASE CheckPid(t)
  BY <1>5 DEF CheckPid
<1>6. CASE Spawn(t)
  BY <1>6 DEF Spawn, Free
<1>7. CASE WritePid(t)
  BY <1>7 DEF WritePid
<1>8. CASE Poll(t)
  <2>1. \A s \in Servers : ~Starting(s)
    <3>1. CASE sock # NoServer
      BY <3>1
    <3>2. CASE server[child[t]] = "off"
      BY <1>8, <3>2 DEF Poll
    <3> QED BY <1>8, <3>1, <3>2 DEF Poll, GivesUp
  <2> QED BY <1>8, <2>1 DEF Poll
<1> QED BY <1>1, <1>2, <1>3, <1>4, <1>5, <1>6, <1>7, <1>8 DEF Start

\* When only `loci server start` spawns servers, models load in time and no
\* start is killed, no two servers load the model at once: server_start keeps
\* server.lock until its child has bound the socket or is gone.
THEOREM OneLoads ==
  Clients = {} /\ Patient /\ MaxAborts = 0 => (Spec => []OneServerStarting)
<1> SUFFICES ASSUME Clients = {}, Patient, MaxAborts = 0 PROVE Spec => []OneServerStarting
  OBVIOUS
<1>1. Init => LockInv
  BY DEF Init, LockInv, StartsLocked, StartingWatched, Starting
<1>2. TypeOK /\ LockInv /\ [Next]_vars => LockInv'
  <2> SUFFICES ASSUME TypeOK, LockInv, [Next]_vars PROVE LockInv'
    OBVIOUS
  <2> USE DEF LockInv, StartsLocked, StartingWatched, Starting, serverVars, fileVars, startVars
  <2>1. ASSUME NEW t \in Starters PROVE ~AbortStart(t)
    BY EmbedAssumption DEF AbortStart, TypeOK
  <2>2. ASSUME NEW p \in Stoppers, WantStop(p) \/ SendStop(p) \/ StopUnlinkPid(p)
        PROVE  LockInv'
    BY <2>2 DEF WantStop, SendStop, StopUnlinkPid
  <2>3. CASE UNCHANGED vars
    BY <2>3 DEF vars
  <2> QED BY <2>1, <2>2, <2>3, ServeKeepsLock, StartKeepsLock DEF Next
<1>3. TypeOK /\ LockInv => OneServerStarting
  BY DEF LockInv, StartsLocked, StartingWatched, OneServerStarting
<1> QED BY <1>1, <1>2, <1>3, TypeCorrect, PTL DEF Spec
=============================================================================
