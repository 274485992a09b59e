---------------------------- MODULE IndexerDaemon ----------------------------
(***************************************************************************)
(* How clients and the indexer daemon find each other: the connection      *)
(* logic of src/core/indexer-client.ts and the life of a daemon process in *)
(* crates/apohara-indexer/src/server.rs.  They share two things on disk:   *)
(* the socket file, and the database file that redb locks for the process  *)
(* that has it open.                                                       *)
(*                                                                         *)
(* Time is abstract: a timer that is armed may fire at any later step.     *)
(* Every connect() makes a socket of its own, and the handlers of all of   *)
(* them, the late "close" of a destroyed one included, act on the one      *)
(* state, socket and connectResolver of the client.                        *)
(***************************************************************************)
EXTENDS Naturals, FiniteSets

CONSTANTS
  Client,       \* IndexerClient objects, each in a process of its own
  NDaemon,      \* bound on the daemon processes spawned
  Request,      \* requests
  Timer,        \* reconnect timers: a bound on those in use at a time
  Owner,        \* the client that a request or a timer belongs to
  MaxReconnect, \* MAX_RECONNECT_ATTEMPTS
  MaxKill       \* bound on daemons that die without cleaning up

Nobody == 0
NoCall == "no call"
Daemon == 1 .. NDaemon
Call   == Request \cup Timer   \* who may call connect(), and own a socket

ASSUME DaemonAssumption ==
  /\ MaxReconnect \in Nat
  /\ MaxKill \in Nat
  /\ NDaemon \in Nat
  /\ NoCall \notin Call
  /\ Request \cap Timer = {}
  /\ Owner \in [Call -> Client]

VARIABLES
  socketFile, \* the daemon whose listener the socket file leads to, if it exists
  dstate,     \* where a daemon process is
  killed,     \* daemons that died without cleaning up
  cstate,     \* the connection state of a client
  dial,       \* where a connect() is, up to its attemptConnection
  link,       \* the socket that a connect() has made
  far,        \* the daemon at the other end of it
  sock,       \* this.socket: the connect() that made it
  resolver,   \* connectResolver: the connect() whose promise it settles
  attempts,   \* reconnectAttempts
  proc,       \* the daemon the client spawned last
  status,     \* what became of a request
  via,        \* the socket that carries the request
  stranded    \* history: requests whose connectResolver was lost

daemonVars == <<socketFile, dstate, killed>>
sockVars == <<link, far, sock, resolver, stranded>>
requestVars == <<status, via>>
clientVars == <<cstate, dial, sockVars, attempts, proc, requestVars>>
connVars == <<daemonVars, clientVars>>

DState == {"unborn", "starting", "opened", "listening", "closing", "exiting", "dead"}
CState == {"disconnected", "connecting", "connected", "reconnecting", "gone"}
Dial   == {"none", "armed", "check", "wait"}
Link   == {"none", "opening", "open", "closing"}
Status == {"new", "dialing", "sent", "ok", "err", "lost"}
Alive(d) == dstate[d] \notin {"unborn", "dead"}

DaemonTypeOK ==
  /\ socketFile \in Daemon \cup {Nobody}
  /\ dstate \in [Daemon -> DState]
  /\ killed \in SUBSET Daemon
  /\ cstate \in [Client -> CState]
  /\ dial \in [Call -> Dial]
  /\ link \in [Call -> Link]
  /\ far \in [Call -> Daemon \cup {Nobody}]
  /\ sock \in [Client -> Call \cup {NoCall}]
  /\ resolver \in [Client -> Call \cup {NoCall}]
  /\ attempts \in [Client -> 0 .. MaxReconnect]
  /\ proc \in [Client -> Daemon \cup {Nobody}]
  /\ status \in [Request -> Status]
  /\ via \in [Request -> Call \cup {NoCall}]
  /\ stranded \in SUBSET Request

DaemonInit ==
  /\ socketFile = Nobody
  /\ dstate = [d \in Daemon |-> "unborn"]
  /\ killed = {}
  /\ cstate = [c \in Client |-> "disconnected"]
  /\ dial = [x \in Call |-> "none"]
  /\ link = [x \in Call |-> "none"]
  /\ far = [x \in Call |-> Nobody]
  /\ sock = [c \in Client |-> NoCall]
  /\ resolver = [c \in Client |-> NoCall]
  /\ attempts = [c \in Client |-> 0]
  /\ proc = [c \in Client |-> Nobody]
  /\ status = [r \in Request |-> "new"]
  /\ via = [r \in Request |-> NoCall]
  /\ stranded = {}

Set(f, c, v) == f' = [f EXCEPT ![c] = v]

-----------------------------------------------------------------------------
(***************************************************************************)
(* The client: sendRequest and connect.                                    *)
(***************************************************************************)

\* The part of connect() before its first await, for a caller that found the
\* client neither connected nor connecting.
BeginConnect(c, x) == Set(cstate, c, "connecting") /\ Set(dial, x, "check")

\* The promise of a request is settled.
Settle(r, v) == Set(status, r, v) /\ Set(via, r, NoCall)

\* Writing the request on this.socket, whichever connect() made that: there may
\* be none, and a write to one that is closed may fail at once or go unanswered.
Write(c, r) ==
  IF sock[c] = NoCall THEN Settle(r, "err")
  ELSE \/ Set(status, r, "sent") /\ Set(via, r, sock[c])
       \/ /\ \/ link[sock[c]] \in {"none", "closing"}
             \/ link[sock[c]] = "open" /\ ~Alive(far[sock[c]])
          /\ Settle(r, "err")

\* sendRequest: it connects first when needed, and fails at once while
\* another connect() is under way.
SendRequest(c, r) ==
  /\ status[r] = "new" /\ cstate[c] # "gone"
  /\ CASE cstate[c] = "connected" ->
            Write(c, r) /\ UNCHANGED <<cstate, dial>>
       [] cstate[c] = "connecting" ->
            Settle(r, "err") /\ UNCHANGED <<cstate, dial>>
       [] OTHER ->
            /\ BeginConnect(c, r)
            /\ Set(status, r, "dialing")
            /\ UNCHANGED via
  /\ UNCHANGED <<daemonVars, sockVars, attempts, proc>>

\* attemptConnection: a socket that becomes this.socket, and a resolver that
\* overwrites the one of a connect() that still waits.
AttemptConnection(c, x) ==
  /\ Set(dial, x, "none")
  /\ Set(link, x, "opening")
  /\ Set(sock, c, x)
  /\ Set(resolver, c, x)
  /\ stranded' = stranded \cup ({resolver[c]} \cap Request)
  /\ UNCHANGED <<daemonVars, cstate, far, attempts, proc, requestVars>>

\* checkSocketExists found the file.
SocketExists(c, x) ==
  /\ dial[x] = "check" /\ socketFile # Nobody
  /\ AttemptConnection(c, x)

\* It did not: spawnDaemon, which resolves after a fixed delay whether or not
\* the daemon is ready.
SpawnDaemon(c, x, d) ==
  /\ dial[x] = "check" /\ socketFile = Nobody
  /\ dstate[d] = "unborn" /\ \A e \in 1 .. d - 1 : dstate[e] # "unborn"
  /\ Set(dstate, d, "starting")
  /\ Set(proc, c, d)
  /\ Set(dial, x, "wait")
  /\ UNCHANGED <<socketFile, killed, cstate, sockVars, attempts, requestVars>>

SpawnWaited(c, x) ==
  /\ dial[x] = "wait"
  /\ AttemptConnection(c, x)

\* The directory cannot be made: connect() rejects, and the state stays
\* "connecting" although nothing is under way.
SpawnFails(c, x) ==
  /\ x \in Request
  /\ dial[x] = "check" /\ socketFile = Nobody
  /\ Set(dial, x, "none")
  /\ Settle(x, "err")
  /\ UNCHANGED <<daemonVars, cstate, sockVars, attempts, proc>>

\* The binary cannot be started and nobody listens to the event "error", or the
\* reconnect timer gets the rejection and nobody handles it: the process of the
\* client ends, and its requests and sockets with it.
ProcessEnds(c, x) ==
  /\ dial[x] = "check" /\ socketFile = Nobody
  /\ Set(cstate, c, "gone")
  /\ dial' = [y \in Call |-> IF Owner[y] = c THEN "none" ELSE dial[y]]
  /\ link' = [y \in Call |-> IF Owner[y] = c THEN "none" ELSE link[y]]
  /\ status' = [r \in Request |->
       IF Owner[r] = c /\ status[r] \in {"dialing", "sent"} THEN "lost" ELSE status[r]]
  /\ UNCHANGED <<daemonVars, far, sock, resolver, stranded, attempts, proc, via>>

SomebodyListens ==
  socketFile # Nobody /\ dstate[socketFile] \in {"listening", "closing"}

\* The event "connect" of any of the sockets settles the promise of the last
\* connect(), whose request goes on.  A listening socket takes connections even
\* before the daemon accepts them.
Connected(c, x) ==
  /\ link[x] = "opening" /\ SomebodyListens
  /\ Set(link, x, "open")
  /\ Set(far, x, socketFile)
  /\ Set(cstate, c, "connected")
  /\ Set(attempts, c, 0)
  /\ Set(resolver, c, NoCall)
  /\ IF resolver[c] \in Request
     THEN IF sock[c] = x
          THEN Set(status, resolver[c], "sent") /\ Set(via, resolver[c], x)
          ELSE Write(c, resolver[c])
     ELSE UNCHANGED requestVars
  /\ UNCHANGED <<daemonVars, dial, sock, stranded, proc>>

\* The timers that may be armed: none of their earlier life is left.
FreeTimers(c) ==
  {t \in Timer : /\ Owner[t] = c /\ dial[t] = "none" /\ link[t] = "none"
                 /\ resolver[c] # t
                 /\ \A r \in Request : ~(status[r] = "sent" /\ via[r] = t)}

\* handleDisconnection with scheduleReconnect.  A bound of the model: with every
\* timer in use, the reconnection is announced and never comes.
HandleDisconnection(c) ==
  CASE cstate[c] \notin {"connected", "connecting"} ->
         UNCHANGED <<cstate, attempts, dial>>
    [] cstate[c] \in {"connected", "connecting"} /\ attempts[c] >= MaxReconnect ->
         Set(cstate, c, "disconnected") /\ UNCHANGED <<attempts, dial>>
    [] OTHER ->
         /\ Set(attempts, c, attempts[c] + 1)
         /\ Set(cstate, c, "reconnecting")
         /\ IF FreeTimers(c) = {} THEN UNCHANGED dial
            ELSE \E t \in FreeTimers(c) : Set(dial, t, "armed")

\* When the event "error" may come: nobody listens behind the file, or the daemon
\* at the other end is gone.
Fails(x) == \/ link[x] = "opening" /\ ~SomebodyListens
            \/ link[x] = "open" /\ ~Alive(far[x])

\* Mutant: the event "error" schedules a reconnection but forgets the caller.
SocketErrorQuiet(c, x) ==
  /\ Fails(x)
  /\ Set(link, x, "closing")
  /\ HandleDisconnection(c)
  /\ Set(resolver, c, NoCall)
  /\ UNCHANGED <<daemonVars, far, sock, stranded, proc, requestVars>>

\* The event "error" of any of the sockets: the last connect() resolves to false
\* and its request fails.  The event "close" follows.
SocketError(c, x) ==
  /\ Fails(x)
  /\ Set(link, x, "closing")
  /\ HandleDisconnection(c)
  /\ Set(resolver, c, NoCall)
  /\ IF resolver[c] \in Request THEN Settle(resolver[c], "err") ELSE UNCHANGED requestVars
  /\ UNCHANGED <<daemonVars, far, sock, stranded, proc>>

\* The event "close": of a socket that failed, of a connection the daemon has
\* left, or of a socket that disconnect() destroyed some time ago.
Closed(c, x) ==
  /\ link[x] = "closing" \/ (link[x] = "open" /\ ~Alive(far[x]))
  /\ Set(link, x, "none")
  /\ HandleDisconnection(c)
  /\ UNCHANGED <<daemonVars, far, sock, resolver, stranded, proc, requestVars>>

\* The reconnect timer calls connect(), which returns at once if another
\* caller has connected meanwhile.
ReconnectTimer(c, t) ==
  /\ dial[t] = "armed"
  /\ IF cstate[c] \in {"connected", "connecting"}
     THEN Set(dial, t, "none") /\ UNCHANGED cstate
     ELSE BeginConnect(c, t)
  /\ UNCHANGED <<daemonVars, sockVars, attempts, proc, requestVars>>

-----------------------------------------------------------------------------
(***************************************************************************)
(* Answers.                                                                *)
(***************************************************************************)

Answerable(r) ==
  /\ status[r] = "sent" /\ link[via[r]] = "open"
  /\ dstate[far[via[r]]] \in {"listening", "closing"}

\* handle_connection answers line by line and handleData resolves the pending
\* request with the id of the answer, or rejects it with its error.
Answered(r) ==
  /\ Answerable(r)
  /\ \E v \in {"ok", "err"} : Settle(r, v)
  /\ UNCHANGED <<daemonVars, cstate, dial, sockVars, attempts, proc>>

\* The answer to "shutdown", which the daemon itself ignores: disconnect()
\* clears the last timer, unless it has fired, destroys this.socket, whose event
\* "close" is still to come, and kills the process this client spawned.
ShutdownAnswered(c, r) ==
  /\ Answerable(r)
  /\ Settle(r, "ok")
  /\ \/ UNCHANGED dial
     \/ \E t \in Timer : Owner[t] = c /\ dial[t] = "armed" /\ Set(dial, t, "none")
  /\ link' = [x \in Call |-> IF x = sock[c] /\ link[x] # "none" THEN "closing" ELSE link[x]]
  /\ stranded' = IF sock[c] = resolver[c] THEN stranded \cup ({resolver[c]} \cap Request)
                 ELSE stranded
  /\ Set(sock, c, NoCall)
  /\ Set(cstate, c, "disconnected")
  /\ IF proc[c] # Nobody /\ Alive(proc[c])
     THEN Set(dstate, proc[c], "dead") /\ killed' = killed \cup {proc[c]}
     ELSE UNCHANGED <<dstate, killed>>
  /\ UNCHANGED <<socketFile, far, resolver, attempts, proc>>

\* Nothing rejects a request whose connection was lost or whose answer came in
\* two chunks, each of which fails to parse: only the 30 s timer does.
RequestTimeout(r) ==
  /\ status[r] = "sent"
  /\ Settle(r, "err")
  /\ UNCHANGED <<daemonVars, cstate, dial, sockVars, attempts, proc>>

-----------------------------------------------------------------------------
(***************************************************************************)
(* The daemon: run_server and Server::run.                                 *)
(***************************************************************************)

HasDb(d) == dstate[d] \in {"opened", "listening", "closing", "exiting"}

\* Indexer::new comes first: it opens the database, which fails while another
\* process has it open.
OpenDb(d) ==
  /\ dstate[d] = "starting"
  /\ Set(dstate, d, IF \E e \in Daemon : HasDb(e) THEN "dead" ELSE "opened")
  /\ UNCHANGED <<socketFile, killed, clientVars>>

\* A socket file that is already there is removed before the bind.
Bind(d) ==
  /\ dstate[d] = "opened"
  /\ socketFile' = d
  /\ Set(dstate, d, "listening")
  /\ UNCHANGED <<killed, clientVars>>

\* The inactivity monitor sets the flag: no request line for 30 minutes, so
\* no client, which waits 30 seconds at most, still expects an answer.
GoIdle(d) ==
  /\ dstate[d] = "listening"
  /\ \A r \in Request : ~(status[r] = "sent" /\ link[via[r]] = "open" /\ far[via[r]] = d)
  /\ Set(dstate, d, "closing")
  /\ UNCHANGED <<socketFile, killed, clientVars>>

\* Mutant: the database is closed before the socket file is removed.
CloseDbFirst(d) ==
  /\ \/ /\ dstate[d] = "closing"
        /\ Set(dstate, d, "dead")
        /\ UNCHANGED socketFile
     \/ /\ dstate[d] = "dead" /\ d \notin killed
        /\ socketFile' = Nobody
        /\ UNCHANGED dstate
  /\ UNCHANGED <<killed, clientVars>>

\* The accept loop sees the flag: the socket file is removed, whoever owns it.
RemoveSocket(d) ==
  /\ dstate[d] = "closing"
  /\ socketFile' = Nobody
  /\ Set(dstate, d, "exiting")
  /\ UNCHANGED <<killed, clientVars>>

\* run_server returns; the database is closed with the process.
Exit(d) ==
  /\ dstate[d] = "exiting"
  /\ Set(dstate, d, "dead")
  /\ UNCHANGED <<socketFile, killed, clientVars>>

\* The process dies at any point, without cleaning up.
Kill(d) ==
  /\ Alive(d) /\ Cardinality(killed) < MaxKill
  /\ Set(dstate, d, "dead")
  /\ killed' = killed \cup {d}
  /\ UNCHANGED <<socketFile, clientVars>>

CallStep(c, x) ==
  \/ SocketExists(c, x) \/ SpawnWaited(c, x) \/ SpawnFails(c, x) \/ ProcessEnds(c, x)
  \/ \E d \in Daemon : SpawnDaemon(c, x, d)
  \/ Connected(c, x) \/ SocketError(c, x) \/ Closed(c, x)
  \/ ReconnectTimer(c, x)

DaemonStep(d) == OpenDb(d) \/ Bind(d) \/ RemoveSocket(d) \/ Exit(d)

DaemonNext ==
  \/ \E x \in Call : CallStep(Owner[x], x)
  \/ \E r \in Request : \/ SendRequest(Owner[r], r)
                        \/ Answered(r)
                        \/ ShutdownAnswered(Owner[r], r)
                        \/ RequestTimeout(r)
  \/ \E d \in Daemon : DaemonStep(d) \/ GoIdle(d) \/ Kill(d)

\* Timers fire, callbacks run and processes are scheduled.
DaemonFairness ==
  /\ \A x \in Call : WF_connVars(CallStep(Owner[x], x))
  /\ \A r \in Request : WF_connVars(RequestTimeout(r))
  /\ \A d \in Daemon : WF_connVars(DaemonStep(d))

DaemonSpec == DaemonInit /\ [][DaemonNext]_connVars /\ DaemonFairness

-----------------------------------------------------------------------------
(***************************************************************************)
(* Properties.                                                             *)
(***************************************************************************)

\* The socket file tells the truth.  A daemon that listens can be reached: no
\* daemon that comes or goes takes its file away, because the database lock
\* outlives the clean-up.  And a file nobody listens behind, which no client ever
\* replaces because it spawns only when there is none, is left only by a daemon
\* that was killed: every orderly end cleans up.
SocketFileTruthful ==
  /\ \A d \in Daemon : dstate[d] = "listening" => socketFile = d
  /\ socketFile # Nobody /\ dstate[socketFile] \in {"exiting", "dead"}
       => socketFile \in killed

\* Every request is settled: a dial that fails, a connection that breaks, a
\* daemon that dies or an answer that is lost all end in an error.  There are two
\* exceptions: the process ends first, or the connectResolver that the request
\* waits for is lost.  The latter happens when two connect() overlap, which a late
\* event "close" brings about (it turns a new "connecting" into "reconnecting",
\* where the next request dials again and overwrites the resolver), or when
\* disconnect() destroys the socket before it has opened.
EveryRequestSettles ==
  \A r \in Request :
    (status[r] \in {"dialing", "sent"}) ~>
      (status[r] \in {"ok", "err", "lost"} \/ r \in stranded)

=============================================================================
