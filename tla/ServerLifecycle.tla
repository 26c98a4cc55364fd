--------------------------- MODULE ServerLifecycle ---------------------------
(***************************************************************************)
(* The life of the broker process (cmd/server): main starts the            *)
(* application, waits for a signal and stops it, with thirty seconds for   *)
(* all of it. Around main run the goroutines that Stop must deal with: the *)
(* HTTP and the metrics server, three background goroutines, the workers   *)
(* of the acknowledgment service, the requests in progress and the         *)
(* WebSocket connections, which the HTTP server forgets once they are      *)
(* hijacked.                                                               *)
(*                                                                         *)
(* Abstractions: what a request or a worker does is the matter of the      *)
(* other modules; elapsed time is nondeterministic (the thirty seconds may *)
(* be over at any time after the signal). Connection.Close is taken to     *)
(* work: WebSocketServer is about how it does not.                         *)
(***************************************************************************)
EXTENDS Naturals, FiniteSets

CONSTANTS
  Requests,  \* bound: requests that reach one of the servers
  Sockets,   \* bound: requests to be upgraded to a WebSocket connection
  Tracing    \* config.Tracing.Enabled

ASSUME LifecycleAssumption ==
  /\ Requests \cap Sockets = {}
  /\ Tracing \in BOOLEAN

VARIABLES
  main,       \* where main is
  exit,       \* how the process ended, "none" while it runs
  cancelled,  \* the context made by Start is cancelled
  expired,    \* shutdownCtx: the thirty seconds are over
  failed,     \* shutdownErrors is not empty
  wg,         \* Application.wg
  announced,  \* which way the wait for wg ended
  server,     \* the goroutine of each http.Server
  door,       \* whether connections to the server can be made, or still exist
  background, \* the goroutines of startBackgroundWorkers
  workers,    \* service.workers: the acknowledgment workers that can be stopped
  worker,     \* the goroutine of each acknowledgment worker
  request,    \* where each request is: the server that serves it
  socket,     \* where HandleWebSocket is with each connection
  late        \* history: connections registered after wsServer.Shutdown

stopping == <<exit, cancelled, expired, failed, announced>>
goroutines == <<server, background, worker>>
clients == <<request, socket, late>>
vars == <<main, stopping, wg, goroutines, door, workers, clients>>
-----------------------------------------------------------------------------
Servers == {"http", "metrics"}
Background == {"subscription", "acknowledgment", "collection"}
AckWorkers == {"expiration_checker", "retry_processor", "pending_cleaner"}

Steps ==
  {"new", "start", "running", "cancel", "http", "drainHttp", "metrics",
   "drainMetrics", "websocket", "ackWorkers", "wait", "redis", "tracer", "exit"}

TypeOK ==
  /\ main \in Steps
  /\ exit \in {"none", "fatal", "error", "graceful"}
  /\ cancelled \in BOOLEAN /\ expired \in BOOLEAN /\ failed \in BOOLEAN
  /\ wg \in Nat
  /\ announced \in {"nothing", "stopped", "timeout"}
  /\ server \in [Servers -> {"none", "starting", "listening", "ended"}]
  /\ door \in [Servers -> {"closed", "open", "closing", "shut"}]
  /\ background \in [Background -> {"none", "running", "ended"}]
  /\ workers \subseteq AckWorkers
  /\ worker \in [AckWorkers -> {"none", "waiting", "working", "ended"}]
  /\ request \in [Requests -> {"none", "answered"} \cup Servers]
  /\ socket \in [Sockets -> {"none", "upgrading", "hijacked", "open", "closed"}]
  /\ late \subseteq Sockets

Init ==
  /\ main = "new"
  /\ exit = "none"
  /\ cancelled = FALSE /\ expired = FALSE /\ failed = FALSE
  /\ wg = 0
  /\ announced = "nothing"
  /\ server = [s \in Servers |-> "none"]
  /\ door = [s \in Servers |-> "closed"]
  /\ background = [b \in Background |-> "none"]
  /\ workers = {}
  /\ worker = [w \in AckWorkers |-> "none"]
  /\ request = [r \in Requests |-> "none"]
  /\ socket = [k \in Sockets |-> "none"]
  /\ late = {}

Up == exit = "none"
Main(step, next) == Up /\ main = step /\ main' = next
-----------------------------------------------------------------------------
(* main.go: start.                                                         *)

\* Tracing, the two Redis clients, services and servers: any of it may fail,
\* which is fatal.
NewApplication ==
  /\ Up
  /\ main = "new"
  /\ \/ main' = "start" /\ UNCHANGED exit
     \/ main' = "exit" /\ exit' = "fatal"
  /\ UNCHANGED <<cancelled, expired, failed, announced, wg, goroutines, door,
                 workers, clients>>

\* StartAcknowledgmentWorker starts the workers that are not in the map yet.
StartAcknowledgmentWorker ==
  /\ workers' = AckWorkers
  /\ worker' = [w \in AckWorkers |-> IF w \in workers THEN worker[w] ELSE "waiting"]

\* Mutant: the collection goroutine is not counted.
StartUncounted ==
  /\ Main("start", "running")
  /\ StartAcknowledgmentWorker
  /\ wg' = wg + Cardinality(Servers) + Cardinality(Background) - 1
  /\ server' = [s \in Servers |-> "starting"]
  /\ background' = [b \in Background |-> "running"]
  /\ UNCHANGED <<stopping, door, clients>>

\* Each server and each background goroutine is counted before it runs; the
\* acknowledgment workers are not counted.
Start ==
  /\ Main("start", "running")
  /\ StartAcknowledgmentWorker
  /\ wg' = wg + Cardinality(Servers) + Cardinality(Background)
  /\ server' = [s \in Servers |-> "starting"]
  /\ background' = [b \in Background |-> "running"]
  /\ UNCHANGED <<stopping, door, clients>>

ReceiveSignal ==
  /\ Main("running", "cancel")
  /\ UNCHANGED <<stopping, wg, goroutines, door, workers, clients>>
-----------------------------------------------------------------------------
(* Application.Stop.                                                       *)

\* main's cancel and the one Start kept end the same context.
Cancel ==
  /\ Main("cancel", "http")
  /\ cancelled' = TRUE
  /\ UNCHANGED <<exit, expired, failed, announced, wg, goroutines, door, workers,
                 clients>>

\* The steps at which Stop asks server s to shut down, waits until it is idle,
\* and goes on.
AskStep(s) == s
DrainStep(s) == IF s = "http" THEN "drainHttp" ELSE "drainMetrics"
NextStep(s) == IF s = "http" THEN "metrics" ELSE "websocket"

\* http.Server.Shutdown: no more connections are accepted, and a server that has
\* not listened yet never will.
BeginShutdown(s) ==
  /\ Main(AskStep(s), DrainStep(s))
  /\ door' = [door EXCEPT ![s] = IF @ = "closed" THEN "shut" ELSE "closing"]
  /\ UNCHANGED <<stopping, wg, goroutines, workers, clients>>

\* A hijacked connection is none of the server's any more.
IsIdle(s) ==
  /\ \A r \in Requests : request[r] # s
  /\ s = "http" => \A k \in Sockets : socket[k] # "upgrading"

\* Mutant: Shutdown is called with a context that never ends.
DrainForever(s) ==
  /\ Main(DrainStep(s), NextStep(s))
  /\ IsIdle(s)
  /\ door' = [door EXCEPT ![s] = "shut"]
  /\ UNCHANGED <<stopping, wg, goroutines, workers, clients>>

\* Mutant: the error of Shutdown is logged and not returned.
DrainLogged(s) ==
  /\ Main(DrainStep(s), NextStep(s))
  /\ \/ IsIdle(s) /\ door' = [door EXCEPT ![s] = "shut"]
     \/ expired /\ UNCHANGED door
  /\ UNCHANGED <<stopping, wg, goroutines, workers, clients>>

\* Shutdown returns when nobody is served any more, or with an error when its
\* context ends.
Drain(s) ==
  /\ Main(DrainStep(s), NextStep(s))
  /\ \/ IsIdle(s) /\ door' = [door EXCEPT ![s] = "shut"] /\ UNCHANGED failed
     \/ expired /\ failed' = TRUE /\ UNCHANGED door
  /\ UNCHANGED <<exit, cancelled, expired, announced, wg, goroutines, workers,
                 clients>>

\* wsServer.Shutdown closes every connection it finds registered.
ShutdownWebSockets ==
  /\ Main("websocket", "ackWorkers")
  /\ socket' = [k \in Sockets |-> IF socket[k] = "open" THEN "closed" ELSE socket[k]]
  /\ UNCHANGED <<stopping, wg, goroutines, door, workers, request, late>>

StopAcknowledgmentWorker ==
  /\ Main("ackWorkers", "wait")
  /\ workers' = {}
  /\ UNCHANGED <<stopping, wg, goroutines, door, clients>>

\* select: both cases may be ready.
AwaitGoroutines ==
  /\ Main("wait", "redis")
  /\ \/ wg = 0 /\ announced' = "stopped"
     \/ expired /\ announced' = "timeout"
  /\ UNCHANGED <<exit, cancelled, expired, failed, wg, goroutines, door, workers,
                 clients>>

\* The client that is closed served the first Ping only; the one behind the
\* repositories is never closed.
CloseRedis ==
  /\ Main("redis", "tracer")
  /\ failed' \in {failed, TRUE}
  /\ UNCHANGED <<exit, cancelled, expired, announced, wg, goroutines, door, workers,
                 clients>>

\* Flushing the spans fails without the collector, or once the context is over.
ShutdownTracer ==
  /\ Main("tracer", "exit")
  /\ failed' \in IF Tracing THEN {failed, TRUE} ELSE {failed}
  /\ exit' = IF failed' THEN "error" ELSE "graceful"
  /\ UNCHANGED <<cancelled, expired, announced, wg, goroutines, door, workers,
                 clients>>

\* The thirty seconds begin with Stop.
Expire ==
  /\ Up
  /\ cancelled
  /\ ~expired
  /\ expired' = TRUE
  /\ UNCHANGED <<main, exit, cancelled, failed, announced, wg, goroutines, door,
                 workers, clients>>
-----------------------------------------------------------------------------
(* The goroutines.                                                         *)

\* ListenAndServe listens, unless Shutdown came first; a port that is taken is
\* logged, and the application runs on without the server.
Listen(s) ==
  /\ Up
  /\ server[s] = "starting"
  /\ \/ /\ door[s] = "closed"
        /\ server' = [server EXCEPT ![s] = "listening"]
        /\ door' = [door EXCEPT ![s] = "open"]
        /\ UNCHANGED wg
     \/ /\ server' = [server EXCEPT ![s] = "ended"]
        /\ wg' = wg - 1
        /\ UNCHANGED door
  /\ UNCHANGED <<main, stopping, background, worker, workers, clients>>

\* It returns as soon as Shutdown is called, while requests are still served.
ServerEnds(s) ==
  /\ Up
  /\ server[s] = "listening"
  /\ door[s] # "open"
  /\ server' = [server EXCEPT ![s] = "ended"]
  /\ wg' = wg - 1
  /\ UNCHANGED <<main, stopping, background, worker, door, workers, clients>>

BackgroundEnds(b) ==
  /\ Up
  /\ background[b] = "running"
  /\ cancelled
  /\ background' = [background EXCEPT ![b] = "ended"]
  /\ wg' = wg - 1
  /\ UNCHANGED <<main, stopping, server, worker, door, workers, clients>>

\* The tick of an acknowledgment worker, which select may prefer to the end of
\* its context; with the context its Redis commands fail.
WorkerTicks(w) ==
  /\ Up
  /\ \/ worker[w] = "waiting" /\ worker' = [worker EXCEPT ![w] = "working"]
     \/ worker[w] = "working" /\ worker' = [worker EXCEPT ![w] = "waiting"]
  /\ UNCHANGED <<main, stopping, wg, server, background, door, workers, clients>>

WorkerEnds(w) ==
  /\ Up
  /\ worker[w] = "waiting"
  /\ cancelled
  /\ worker' = [worker EXCEPT ![w] = "ended"]
  /\ UNCHANGED <<main, stopping, wg, server, background, door, workers, clients>>
-----------------------------------------------------------------------------
(* Clients.                                                                *)

\* A connection accepted before Shutdown may still bring a request, until the
\* server has found it idle and closed it.
Reachable(s) == door[s] \in {"open", "closing"}

Arrive(r, s) ==
  /\ Up
  /\ Reachable(s)
  /\ request[r] = "none"
  /\ request' = [request EXCEPT ![r] = s]
  /\ UNCHANGED <<main, stopping, wg, goroutines, door, workers, socket, late>>

\* It may never be answered: a pull for a group waits on a stream nobody feeds.
Answer(r) ==
  /\ Up
  /\ request[r] \in Servers
  /\ request' = [request EXCEPT ![r] = "answered"]
  /\ UNCHANGED <<main, stopping, wg, goroutines, door, workers, socket, late>>

\* HandleWebSocket.
Upgrade(k) ==
  /\ Up
  /\ \/ Reachable("http") /\ socket[k] = "none" /\ socket' = [socket EXCEPT ![k] = "upgrading"]
     \/ socket[k] = "upgrading" /\ socket' \in {[socket EXCEPT ![k] = "hijacked"],
                                                [socket EXCEPT ![k] = "closed"]}
  /\ UNCHANGED <<main, stopping, wg, goroutines, door, workers, request, late>>

RegisterConnection(k) ==
  /\ Up
  /\ socket[k] = "hijacked"
  /\ socket' = [socket EXCEPT ![k] = "open"]
  /\ late' = IF main \in {"ackWorkers", "wait", "redis", "tracer"} THEN late \cup {k} ELSE late
  /\ UNCHANGED <<main, stopping, wg, goroutines, door, workers, request>>

\* The client goes away.
CloseConnection(k) ==
  /\ Up
  /\ socket[k] = "open"
  /\ socket' = [socket EXCEPT ![k] = "closed"]
  /\ UNCHANGED <<main, stopping, wg, goroutines, door, workers, request, late>>
-----------------------------------------------------------------------------
StopStep ==
  \/ Cancel
  \/ \E s \in Servers : BeginShutdown(s) \/ Drain(s)
  \/ ShutdownWebSockets
  \/ StopAcknowledgmentWorker
  \/ AwaitGoroutines
  \/ CloseRedis
  \/ ShutdownTracer

Next ==
  \/ NewApplication
  \/ Start
  \/ ReceiveSignal
  \/ StopStep
  \/ Expire
  \/ \E s \in Servers : Listen(s) \/ ServerEnds(s)
  \/ \E b \in Background : BackgroundEnds(b)
  \/ \E w \in AckWorkers : WorkerTicks(w) \/ WorkerEnds(w)
  \/ \E r \in Requests : Answer(r) \/ \E s \in Servers : Arrive(r, s)
  \/ \E k \in Sockets : Upgrade(k) \/ RegisterConnection(k) \/ CloseConnection(k)

Spec == Init /\ [][Next]_vars

\* main runs on and time passes. Nothing is assumed of the signal, of a request
\* or of any other goroutine.
Fairness == WF_vars(StopStep) /\ WF_vars(Expire)

FairSpec == Spec /\ Fairness
-----------------------------------------------------------------------------
(* Properties.                                                             *)

\* "Stop gracefully stops all application components" (app.go:282): when main
\* reports a graceful stop, no request of either server was cut off, and no
\* WebSocket connection either but those that came after wsServer.Shutdown had
\* made its list, which the HTTP server cannot wait for. One that was hijacked and
\* is still to be registered when the process ends (server.go:170) counts as
\* neither: it has been served nothing yet.
GracefulStopCutsNobody ==
  exit = "graceful" =>
    /\ \A r \in Requests : request[r] \notin Servers
    /\ \A k \in Sockets : socket[k] # "upgrading" /\ (socket[k] = "open" => k \in late)

\* "All goroutines stopped" is logged only when it is true of the servers and
\* the background goroutines, even if a server was told to stop before its
\* goroutine had run at all.
AnnouncedStopIsTrue ==
  announced = "stopped" =>
    /\ \A s \in Servers : server[s] = "ended"
    /\ \A b \in Background : background[b] = "ended"

\* Stop comes to an end: its waits are bounded by the thirty seconds, whatever
\* requests and goroutines are still there.
StopEnds == (main = "cancel") ~> (exit # "none")
=============================================================================
