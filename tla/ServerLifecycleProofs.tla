------------------------ MODULE ServerLifecycleProofs ------------------------
(***************************************************************************)
(* Proofs about ServerLifecycle. The invariant says how far main has come: *)
(* what has been started, which doors are shut and for whom, and that the  *)
(* wait group counts the goroutines that have not ended.                   *)
(***************************************************************************)
EXTENDS ServerLifecycle, FiniteSetTheorems, TLAPS

\* Where main is, in the order of the code.
BeforeStart == {"new", "start"}
AfterDrain(s) ==
  {"websocket", "ackWorkers", "wait", "redis", "tracer", "exit"}
    \cup (IF s = "http" THEN {"metrics", "drainMetrics"} ELSE {})
AfterWebSockets == {"ackWorkers", "wait", "redis", "tracer", "exit"}
AfterWait == {"redis", "tracer", "exit"}

\* Nothing runs and nobody is served.
NothingStarted ==
  /\ wg = 0
  /\ server = [s \in Servers |-> "none"]
  /\ door = [s \in Servers |-> "closed"]
  /\ background = [b \in Background |-> "none"]
  /\ announced = "nothing"

One(p) == IF p THEN 1 ELSE 0

\* The goroutines that have not called wg.Done.
Unfinished ==
  One(server["http"] # "ended") + One(server["metrics"] # "ended")
    + One(background["subscription"] # "ended")
    + One(background["acknowledgment"] # "ended")
    + One(background["collection"] # "ended")

Counted ==
  /\ wg = Unfinished
  /\ \A s \in Servers : server[s] # "none"
  /\ \A b \in Background : background[b] # "none"

NotStarted == main \in BeforeStart \/ exit = "fatal"

ShutIsIdle ==
  \A s \in Servers : door[s] = "shut" => IsIdle(s)

ClosedIsUnused ==
  \A s \in Servers : door[s] = "closed" => IsIdle(s)

DrainedIsShut ==
  \A s \in Servers : main \in AfterDrain(s) /\ ~failed => door[s] = "shut" \/ exit = "fatal"

OpenIsLate ==
  main \in AfterWebSockets /\ exit # "fatal" =>
    \A k \in Sockets : socket[k] = "open" => k \in late

EndIsTold ==
  /\ exit # "none" <=> main = "exit"
  /\ exit = "graceful" => ~failed

WaitIsTold ==
  announced = "stopped" => wg = 0 /\ main \in AfterWait

IInv ==
  /\ TypeOK
  /\ NotStarted => NothingStarted
  /\ ~NotStarted => Counted
  /\ ShutIsIdle
  /\ ClosedIsUnused
  /\ DrainedIsShut
  /\ OpenIsLate
  /\ EndIsTold
  /\ WaitIsTold
-----------------------------------------------------------------------------
(* The type of the state.                                                  *)

\* Init gives every variable a value of its type.
LEMMA InitType == Init => TypeOK
<1> SUFFICES ASSUME Init PROVE TypeOK
  OBVIOUS
<1>1. /\ main \in Steps
      /\ exit \in {"none", "fatal", "error", "graceful"}
      /\ cancelled \in BOOLEAN /\ expired \in BOOLEAN /\ failed \in BOOLEAN
      /\ wg \in Nat
      /\ announced \in {"nothing", "stopped", "timeout"}
      /\ workers \subseteq AckWorkers
      /\ late \subseteq Sockets
  BY DEF Init, Steps
<1>2. /\ server \in [Servers -> {"none", "starting", "listening", "ended"}]
      /\ door \in [Servers -> {"closed", "open", "closing", "shut"}]
      /\ background \in [Background -> {"none", "running", "ended"}]
      /\ worker \in [AckWorkers -> {"none", "waiting", "working", "ended"}]
  BY DEF Init
<1>3. /\ request \in [Requests -> {"none", "answered"} \cup Servers]
      /\ socket \in [Sockets -> {"none", "upgrading", "hijacked", "open", "closed"}]
  BY DEF Init
<1> QED BY <1>1, <1>2, <1>3 DEF TypeOK

\* How many goroutines Start adds to the wait group.
LEMMA CountedAtStart == Cardinality(Servers) = 2 /\ Cardinality(Background) = 3
<1>1. Cardinality(Servers) = 2
  <2> DEFINE A == {"http"}
  <2>1. IsFiniteSet(A) /\ Cardinality(A) = 1
    BY FS_Singleton
  <2>2. Servers = A \cup {"metrics"} /\ "metrics" \notin A
    BY DEF Servers
  <2> HIDE DEF A
  <2> QED BY <2>1, <2>2, FS_AddElement
<1>2. Cardinality(Background) = 3
  <2> DEFINE A == {"subscription"}
             B == A \cup {"acknowledgment"}
  <2>1. IsFiniteSet(A) /\ Cardinality(A) = 1
    BY FS_Singleton
  <2>2. IsFiniteSet(B) /\ Cardinality(B) = 2
    <3>1. "acknowledgment" \notin A
      OBVIOUS
    <3> HIDE DEF A
    <3> QED BY <2>1, <3>1, FS_AddElement
  <2>3. Background = B \cup {"collection"} /\ "collection" \notin B
    BY DEF Background
  <2> HIDE DEF B
  <2> QED BY <2>2, <2>3, FS_AddElement
<1> QED BY <1>1, <1>2

\* The wait group is never lowered below zero: each goroutine that ends was
\* counted.
LEMMA CountedIsPositive ==
  ASSUME TypeOK, ~NotStarted => Counted, NotStarted => NothingStarted
  PROVE  /\ \A s \in Servers : server[s] \in {"starting", "listening"} => wg - 1 \in Nat
         /\ \A b \in Background : background[b] = "running" => wg - 1 \in Nat
<1>1. CASE NotStarted
  BY <1>1 DEF NothingStarted
<1>2. CASE ~NotStarted
  <2>1. wg = Unfinished /\ wg \in Nat
    BY <1>2 DEF Counted, TypeOK
  <2>2. ASSUME NEW s \in Servers, server[s] \in {"starting", "listening"}
        PROVE  wg - 1 \in Nat
    BY <2>1, <2>2 DEF Unfinished, One, Servers
  <2>3. ASSUME NEW b \in Background, background[b] = "running"
        PROVE  wg - 1 \in Nat
    BY <2>1, <2>3 DEF Unfinished, One, Background
  <2> QED BY <2>2, <2>3
<1> QED BY <1>1, <1>2

\* Every step keeps the type of the state.
LEMMA NextType == ASSUME IInv, [Next]_vars PROVE TypeOK'
<1> USE DEF Main, Up
<1>0. TypeOK /\ (NotStarted => NothingStarted) /\ (~NotStarted => Counted)
  BY DEF IInv
<1>1. CASE NewApplication
  BY <1>0, <1>1 DEF NewApplication, TypeOK, Steps, goroutines, clients
<1>2. CASE Start
  <2>1. wg + Cardinality(Servers) + Cardinality(Background) \in Nat
    <3>1. wg = 0
      BY <1>0, <1>2 DEF Start, NotStarted, BeforeStart, NothingStarted
    <3>2. wg + Cardinality(Servers) + Cardinality(Background) = 5
      BY <3>1, CountedAtStart
    <3> QED BY <3>2
  <2>2. worker' \in [AckWorkers -> {"none", "waiting", "working", "ended"}]
    BY <1>0, <1>2 DEF Start, StartAcknowledgmentWorker, TypeOK
  <2>3. /\ server' \in [Servers -> {"none", "starting", "listening", "ended"}]
        /\ background' \in [Background -> {"none", "running", "ended"}]
    BY <1>2 DEF Start
  <2>4. main' \in Steps /\ wg' \in Nat /\ workers' \subseteq AckWorkers
    BY <1>2, <2>1 DEF Start, StartAcknowledgmentWorker, Steps
  <2>5. UNCHANGED <<exit, cancelled, expired, failed, announced, door, request, socket, late>>
    BY <1>2 DEF Start, stopping, clients
  <2> QED BY <1>0, <2>2, <2>3, <2>4, <2>5 DEF TypeOK
<1>3. CASE ReceiveSignal
  BY <1>0, <1>3 DEF ReceiveSignal, TypeOK, Steps, stopping, goroutines, clients
<1>4. CASE StopStep
  <2>1. CASE Cancel
    BY <1>0, <2>1 DEF Cancel, TypeOK, Steps, goroutines, clients
  <2>2. ASSUME NEW s \in Servers, BeginShutdown(s) PROVE TypeOK'
    BY <1>0, <2>2 DEF BeginShutdown, DrainStep, TypeOK, Steps, stopping, goroutines, clients
  <2>3. ASSUME NEW s \in Servers, Drain(s) PROVE TypeOK'
    BY <1>0, <2>3 DEF Drain, NextStep, TypeOK, Steps, goroutines, clients
  <2>4. CASE ShutdownWebSockets
    <3>1. socket' \in [Sockets -> {"none", "upgrading", "hijacked", "open", "closed"}]
      BY <1>0, <2>4 DEF ShutdownWebSockets, TypeOK
    <3> QED BY <1>0, <2>4, <3>1 DEF ShutdownWebSockets, TypeOK, Steps, stopping, goroutines
  <2>5. CASE StopAcknowledgmentWorker
    BY <1>0, <2>5 DEF StopAcknowledgmentWorker, TypeOK, Steps, stopping, goroutines, clients
  <2>6. CASE AwaitGoroutines
    BY <1>0, <2>6 DEF AwaitGoroutines, TypeOK, Steps, goroutines, clients
  <2>7. CASE CloseRedis
    BY <1>0, <2>7 DEF CloseRedis, TypeOK, Steps, goroutines, clients
  <2>8. CASE ShutdownTracer
    BY <1>0, <2>8 DEF ShutdownTracer, TypeOK, Steps, goroutines, clients
  <2> QED BY <1>4, <2>1, <2>2, <2>3, <2>4, <2>5, <2>6, <2>7, <2>8 DEF StopStep
<1>5. CASE Expire
  BY <1>0, <1>5 DEF Expire, TypeOK, goroutines, clients
<1>6. ASSUME NEW s \in Servers, Listen(s) PROVE TypeOK'
  BY <1>0, <1>6, CountedIsPositive DEF Listen, TypeOK, stopping, clients
<1>7. ASSUME NEW s \in Servers, ServerEnds(s) PROVE TypeOK'
  BY <1>0, <1>7, CountedIsPositive DEF ServerEnds, TypeOK, stopping, clients
<1>8. ASSUME NEW b \in Background, BackgroundEnds(b) PROVE TypeOK'
  BY <1>0, <1>8, CountedIsPositive DEF BackgroundEnds, TypeOK, stopping, clients
<1>9. ASSUME NEW w \in AckWorkers, WorkerTicks(w) \/ WorkerEnds(w) PROVE TypeOK'
  BY <1>0, <1>9 DEF WorkerTicks, WorkerEnds, TypeOK, stopping, clients
<1>10. ASSUME NEW r \in Requests, NEW s \in Servers, Answer(r) \/ Arrive(r, s) PROVE TypeOK'
  BY <1>0, <1>10 DEF Answer, Arrive, TypeOK, stopping, goroutines
<1>11. ASSUME NEW k \in Sockets, Upgrade(k) \/ RegisterConnection(k) \/ CloseConnection(k)
       PROVE  TypeOK'
  BY <1>0, <1>11 DEF Upgrade, RegisterConnection, CloseConnection, TypeOK, stopping, goroutines
<1>12. CASE UNCHANGED vars
  BY <1>0, <1>12 DEF vars, TypeOK, stopping, goroutines, clients
<1> QED BY <1>1, <1>2, <1>3, <1>4, <1>5, <1>6, <1>7, <1>8, <1>9, <1>10, <1>11, <1>12
  DEF Next, Servers
-----------------------------------------------------------------------------
(* The wait group.                                                         *)

\* The invariant holds when the process is started.
LEMMA InitInv == Init => IInv
<1> SUFFICES ASSUME Init PROVE IInv
  OBVIOUS
<1>1. TypeOK
  BY InitType
<1>2. NotStarted /\ NothingStarted
  BY DEF Init, NotStarted, BeforeStart, NothingStarted
<1>3. ShutIsIdle /\ ClosedIsUnused
  BY DEF Init, ShutIsIdle, ClosedIsUnused, IsIdle, Servers
<1>4. DrainedIsShut /\ OpenIsLate /\ EndIsTold /\ WaitIsTold
  BY DEF Init, DrainedIsShut, OpenIsLate, EndIsTold, WaitIsTold, AfterDrain,
         AfterWebSockets
<1> QED BY <1>1, <1>2, <1>3, <1>4 DEF IInv

\* Before Start has run, and after a fatal error, nothing runs.
LEMMA NothingStep == ASSUME IInv, [Next]_vars PROVE (NotStarted => NothingStarted)'
<1> USE DEF Main, Up
<1>1. CASE NotStarted
  <2>0. NothingStarted /\ TypeOK
    BY <1>1 DEF IInv
  <2>1. CASE NewApplication
    BY <2>0, <2>1 DEF NewApplication, NothingStarted, goroutines
  <2>2. CASE Start
    BY <2>2 DEF Start, NotStarted, BeforeStart, stopping, IInv, EndIsTold
  <2>3. CASE UNCHANGED <<wg, goroutines, door, announced>>
    BY <2>0, <2>3 DEF NothingStarted, goroutines
  <2>4. ASSUME NEW b \in Background, BackgroundEnds(b) PROVE FALSE
    BY <2>0, <2>4 DEF BackgroundEnds, NothingStarted
  <2>5. ASSUME NEW s \in Servers, Listen(s) \/ ServerEnds(s) PROVE FALSE
    BY <2>0, <2>5 DEF Listen, ServerEnds, NothingStarted
  <2>6. ASSUME NEW w \in AckWorkers, WorkerTicks(w) \/ WorkerEnds(w)
        PROVE  NothingStarted'
    BY <2>0, <2>6 DEF WorkerTicks, WorkerEnds, NothingStarted, stopping
  <2>7. ASSUME StopStep PROVE FALSE
    BY <1>1, <2>7 DEF NotStarted, BeforeStart, StopStep, Cancel, BeginShutdown, Drain,
      ShutdownWebSockets, StopAcknowledgmentWorker, AwaitGoroutines, CloseRedis,
      ShutdownTracer, AskStep, DrainStep, Servers
  <2>8. CASE ReceiveSignal
    BY <1>1, <2>8 DEF ReceiveSignal, NotStarted, BeforeStart
  <2>9. CASE Expire
    BY <2>9, <2>3 DEF Expire
  <2>10. ASSUME NEW r \in Requests, NEW s \in Servers, Answer(r) \/ Arrive(r, s)
         PROVE  UNCHANGED <<wg, goroutines, door, announced>>
    BY <2>10 DEF Answer, Arrive, stopping
  <2>11. ASSUME NEW k \in Sockets, Upgrade(k) \/ RegisterConnection(k) \/ CloseConnection(k)
         PROVE  UNCHANGED <<wg, goroutines, door, announced>>
    BY <2>11 DEF Upgrade, RegisterConnection, CloseConnection, stopping
  <2>12. CASE UNCHANGED vars
    BY <2>12, <2>3 DEF vars, stopping
  <2> QED BY <2>1, <2>2, <2>3, <2>4, <2>5, <2>6, <2>7, <2>8, <2>9, <2>10, <2>11, <2>12
    DEF Next, Servers
<1>2. CASE ~NotStarted
  <2>1. main' \notin BeforeStart
    BY <1>2 DEF NotStarted, BeforeStart, Next, vars, NewApplication, Start, ReceiveSignal,
      StopStep, Cancel, BeginShutdown, Drain, ShutdownWebSockets, StopAcknowledgmentWorker,
      AwaitGoroutines, CloseRedis, ShutdownTracer, DrainStep, NextStep, Expire, Listen,
      ServerEnds, BackgroundEnds, WorkerTicks, WorkerEnds, Answer, Arrive, Upgrade,
      RegisterConnection, CloseConnection
  <2>2. exit' # "fatal"
    BY <1>2 DEF NotStarted, BeforeStart, Next, vars, NewApplication, Start, ReceiveSignal,
      StopStep, Cancel, BeginShutdown, Drain, ShutdownWebSockets, StopAcknowledgmentWorker,
      AwaitGoroutines, CloseRedis, ShutdownTracer, Expire, Listen, stopping,
      ServerEnds, BackgroundEnds, WorkerTicks, WorkerEnds, Answer, Arrive, Upgrade,
      RegisterConnection, CloseConnection
  <2> QED BY <2>1, <2>2 DEF NotStarted
<1> QED BY <1>1, <1>2

\* The wait group counts what has not ended: each step that ends a goroutine
\* counts it down.
LEMMA CountedStep == ASSUME IInv, [Next]_vars PROVE (~NotStarted => Counted)'
<1> USE DEF Main, Up
<1>1. CASE NotStarted
  <2>0. NothingStarted
    BY <1>1 DEF IInv
  <2>1. CASE Start
    <3>1. wg' = 5
      BY <2>0, <2>1, CountedAtStart DEF Start, NothingStarted
    <3>2. /\ server' = [s \in Servers |-> "starting"]
          /\ background' = [b \in Background |-> "running"]
      BY <2>1 DEF Start
    <3> QED BY <3>1, <3>2 DEF Counted, Unfinished, One, Servers, Background
  <2>2. CASE NewApplication
    BY <2>2 DEF NewApplication, NotStarted, BeforeStart
  <2>3. ASSUME ~Start, ~NewApplication, main' # main \/ exit' # exit PROVE FALSE
    BY <1>1, <2>3 DEF NotStarted, BeforeStart, Next, vars, ReceiveSignal,
      StopStep, Cancel, BeginShutdown, Drain, ShutdownWebSockets, StopAcknowledgmentWorker,
      AwaitGoroutines, CloseRedis, ShutdownTracer, AskStep, DrainStep, Expire, Listen, stopping,
      ServerEnds, BackgroundEnds, WorkerTicks, WorkerEnds, Answer, Arrive, Upgrade,
      RegisterConnection, CloseConnection, Servers
  <2> QED BY <1>1, <2>1, <2>2, <2>3 DEF NotStarted
<1>2. CASE ~NotStarted
  <2>0. Counted /\ TypeOK
    BY <1>2 DEF IInv
  <2>1. ASSUME NEW s \in Servers, Listen(s) \/ ServerEnds(s) PROVE Counted'
    <3>1. CASE server' = [server EXCEPT ![s] = "listening"] /\ UNCHANGED wg
      BY <2>0, <2>1, <3>1 DEF Listen, ServerEnds, Counted, Unfinished, One, TypeOK, Servers
    <3>2. CASE server' = [server EXCEPT ![s] = "ended"] /\ wg' = wg - 1
      <4>1. /\ server[s] # "ended"
            /\ server'[s] = "ended"
            /\ \A t \in Servers \ {s} : server'[t] = server[t]
        BY <2>0, <2>1, <3>2 DEF Listen, ServerEnds, TypeOK
      <4>2. /\ \A t \in Servers : server'[t] # "none"
            /\ background' = background
        BY <2>0, <2>1, <4>1 DEF Counted, Listen, ServerEnds
      <4>3. wg' = Unfinished'
        <5>1. CASE s = "http"
          BY <2>0, <3>2, <4>1, <4>2, <5>1 DEF Counted, Unfinished, One, Servers, TypeOK
        <5>2. CASE s = "metrics"
          BY <2>0, <3>2, <4>1, <4>2, <5>2 DEF Counted, Unfinished, One, Servers, TypeOK
        <5> QED BY <5>1, <5>2 DEF Servers
      <4> QED BY <2>0, <4>2, <4>3 DEF Counted
    <3> QED BY <2>1, <3>1, <3>2 DEF Listen, ServerEnds
  <2>3. ASSUME NEW b \in Background, BackgroundEnds(b) PROVE Counted'
    BY <2>0, <2>3 DEF BackgroundEnds, Counted, Unfinished, One, TypeOK, Background
  <2>4. CASE UNCHANGED <<wg, server, background>>
    BY <2>0, <2>4 DEF Counted, Unfinished
  <2>5. ASSUME Start \/ NewApplication PROVE FALSE
    BY <1>2, <2>5 DEF Start, NewApplication, NotStarted, BeforeStart
  <2> QED BY <2>1, <2>3, <2>4, <2>5 DEF Next, vars, ReceiveSignal,
      StopStep, Cancel, BeginShutdown, Drain, ShutdownWebSockets, StopAcknowledgmentWorker,
      AwaitGoroutines, CloseRedis, ShutdownTracer, Expire, goroutines,
      WorkerTicks, WorkerEnds, Answer, Arrive, Upgrade,
      RegisterConnection, CloseConnection
<1> QED BY <1>1, <1>2
-----------------------------------------------------------------------------
(* What Stop has done so far.                                              *)

\* A server whose door is shut, or was never opened, serves nobody: requests
\* come through an open door only.
LEMMA IdleStep == ASSUME IInv, [Next]_vars PROVE ShutIsIdle' /\ ClosedIsUnused'
<1> USE DEF Main, Up
<1>0. TypeOK /\ ShutIsIdle /\ ClosedIsUnused
  BY DEF IInv
<1> SUFFICES ASSUME NEW t \in Servers
             PROVE  (door[t] \in {"shut", "closed"} => IsIdle(t))'
  BY DEF ShutIsIdle, ClosedIsUnused
<1>1. door[t] \in {"shut", "closed"} => IsIdle(t)
  BY <1>0 DEF ShutIsIdle, ClosedIsUnused
<1>2. CASE UNCHANGED <<door, request, socket>>
  BY <1>1, <1>2 DEF IsIdle
<1>3. ASSUME NEW s \in Servers, BeginShutdown(s) PROVE (door[t] \in {"shut", "closed"} => IsIdle(t))'
  BY <1>0, <1>1, <1>3 DEF BeginShutdown, IsIdle, clients, TypeOK
<1>4. ASSUME NEW s \in Servers, Drain(s) PROVE (door[t] \in {"shut", "closed"} => IsIdle(t))'
  BY <1>0, <1>1, <1>4 DEF Drain, IsIdle, clients, TypeOK
<1>5. ASSUME NEW s \in Servers, Listen(s) PROVE (door[t] \in {"shut", "closed"} => IsIdle(t))'
  BY <1>0, <1>1, <1>5 DEF Listen, IsIdle, clients, TypeOK
<1>6. CASE ShutdownWebSockets
  BY <1>0, <1>1, <1>6 DEF ShutdownWebSockets, IsIdle, TypeOK
<1>7. ASSUME NEW r \in Requests, NEW s \in Servers, Arrive(r, s)
      PROVE  (door[t] \in {"shut", "closed"} => IsIdle(t))'
  BY <1>0, <1>1, <1>7 DEF Arrive, Reachable, IsIdle, TypeOK
<1>8. ASSUME NEW r \in Requests, Answer(r)
      PROVE  (door[t] \in {"shut", "closed"} => IsIdle(t))'
  BY <1>0, <1>1, <1>8 DEF Answer, IsIdle, TypeOK, Servers
<1>9. ASSUME NEW k \in Sockets, Upgrade(k) \/ RegisterConnection(k) \/ CloseConnection(k)
      PROVE  (door[t] \in {"shut", "closed"} => IsIdle(t))'
  <2>1. UNCHANGED <<door, request>>
    BY <1>9 DEF Upgrade, RegisterConnection, CloseConnection
  <2>2. socket'[k] = "upgrading" => door["http"] \in {"open", "closing"}
    BY <1>0, <1>9 DEF Upgrade, RegisterConnection, CloseConnection, Reachable, TypeOK
  <2>3. \A l \in Sockets \ {k} : socket'[l] = socket[l]
    BY <1>0, <1>9 DEF Upgrade, RegisterConnection, CloseConnection, TypeOK
  <2> QED BY <1>1, <2>1, <2>2, <2>3 DEF IsIdle
<1>10. ASSUME Start \/ NewApplication \/ ReceiveSignal \/ Cancel PROVE UNCHANGED <<door, request, socket>>
  BY <1>10 DEF Start, NewApplication, ReceiveSignal, Cancel, clients
<1>11. ASSUME StopAcknowledgmentWorker \/ AwaitGoroutines \/ CloseRedis \/ ShutdownTracer \/ Expire
       PROVE  UNCHANGED <<door, request, socket>>
  BY <1>11 DEF StopAcknowledgmentWorker, AwaitGoroutines, CloseRedis, ShutdownTracer, Expire, clients
<1>12. ASSUME NEW s \in Servers, ServerEnds(s) PROVE UNCHANGED <<door, request, socket>>
  BY <1>12 DEF ServerEnds, clients
<1>13. ASSUME NEW b \in Background, BackgroundEnds(b) PROVE UNCHANGED <<door, request, socket>>
  BY <1>13 DEF BackgroundEnds, clients
<1>14. ASSUME NEW w \in AckWorkers, WorkerTicks(w) \/ WorkerEnds(w)
       PROVE  UNCHANGED <<door, request, socket>>
  BY <1>14 DEF WorkerTicks, WorkerEnds, clients
<1>15. UNCHANGED vars => UNCHANGED <<door, request, socket>>
  BY DEF vars, clients
<1> QED BY <1>2, <1>3, <1>4, <1>5, <1>6, <1>7, <1>8, <1>9, <1>10, <1>11, <1>12, <1>13, <1>14, <1>15
  DEF Next, StopStep

\* What main has done stays done.
LEMMA ProgressStep ==
  ASSUME IInv, [Next]_vars
  PROVE  DrainedIsShut' /\ EndIsTold' /\ WaitIsTold'
<1> USE DEF Main, Up
<1>0. TypeOK /\ DrainedIsShut /\ EndIsTold /\ WaitIsTold /\ ClosedIsUnused
  BY DEF IInv
<1>1. CASE NewApplication
  BY <1>0, <1>1 DEF NewApplication, DrainedIsShut, EndIsTold, WaitIsTold, AfterDrain, AfterWait
<1>2. CASE Start \/ ReceiveSignal \/ Cancel
  BY <1>0, <1>2 DEF Start, ReceiveSignal, Cancel, stopping, DrainedIsShut, EndIsTold,
    WaitIsTold, AfterDrain, AfterWait
<1>3. ASSUME NEW s \in Servers, BeginShutdown(s) PROVE DrainedIsShut' /\ EndIsTold' /\ WaitIsTold'
  BY <1>0, <1>3 DEF BeginShutdown, AskStep, DrainStep, stopping, DrainedIsShut, EndIsTold,
    WaitIsTold, AfterDrain, AfterWait, Servers, TypeOK
<1>4. ASSUME NEW s \in Servers, Drain(s) PROVE DrainedIsShut' /\ EndIsTold' /\ WaitIsTold'
  BY <1>0, <1>4 DEF Drain, DrainStep, NextStep, DrainedIsShut, EndIsTold,
    WaitIsTold, AfterDrain, AfterWait, Servers, TypeOK
<1>5. CASE ShutdownWebSockets \/ StopAcknowledgmentWorker
  BY <1>0, <1>5 DEF ShutdownWebSockets, StopAcknowledgmentWorker, stopping, DrainedIsShut,
    EndIsTold, WaitIsTold, AfterDrain, AfterWait
<1>6. CASE AwaitGoroutines
  BY <1>0, <1>6 DEF AwaitGoroutines, DrainedIsShut, EndIsTold, WaitIsTold, AfterDrain, AfterWait
<1>7. CASE CloseRedis
  BY <1>0, <1>7 DEF CloseRedis, DrainedIsShut, EndIsTold, WaitIsTold, AfterDrain, AfterWait, TypeOK
<1>8. CASE ShutdownTracer
  BY <1>0, <1>8 DEF ShutdownTracer, DrainedIsShut, EndIsTold, WaitIsTold, AfterDrain, AfterWait, TypeOK
<1>9. ASSUME NEW s \in Servers, Listen(s) \/ ServerEnds(s)
      PROVE  DrainedIsShut' /\ EndIsTold' /\ WaitIsTold'
  <2>1. UNCHANGED <<main, exit, failed, announced>>
    BY <1>9 DEF Listen, ServerEnds, stopping
  <2>2. \A t \in Servers : door[t] = "shut" => door'[t] = "shut"
    BY <1>0, <1>9 DEF Listen, ServerEnds, TypeOK
  <2>3. ~NotStarted
    BY <1>9, NothingStep DEF Listen, ServerEnds, IInv, NothingStarted
  <2>4. wg # 0
    <3>1. Counted
      BY <2>3 DEF IInv
    <3>2. server[s] # "ended"
      BY <1>9 DEF Listen, ServerEnds
    <3> QED BY <3>1, <3>2 DEF Counted, Unfinished, One, Servers
  <2> QED BY <1>0, <2>1, <2>2, <2>4 DEF DrainedIsShut, EndIsTold, WaitIsTold
<1>10. ASSUME NEW b \in Background, BackgroundEnds(b) PROVE DrainedIsShut' /\ EndIsTold' /\ WaitIsTold'
  <2>1. UNCHANGED <<main, exit, failed, announced, door>>
    BY <1>10 DEF BackgroundEnds, stopping
  <2>2. ~NotStarted
    BY <1>10 DEF BackgroundEnds, IInv, NothingStarted
  <2>3. wg # 0
    <3>1. Counted
      BY <2>2 DEF IInv
    <3>2. background[b] # "ended"
      BY <1>10 DEF BackgroundEnds
    <3> QED BY <3>1, <3>2 DEF Counted, Unfinished, One, Background
  <2> QED BY <1>0, <2>1, <2>3 DEF DrainedIsShut, EndIsTold, WaitIsTold
<1>11. CASE UNCHANGED <<main, exit, failed, announced, door, wg>>
  BY <1>0, <1>11 DEF DrainedIsShut, EndIsTold, WaitIsTold
<1> QED BY <1>1, <1>2, <1>3, <1>4, <1>5, <1>6, <1>7, <1>8, <1>9, <1>10, <1>11
  DEF Next, StopStep, Expire, WorkerTicks, WorkerEnds, Answer, Arrive, Upgrade,
      RegisterConnection, CloseConnection, stopping, vars

\* wsServer.Shutdown leaves no connection open but those registered after it.
LEMMA LateStep == ASSUME IInv, [Next]_vars PROVE OpenIsLate'
<1> USE DEF Main, Up
<1>0. TypeOK /\ OpenIsLate /\ EndIsTold
  BY DEF IInv
<1>1. CASE ShutdownWebSockets
  BY <1>0, <1>1 DEF ShutdownWebSockets, OpenIsLate, TypeOK
<1>2. ASSUME NEW k \in Sockets, Upgrade(k) \/ RegisterConnection(k) \/ CloseConnection(k)
      PROVE  OpenIsLate'
  <2>1. UNCHANGED <<main, exit>>
    BY <1>2 DEF Upgrade, RegisterConnection, CloseConnection, stopping
  <2>2. main \in AfterWebSockets => main \in {"ackWorkers", "wait", "redis", "tracer"}
    BY <1>0, <1>2 DEF Upgrade, RegisterConnection, CloseConnection, EndIsTold, AfterWebSockets
  <2>3. ASSUME NEW l \in Sockets, socket'[l] = "open", main \in AfterWebSockets, exit # "fatal"
        PROVE  l \in late'
    BY <1>0, <1>2, <2>2, <2>3 DEF OpenIsLate, Upgrade, RegisterConnection, CloseConnection, TypeOK
  <2> QED BY <2>1, <2>3 DEF OpenIsLate
<1>3. CASE UNCHANGED <<socket, late>>
  <2>1. exit' # "fatal" => exit # "fatal"
    BY <1>0, <1>3 DEF EndIsTold, Next, vars, NewApplication, Start, ReceiveSignal, stopping,
      StopStep, Cancel, BeginShutdown, Drain, ShutdownWebSockets, StopAcknowledgmentWorker,
      AwaitGoroutines, CloseRedis, ShutdownTracer, Expire, Listen, ServerEnds,
      BackgroundEnds, WorkerTicks, WorkerEnds, Answer, Arrive, Upgrade,
      RegisterConnection, CloseConnection
  <2>2. ASSUME main' \in AfterWebSockets, exit' # "fatal", ~ShutdownWebSockets
        PROVE  main \in AfterWebSockets
    BY <2>2 DEF AfterWebSockets, Next, vars, NewApplication, Start, ReceiveSignal, stopping,
      StopStep, Cancel, BeginShutdown, Drain, StopAcknowledgmentWorker, AskStep, DrainStep,
      NextStep, Servers, AwaitGoroutines, CloseRedis, ShutdownTracer, Expire, Listen,
      ServerEnds, BackgroundEnds, WorkerTicks, WorkerEnds, Answer, Arrive, Upgrade,
      RegisterConnection, CloseConnection
  <2> QED BY <1>0, <1>1, <1>3, <2>1, <2>2 DEF OpenIsLate
<1> QED BY <1>1, <1>2, <1>3 DEF Next, vars, NewApplication, Start, ReceiveSignal, clients,
      StopStep, Cancel, BeginShutdown, Drain, StopAcknowledgmentWorker, AwaitGoroutines,
      CloseRedis, ShutdownTracer, Expire, Listen, ServerEnds, BackgroundEnds, WorkerTicks,
      WorkerEnds, Answer, Arrive
-----------------------------------------------------------------------------
(* The theorems.                                                           *)

\* Every step keeps the invariant.
LEMMA StepInv == IInv /\ [Next]_vars => IInv'
  BY NextType, NothingStep, CountedStep, IdleStep, ProgressStep, LateStep DEF IInv

\* The invariant holds throughout the life of the process.
THEOREM Invariant == Spec => []IInv
<1> QED BY InitInv, StepInv, PTL DEF Spec

\* Every variable keeps its type; the wait group never falls below zero, which
\* would be a panic.
THEOREM TypeCorrect == Spec => []TypeOK
<1>1. IInv => TypeOK
  BY DEF IInv
<1> QED BY <1>1, Invariant, PTL

\* A graceful stop cuts no request off, and no connection that was there when
\* wsServer.Shutdown made its list, for any number of requests and connections.
THEOREM StopIsGraceful == Spec => []GracefulStopCutsNobody
<1>1. IInv => GracefulStopCutsNobody
  <2> SUFFICES ASSUME IInv, exit = "graceful" PROVE GracefulStopCutsNobody
    BY DEF GracefulStopCutsNobody
  <2>1. main = "exit" /\ ~failed
    BY DEF IInv, EndIsTold
  <2>2. \A s \in Servers : door[s] = "shut"
    BY <2>1 DEF IInv, DrainedIsShut, AfterDrain
  <2>3. \A s \in Servers : IsIdle(s)
    BY <2>2 DEF IInv, ShutIsIdle
  <2>4. \A r \in Requests : request[r] \notin Servers
    BY <2>3 DEF IsIdle
  <2>5. \A k \in Sockets : socket[k] # "upgrading"
    BY <2>3 DEF IsIdle, Servers
  <2>6. \A k \in Sockets : socket[k] = "open" => k \in late
    BY <2>1 DEF IInv, OpenIsLate, AfterWebSockets
  <2> QED BY <2>4, <2>5, <2>6 DEF GracefulStopCutsNobody
<1> QED BY <1>1, Invariant, PTL

\* "All goroutines stopped" is true whenever it has been said.
THEOREM AnnouncementHolds == Spec => []AnnouncedStopIsTrue
<1>1. IInv => AnnouncedStopIsTrue
  <2> SUFFICES ASSUME IInv, announced = "stopped"
               PROVE  /\ \A s \in Servers : server[s] = "ended"
                      /\ \A b \in Background : background[b] = "ended"
    BY DEF AnnouncedStopIsTrue
  <2>1. wg = 0 /\ ~NotStarted
    BY DEF IInv, WaitIsTold, NothingStarted
  <2>2. 0 = Unfinished
    BY <2>1 DEF IInv, Counted
  <2> QED BY <2>2 DEF Unfinished, One, Servers, Background
<1> QED BY <1>1, Invariant, PTL
=============================================================================
