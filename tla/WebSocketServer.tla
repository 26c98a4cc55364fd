-------------------------- MODULE WebSocketServer --------------------------
(***************************************************************************)
(* The WebSocket server (internal/adapters/api/websocket): the goroutines  *)
(* of each connection, the requests they serve and the tables they share.  *)
(*                                                                         *)
(* A connection has three goroutines: the HTTP handler, which registers it *)
(* and waits for its close channel; the read pump, which serves one client *)
(* message after another and queues the replies; the write pump, which     *)
(* writes what is queued. Both pumps end in Connection.Close, and so does  *)
(* a reply that finds the queue full, and Server.Shutdown. Close tests     *)
(* IsAlive before it clears it, with no lock around the two.               *)
(*                                                                         *)
(* Abstractions: a reply is its number among the replies of its            *)
(* connection. The subscriber service is seen through the subscriptions it *)
(* keeps; nothing calls BroadcastToTopic and DeliverMessage, so no message *)
(* is ever queued but a reply. A connection's own table of subscriptions   *)
(* is used by its read pump only and is updated with the service's answer. *)
(***************************************************************************)
EXTENDS Naturals, Sequences

CONSTANTS
  Conns,        \* connections, each with an id of its own
  Topics,
  NoTopic,
  SendCapacity, \* of Connection.send: 256
  MaxRequests   \* bound on the client messages of a connection

ASSUME ServerAssumption ==
  /\ NoTopic \notin Topics
  /\ SendCapacity \in Nat \ {0}
  /\ MaxRequests \in Nat

VARIABLES
  connections,   \* Server.connections, under connMutex
  subscriptions, \* Server.subscriptions, under subsMutex: <<topic, connection>>
  conn,          \* the Connection: IsAlive, ctx, its channels and its socket
  close,         \* who is inside Connection.Close, and before which step
  subs,          \* Connection.subscriptions: the topics of each connection
  handler,       \* where HandleWebSocket is
  reader,        \* where readPump is, and the topic it is about
  writer,        \* where writePump is, what it writes and has still to drain
  shutdown,      \* whether Shutdown was called, whom it has still to close
  service,       \* the subscriber service's active subscriptions, counted
  client,        \* of each client: messages sent, replies due and received
  orphans,       \* history: active subscriptions that nobody can end any more
  late,          \* history: connections listed after they were forgotten
  panic          \* how the process died, if it did

tables == <<connections, subscriptions, subs>>
history == <<orphans, late>>
vars == <<tables, conn, close, handler, reader, writer, shutdown, service,
          client, history, panic>>
-----------------------------------------------------------------------------
Connection ==
  [alive : BOOLEAN, cancelled : BOOLEAN, closeClosed : BOOLEAN,
   sendClosed : BOOLEAN, socketClosed : BOOLEAN, send : Seq(Nat)]

NewConnection ==
  [alive |-> TRUE, cancelled |-> FALSE, closeClosed |-> FALSE,
   sendClosed |-> FALSE, socketClosed |-> FALSE, send |-> <<>>]

Closers == {"reader", "writer", "shutdown"}
CloseSteps == {"out", "cancel", "test", "mark", "close send", "close socket"}
HandlerSteps == {"none", "serving", "leaving", "ended"}
ReaderSteps ==
  {"none", "loop", "reading", "subscribing", "listing", "unsubscribing",
   "delisting", "replying", "ended"}
WriterSteps ==
  {"none", "select", "writing", "draining", "flushing", "ended"}

TypeOK ==
  /\ connections \subseteq Conns
  /\ subscriptions \subseteq Topics \X Conns
  /\ conn \in [Conns -> Connection]
  /\ close \in [Conns -> [Closers -> CloseSteps]]
  /\ subs \in [Conns -> SUBSET Topics]
  /\ handler \in [Conns -> HandlerSteps]
  /\ reader \in [Conns -> [at : ReaderSteps, topic : Topics \cup {NoTopic}]]
  /\ writer \in [Conns -> [at : WriterSteps, reply : Nat, left : Nat]]
  /\ shutdown \in [begun : BOOLEAN, todo : SUBSET Conns]
  /\ service \in [Topics \X Conns -> Nat]
  /\ client \in [Conns -> [sent : Nat, due : Nat, got : Seq(Nat)]]
  /\ orphans \in [Topics \X Conns -> Nat]
  /\ late \subseteq Conns
  /\ panic \in {"none", "send on closed channel", "close of closed channel"}

Init ==
  /\ connections = {}
  /\ subscriptions = {}
  /\ conn = [c \in Conns |-> NewConnection]
  /\ close = [c \in Conns |-> [w \in Closers |-> "out"]]
  /\ subs = [c \in Conns |-> {}]
  /\ handler = [c \in Conns |-> "none"]
  /\ reader = [c \in Conns |-> [at |-> "none", topic |-> NoTopic]]
  /\ writer = [c \in Conns |-> [at |-> "none", reply |-> 0, left |-> 0]]
  /\ shutdown = [begun |-> FALSE, todo |-> {}]
  /\ service = [tc \in Topics \X Conns |-> 0]
  /\ client = [c \in Conns |-> [sent |-> 0, due |-> 0, got |-> <<>>]]
  /\ orphans = [tc \in Topics \X Conns |-> 0]
  /\ late = {}
  /\ panic = "none"
-----------------------------------------------------------------------------
(***************************************************************************)
(* Connection.Close, as called by w. A goroutine inside Close does nothing *)
(* else: its other actions wait until it is out.                           *)
(***************************************************************************)
Out(c, w) == close[c][w] = "out"
CallClose(c, w) == close' = [close EXCEPT ![c][w] = "cancel"]

CloseCancels(c, w) ==
  /\ close[c][w] = "cancel"
  /\ conn' = [conn EXCEPT ![c].cancelled = TRUE]
  /\ close' = [close EXCEPT ![c][w] = "test"]
  /\ UNCHANGED <<tables, handler, reader, writer, shutdown, service, client,
                 history, panic>>

CloseTests(c, w) ==
  /\ close[c][w] = "test"
  /\ close' = [close EXCEPT ![c][w] = IF conn[c].alive THEN "mark" ELSE "out"]
  /\ UNCHANGED <<tables, conn, handler, reader, writer, shutdown, service,
                 client, history, panic>>

ClosePanics ==
  /\ panic' = "close of closed channel"
  /\ UNCHANGED <<tables, conn, close, handler, reader, writer, shutdown,
                 service, client, history>>

CloseMarksLeavesOpen(c, w) ==
  /\ close[c][w] = "mark"
  /\ conn' = [conn EXCEPT ![c].alive = FALSE]
  /\ close' = [close EXCEPT ![c][w] = "close send"]
  /\ UNCHANGED <<tables, handler, reader, writer, shutdown, service, client,
                 history, panic>>

\* IsAlive = false and close(c.close): whoever tested IsAlive before it was
\* cleared closes the channel a second time.
CloseMarks(c, w) ==
  /\ close[c][w] = "mark"
  /\ IF conn[c].closeClosed
       THEN ClosePanics
       ELSE /\ conn' = [conn EXCEPT ![c].alive = FALSE, ![c].closeClosed = TRUE]
            /\ close' = [close EXCEPT ![c][w] = "close send"]
            /\ UNCHANGED <<tables, handler, reader, writer, shutdown, service,
                           client, history, panic>>

CloseSend(c, w) ==
  /\ close[c][w] = "close send"
  /\ conn' = [conn EXCEPT ![c].sendClosed = TRUE]
  /\ close' = [close EXCEPT ![c][w] = "close socket"]
  /\ UNCHANGED <<tables, handler, reader, writer, shutdown, service, client,
                 history, panic>>

CloseSocket(c, w) ==
  /\ close[c][w] = "close socket"
  /\ conn' = [conn EXCEPT ![c].socketClosed = TRUE]
  /\ close' = [close EXCEPT ![c][w] = "out"]
  /\ UNCHANGED <<tables, handler, reader, writer, shutdown, service, client,
                 history, panic>>

CloseStep(c, w) ==
  \/ CloseCancels(c, w)
  \/ CloseTests(c, w)
  \/ CloseMarks(c, w)
  \/ CloseSend(c, w)
  \/ CloseSocket(c, w)
-----------------------------------------------------------------------------
(***************************************************************************)
(* HandleWebSocket: register, start the pumps, wait for the close channel, *)
(* unregister.                                                             *)
(***************************************************************************)
RegisterConnection(c) ==
  /\ handler[c] = "none"
  /\ connections' = connections \cup {c}
  /\ handler' = [handler EXCEPT ![c] = "serving"]
  /\ reader' = [reader EXCEPT ![c].at = "loop"]
  /\ writer' = [writer EXCEPT ![c].at = "select"]
  /\ UNCHANGED <<subscriptions, subs, conn, close, shutdown, service, client,
                 history, panic>>

UnregisterConnection(c) ==
  /\ handler[c] = "serving"
  /\ conn[c].closeClosed
  /\ connections' = connections \ {c}
  /\ handler' = [handler EXCEPT ![c] = "leaving"]
  /\ UNCHANGED <<subscriptions, subs, conn, close, reader, writer, shutdown,
                 service, client, history, panic>>

\* The subscription service is told nothing.
RemoveAllSubscriptions(c) ==
  /\ handler[c] = "leaving"
  /\ subscriptions' = {tc \in subscriptions : tc[2] # c}
  /\ handler' = [handler EXCEPT ![c] = "ended"]
  /\ UNCHANGED <<connections, subs, conn, close, reader, writer, shutdown,
                 service, client, history, panic>>
-----------------------------------------------------------------------------
(***************************************************************************)
(* readPump.                                                               *)
(***************************************************************************)
ReaderAt(c, step) == reader[c].at = step /\ Out(c, "reader")
ReaderGoes(c, step, t) ==
  reader' = [reader EXCEPT ![c] = [at |-> step, topic |-> t]]

\* Only the read pump ends a subscription of its connection at the service:
\* those it leaves behind stay active there.
ReaderEnds(c) ==
  /\ ReaderGoes(c, "ended", NoTopic)
  /\ CallClose(c, "reader")
  /\ orphans' = [tc \in Topics \X Conns |->
                   orphans[tc] + (IF tc[2] = c /\ tc[1] \in subs[c] THEN 1 ELSE 0)]

\* At the head of the loop: end if the context is done, else block in a read.
ReadLoop(c) ==
  /\ ReaderAt(c, "loop")
  /\ IF conn[c].cancelled
       THEN ReaderEnds(c)
       ELSE ReaderGoes(c, "reading", NoTopic) /\ UNCHANGED <<close, orphans>>
  /\ UNCHANGED <<tables, conn, handler, writer, shutdown, service, client,
                 late, panic>>

\* The socket is closed, the client is gone or its pong is overdue.
ReadFails(c) ==
  /\ ReaderAt(c, "reading")
  /\ ReaderEnds(c)
  /\ UNCHANGED <<tables, conn, handler, writer, shutdown, service, client,
                 late, panic>>

\* What handleMessage does with a client message, up to the first call that
\* another goroutine can see: a subscription that is already there, an
\* unsubscription that is not, a malformed message and a ping are answered at
\* once, and so is a publish or an ack, the call to its service included.
SubscribeAgain(c, t) == ReaderGoes(c, "subscribing", t)

HandleSubscribe(c, t) ==
  IF t \in subs[c] THEN ReaderGoes(c, "replying", NoTopic)
                   ELSE ReaderGoes(c, "subscribing", t)

UnsubscribeUnknown(c, t) == ReaderGoes(c, "unsubscribing", t)

HandleUnsubscribe(c, t) ==
  IF t \in subs[c] THEN ReaderGoes(c, "unsubscribing", t)
                   ELSE ReaderGoes(c, "replying", NoTopic)

HandlePublish(c) == ReaderGoes(c, "replying", NoTopic)

\* Silent when the acknowledgment succeeds.
HandleAck(c) ==
  \E next \in {"replying", "loop"} : ReaderGoes(c, next, NoTopic)

\* A frame that was read ahead is served although the socket is closed.
HandleMessage(c) ==
  /\ ReaderAt(c, "reading")
  /\ client[c].sent < MaxRequests
  /\ client' = [client EXCEPT ![c].sent = @ + 1]
  /\ \/ \E t \in Topics : HandleSubscribe(c, t) \/ HandleUnsubscribe(c, t)
     \/ HandlePublish(c)
     \/ HandleAck(c)
  /\ UNCHANGED <<tables, conn, close, handler, writer, shutdown, service,
                 history, panic>>

\* The service's answer, and Connection.subscriptions with it.
ServiceSubscribes(c) ==
  LET t == reader[c].topic IN
  /\ ReaderAt(c, "subscribing")
  /\ \/ /\ service' = [service EXCEPT ![<<t, c>>] = @ + 1]
        /\ subs' = [subs EXCEPT ![c] = @ \cup {t}]
        /\ ReaderGoes(c, "listing", t)
     \/ /\ ReaderGoes(c, "replying", NoTopic)
        /\ UNCHANGED <<service, subs>>
  /\ UNCHANGED <<connections, subscriptions, conn, close, handler, writer,
                 shutdown, client, history, panic>>

\* Server.subscriptions gets the connection, registered or not.
ListSubscription(c) ==
  LET t == reader[c].topic IN
  /\ ReaderAt(c, "listing")
  /\ subscriptions' = subscriptions \cup {<<t, c>>}
  /\ late' = IF handler[c] = "ended" THEN late \cup {c} ELSE late
  /\ ReaderGoes(c, "replying", NoTopic)
  /\ UNCHANGED <<connections, subs, conn, close, handler, writer, shutdown,
                 service, client, orphans, panic>>

\* A failed Unsubscribe is logged, and the connection forgets it all the same.
ServiceUnsubscribes(c) ==
  LET t == reader[c].topic IN
  /\ ReaderAt(c, "unsubscribing")
  /\ \/ service' = [service EXCEPT ![<<t, c>>] = @ - 1] /\ UNCHANGED orphans
     \/ orphans' = [orphans EXCEPT ![<<t, c>>] = @ + 1] /\ UNCHANGED service
  /\ subs' = [subs EXCEPT ![c] = @ \ {t}]
  /\ ReaderGoes(c, "delisting", t)
  /\ UNCHANGED <<connections, subscriptions, conn, close, handler, writer,
                 shutdown, client, late, panic>>

DelistNothing(c) ==
  /\ ReaderAt(c, "delisting")
  /\ ReaderGoes(c, "replying", NoTopic)
  /\ UNCHANGED <<tables, conn, close, handler, writer, shutdown, service,
                 client, history, panic>>

DelistSubscription(c) ==
  LET t == reader[c].topic IN
  /\ ReaderAt(c, "delisting")
  /\ subscriptions' = subscriptions \ {<<t, c>>}
  /\ ReaderGoes(c, "replying", NoTopic)
  /\ UNCHANGED <<connections, subs, conn, close, handler, writer, shutdown,
                 service, client, history, panic>>

(***************************************************************************)
(* sendMessage: one select over the send channel, the context and, when    *)
(* neither is ready, the default, which closes the connection. A closed    *)
(* channel is ready too, and panics.                                       *)
(***************************************************************************)
Room(c) == Len(conn[c].send) < SendCapacity

QueueReply(c) ==
  /\ Room(c)
  /\ ~conn[c].sendClosed
  /\ conn' = [conn EXCEPT ![c].send = Append(@, client[c].due + 1)]
  /\ UNCHANGED <<close, panic>>

SendOnClosed(c) ==
  /\ conn[c].sendClosed
  /\ panic' = "send on closed channel"
  /\ UNCHANGED <<conn, close>>

DropFreely(c) == UNCHANGED <<conn, close, panic>>

DropReply(c) ==
  /\ conn[c].cancelled
  /\ UNCHANGED <<conn, close, panic>>

DropWhenFull(c) ==
  /\ ~Room(c)
  /\ UNCHANGED <<conn, close, panic>>

CloseWhenFull(c) ==
  /\ ~Room(c)
  /\ ~conn[c].sendClosed
  /\ ~conn[c].cancelled
  /\ CallClose(c, "reader")
  /\ UNCHANGED <<conn, panic>>

SendMessage(c) ==
  /\ ReaderAt(c, "replying")
  /\ QueueReply(c) \/ SendOnClosed(c) \/ DropReply(c) \/ CloseWhenFull(c)
  /\ client' = [client EXCEPT ![c].due = @ + 1]
  /\ ReaderGoes(c, "loop", NoTopic)
  /\ UNCHANGED <<tables, handler, writer, shutdown, service, history>>
-----------------------------------------------------------------------------
(***************************************************************************)
(* writePump.                                                              *)
(***************************************************************************)
WriterAt(c, step) == writer[c].at = step /\ Out(c, "writer")
WriterGoes(c, step, n, left) ==
  writer' = [writer EXCEPT ![c] = [at |-> step, reply |-> n, left |-> left]]

\* The context is done, or the send channel is closed and empty.
WriterStops(c) ==
  /\ WriterAt(c, "select")
  /\ conn[c].cancelled \/ (conn[c].sendClosed /\ conn[c].send = <<>>)
  /\ WriterGoes(c, "ended", 0, 0)
  /\ CallClose(c, "writer")
  /\ UNCHANGED <<tables, conn, handler, reader, shutdown, service, client,
                 history, panic>>

PingFails(c) ==
  /\ WriterAt(c, "select")
  /\ WriterGoes(c, "ended", 0, 0)
  /\ CallClose(c, "writer")
  /\ UNCHANGED <<tables, conn, handler, reader, shutdown, service, client,
                 history, panic>>

TakeReply(c) ==
  /\ conn[c].send # <<>>
  /\ \/ WriterAt(c, "select")
        /\ WriterGoes(c, "writing", Head(conn[c].send), 0)
     \/ WriterAt(c, "draining")
        /\ WriterGoes(c, "flushing", Head(conn[c].send), writer[c].left)
  /\ conn' = [conn EXCEPT ![c].send = Tail(@)]
  /\ UNCHANGED <<tables, close, handler, reader, shutdown, service, client,
                 history, panic>>

\* How many queued replies are left to write before the next select: those in
\* the channel after the first write, one less after each of them.
LeftToDrain(c) ==
  IF writer[c].at = "writing" THEN Len(conn[c].send) ELSE writer[c].left - 1

WriteReply(c) ==
  LET left == LeftToDrain(c) IN
  /\ WriterAt(c, "writing") \/ WriterAt(c, "flushing")
  /\ ~conn[c].socketClosed
  /\ client' = [client EXCEPT ![c].got = Append(@, writer[c].reply)]
  /\ WriterGoes(c, IF left = 0 THEN "select" ELSE "draining", 0, left)
  /\ UNCHANGED <<tables, conn, close, handler, reader, shutdown, service,
                 history, panic>>

WriteFails(c) ==
  /\ WriterAt(c, "writing") \/ WriterAt(c, "flushing")
  /\ WriterGoes(c, "ended", 0, 0)
  /\ CallClose(c, "writer")
  /\ UNCHANGED <<tables, conn, handler, reader, shutdown, service, client,
                 history, panic>>
-----------------------------------------------------------------------------
(***************************************************************************)
(* Server.Shutdown: a copy of the table, closed one connection at a time.  *)
(***************************************************************************)
BeginShutdown ==
  /\ ~shutdown.begun
  /\ shutdown' = [begun |-> TRUE, todo |-> connections]
  /\ UNCHANGED <<tables, conn, close, handler, reader, writer, service, client,
                 history, panic>>

ShutdownCloses(c) ==
  /\ c \in shutdown.todo
  /\ \A d \in Conns : Out(d, "shutdown")
  /\ shutdown' = [shutdown EXCEPT !.todo = @ \ {c}]
  /\ CallClose(c, "shutdown")
  /\ UNCHANGED <<tables, conn, handler, reader, writer, service, client,
                 history, panic>>
-----------------------------------------------------------------------------
Handler(c) == UnregisterConnection(c) \/ RemoveAllSubscriptions(c)

Request(c) ==
  \/ ReadLoop(c)
  \/ ServiceSubscribes(c)
  \/ ListSubscription(c)
  \/ ServiceUnsubscribes(c)
  \/ DelistSubscription(c)
  \/ SendMessage(c)

Writer(c) == WriterStops(c) \/ TakeReply(c) \/ WriteReply(c) \/ WriteFails(c)

Next ==
  /\ panic = "none"
  /\ \/ BeginShutdown
     \/ \E c \in Conns :
          \/ RegisterConnection(c)
          \/ Handler(c)
          \/ Request(c)
          \/ HandleMessage(c)
          \/ ReadFails(c)
          \/ Writer(c)
          \/ PingFails(c)
          \/ ShutdownCloses(c)
          \/ \E w \in Closers : CloseStep(c, w)

Spec == Init /\ [][Next]_vars

\* Every goroutine that can go on does: a service call returns (the Redis
\* client has timeouts), a write returns or runs into its deadline, a read
\* returns once the socket is closed. Clients need not send, and connections
\* need not fail. A panic stops everything, which is no unfairness.
Running(A) == panic = "none" /\ A

FairSpec ==
  /\ Spec
  /\ \A c \in Conns :
       /\ WF_vars(Running(Handler(c)))
       /\ WF_vars(Running(Request(c)))
       /\ WF_vars(Running(conn[c].socketClosed /\ ReadFails(c)))
       /\ WF_vars(Running(Writer(c)))
       /\ WF_vars(Running(ShutdownCloses(c)))
       /\ \A w \in Closers : WF_vars(Running(CloseStep(c, w)))
-----------------------------------------------------------------------------
\* A client sees the replies to its messages in order and without a gap: what
\* is lost when the queue is full or the connection ends is always the end of
\* the stream, because whoever drops a reply has seen the connection close
\* (connection.go:180-187), however far behind the write pump is.
RepliesHaveNoGap ==
  \A c \in Conns : \A i \in 1..Len(client[c].got) : client[c].got[i] = i

\* The drain loop takes as many replies as it counted before it started
\* (connection.go:128-133), with no select around the receive: they are still
\* there, or the write pump would miss the end of its context.
DrainIsBacked ==
  \A c \in Conns :
    writer[c].at = "draining" => writer[c].left \in 1..Len(conn[c].send)

\* What the subscriber service has active for a connection is what the
\* connection can still end, each topic once, while its read pump runs, and the
\* orphans, however its requests and its end interleave: each topic that an
\* Unsubscribe failed to end (handlers.go:129-140), and everything it was
\* subscribed to when its read pump ended, which removeAllSubscriptions
\* (server.go:300-309) takes from the server's table and leaves active in the
\* service for good.
ServiceIsAccountedFor ==
  \A c \in Conns : \A t \in Topics :
    service[<<t, c>>] =
      orphans[<<t, c>>] + (IF t \in subs[c] /\ reader[c].at # "ended" THEN 1 ELSE 0)

\* The server's table of subscriptions (server.go:30-32): while a connection
\* is served and its read pump is between two requests, it lists the topics of
\* the connection; when its handler has removed it, nothing is left of it
\* unless a subscription completed after that.
TableMatchesConnections ==
  \A c \in Conns :
    /\ handler[c] = "serving" /\ reader[c].at \notin {"listing", "delisting"} =>
         \A t \in Topics : <<t, c>> \in subscriptions <=> t \in subs[c]
    /\ handler[c] = "ended" /\ c \notin late =>
         \A t \in Topics : <<t, c>> \notin subscriptions

\* Nothing is left of the connection but its place in the tables of others.
Gone(c) ==
  /\ c \notin connections
  /\ handler[c] = "ended"
  /\ reader[c].at = "ended"
  /\ writer[c].at = "ended"

\* A connection that is cancelled, or that Shutdown found in the table, ends:
\* its handler unregisters it and both its pumps return (server.go:176-180,
\* 262-265), unless the process dies first.
ClosedConnectionEnds ==
  \A c \in Conns :
    (conn[c].cancelled \/ c \in shutdown.todo) ~> (Gone(c) \/ panic # "none")

\* A reply that is due reaches the client, unless its connection ends.
RepliesArrive ==
  \A c \in Conns : \A n \in 1..MaxRequests :
    (client[c].due >= n) ~>
      (Len(client[c].got) >= n \/ conn[c].cancelled \/ panic # "none")

\* "Shutdown gracefully shuts down the WebSocket server" (server.go:251): the
\* process does not die of a channel closed twice while Shutdown, having found
\* a connection alive, is closing it.
ShutdownIsGraceful ==
  panic = "close of closed channel" =>
    \A c \in Conns : close[c]["shutdown"] \notin {"mark", "close send", "close socket"}

\* The replies the write pump holds, and those the client has.
Held(c) == IF writer[c].at \in {"writing", "flushing"} THEN 1 ELSE 0
Received(c) == Len(client[c].got)

\* The replies that will never be written: while the write pump runs, those the
\* read pump dropped.
LostReplies(c) ==
  client[c].due - Received(c)
    - (IF writer[c].at = "ended" THEN 0 ELSE Held(c) + Len(conn[c].send))

\* The replies of a connection are a stream that ends once (connection.go:110-133,
\* 173-198), however far behind the write pump is and whoever closes the
\* connection: whoever drops a reply has seen it close, or closes it. TLC takes
\* this form of \A c \in Conns : Replies(c)!Spec.
Replies(c) ==
  INSTANCE ReplyStream WITH
    due <- client[c].due, lost <- LostReplies(c), got <- client[c].got

StreamSpec ==
  /\ \A c \in Conns : Replies(c)!Init
  /\ [][\A c \in Conns : [Replies(c)!Next]_(Replies(c)!vars)]_vars
=============================================================================
