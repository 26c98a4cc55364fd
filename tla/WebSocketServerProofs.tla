----------------------- MODULE WebSocketServerProofs -----------------------
(***************************************************************************)
(* Proofs about WebSocketServer: its invariants for any number of          *)
(* connections, topics and client messages and any capacity of the send    *)
(* channel.                                                                *)
(*                                                                         *)
(* Three arguments, each about one connection. The read pump is the only   *)
(* goroutine that changes what its connection subscribes to, so the        *)
(* service, the connection and the table differ only between two of its    *)
(* own steps. The replies written, held by the write pump and queued are   *)
(* consecutive numbers, and the last of them is the last reply due until   *)
(* the read pump has dropped one; it has then seen the connection close,   *)
(* or is about to close it, and serves no other message.                   *)
(***************************************************************************)
EXTENDS WebSocketServer, SequenceTheorems, TLAPS

\* What the read pump relies on between the service's answer and its own next
\* step: only it changes the topics of its connection.
ReaderHolds(c) ==
  /\ reader[c].at \in {"subscribing", "listing", "unsubscribing", "delisting"}
       => reader[c].topic \in Topics
  /\ reader[c].at \in {"subscribing", "delisting"}
       => reader[c].topic \notin subs[c]
  /\ reader[c].at \in {"listing", "unsubscribing"}
       => reader[c].topic \in subs[c]

\* Before a connection is registered there is nothing of it.
NotYet(c) ==
  handler[c] = "none" =>
    /\ reader[c].at = "none"
    /\ writer[c].at = "none"
    /\ subs[c] = {}
    /\ \A t \in Topics : <<t, c>> \notin subscriptions

\* Served, the table has the topics of the connection but for the one its read
\* pump is about to list or to delist.
Listed(c) ==
  handler[c] = "serving" =>
    \A t \in Topics :
      \/ reader[c].at \in {"listing", "delisting"} /\ reader[c].topic = t
      \/ <<t, c>> \in subscriptions <=> t \in subs[c]

Forgotten(c) ==
  handler[c] = "ended" /\ c \notin late =>
    \A t \in Topics : <<t, c>> \notin subscriptions

\* A reply was dropped, and the read pump serves no more messages.
Dropped(c) ==
  /\ reader[c].at \in {"loop", "ended"}
  /\ conn[c].cancelled \/ close[c]["reader"] = "cancel"

Stream(c) ==
  /\ \A i \in 1..Received(c) : client[c].got[i] = i
  /\ writer[c].at # "ended" =>
       /\ Held(c) = 1 => writer[c].reply = Received(c) + 1
       /\ \A i \in 1..Len(conn[c].send) :
            conn[c].send[i] = Received(c) + Held(c) + i
       /\ client[c].due = Received(c) + Held(c) + Len(conn[c].send)
          \/ Dropped(c)
          \/ panic # "none"

\* The drain loop never waits for a reply that is not there.
Drain(c) ==
  /\ writer[c].at = "draining" => writer[c].left \in 1..Len(conn[c].send)
  /\ writer[c].at = "flushing" => writer[c].left \in 1..(Len(conn[c].send) + 1)

IInv ==
  /\ TypeOK
  /\ ServiceIsAccountedFor
  /\ \A c \in Conns :
       ReaderHolds(c) /\ NotYet(c) /\ Listed(c) /\ Forgotten(c)
  /\ \A c \in Conns : Stream(c) /\ Drain(c)
-----------------------------------------------------------------------------
(***************************************************************************)
(* A step is BeginShutdown, a step of Close or an action of one connection.*)
(***************************************************************************)
ConnStep(c) ==
  \/ RegisterConnection(c) \/ Handler(c) \/ Request(c) \/ HandleMessage(c)
  \/ ReadFails(c) \/ Writer(c) \/ PingFails(c) \/ ShutdownCloses(c)

LEMMA NextCases ==
  ASSUME Next
  PROVE  \/ BeginShutdown
         \/ \E c \in Conns : ConnStep(c)
         \/ \E c \in Conns, w \in Closers : CloseStep(c, w)
  BY DEF Next, ConnStep

LEMMA InitIInv == Init => IInv
<1> SUFFICES ASSUME Init PROVE IInv
  OBVIOUS
<1>1. NewConnection \in Connection
  BY EmptySeq DEF NewConnection, Connection
<1>2. TypeOK
  BY <1>1, ServerAssumption, EmptySeq
     DEF Init, TypeOK, Closers, CloseSteps, HandlerSteps, ReaderSteps, WriterSteps
<1>3. ServiceIsAccountedFor
  BY DEF Init, ServiceIsAccountedFor
<1>4. \A c \in Conns : ReaderHolds(c) /\ NotYet(c) /\ Listed(c) /\ Forgotten(c)
  BY DEF Init, ReaderHolds, NotYet, Listed, Forgotten
<1>5. \A c \in Conns : Stream(c) /\ Drain(c)
  <2>1. ASSUME NEW c \in Conns
        PROVE  /\ Len(client[c].got) = 0
               /\ Len(conn[c].send) = 0
               /\ client[c].due = 0
               /\ writer[c].at = "none"
    BY EmptySeq DEF Init, NewConnection
  <2>2. ASSUME NEW c \in Conns PROVE Stream(c)
    <3>1. Received(c) = 0 /\ Held(c) = 0
      BY <2>1 DEF Received, Held
    <3> QED BY <2>1, <3>1 DEF Stream, Received
  <2> QED BY <2>1, <2>2 DEF Drain
<1> QED BY <1>2, <1>3, <1>4, <1>5 DEF IInv
-----------------------------------------------------------------------------
(***************************************************************************)
(* Types.                                                                  *)
(***************************************************************************)
Clients == [sent : Nat, due : Nat, got : Seq(Nat)]
Readers == [at : ReaderSteps, topic : Topics \cup {NoTopic}]
Writers == [at : WriterSteps, reply : Nat, left : Nat]

LEMMA ElementTypes ==
  ASSUME TypeOK, NEW c \in Conns
  PROVE  /\ conn[c] \in Connection
         /\ conn[c].send \in Seq(Nat)
         /\ reader[c] \in Readers
         /\ writer[c] \in Writers
         /\ writer[c].reply \in Nat /\ writer[c].left \in Nat
         /\ client[c] \in Clients
         /\ client[c].due \in Nat /\ client[c].sent \in Nat
         /\ client[c].got \in Seq(Nat)
<1>1. conn[c] \in Connection /\ reader[c] \in Readers /\ writer[c] \in Writers
      /\ client[c] \in Clients
  BY DEF TypeOK, Readers, Writers, Clients
<1> QED BY <1>1 DEF Connection, Writers, Clients

LEMMA CloseTypes ==
  ASSUME TypeOK, NEW c \in Conns, NEW w \in Closers, CloseStep(c, w)
  PROVE  TypeOK'
<1> USE DEF TypeOK, tables, history
<1>1. conn[c] \in Connection
  OBVIOUS
<1>2. ASSUME NEW next \in CloseSteps
      PROVE  [close EXCEPT ![c][w] = next] \in [Conns -> [Closers -> CloseSteps]]
  OBVIOUS
<1>3. CASE CloseCancels(c, w)
  <2>1. [conn[c] EXCEPT !.cancelled = TRUE] \in Connection
    BY <1>1 DEF Connection
  <2>2. conn' = [conn EXCEPT ![c] = [conn[c] EXCEPT !.cancelled = TRUE]]
    BY <1>3 DEF CloseCancels
  <2>3. conn' \in [Conns -> Connection]
    BY <2>1, <2>2
  <2>4. "test" \in CloseSteps
    BY DEF CloseSteps
  <2>5. close' \in [Conns -> [Closers -> CloseSteps]]
    BY <1>2, <1>3, <2>4 DEF CloseCancels
  <2> QED BY <1>3, <2>3, <2>5 DEF CloseCancels
<1>4. CASE CloseTests(c, w)
  <2>1. {"mark", "out"} \subseteq CloseSteps
    BY DEF CloseSteps
  <2> QED BY <1>2, <1>4, <2>1 DEF CloseTests
<1>5. CASE CloseMarks(c, w)
  <2>1. CASE conn[c].closeClosed
    BY <1>5, <2>1 DEF CloseMarks, ClosePanics
  <2>2. CASE ~conn[c].closeClosed
    <3>1. [conn[c] EXCEPT !.alive = FALSE, !.closeClosed = TRUE] \in Connection
      BY <1>1 DEF Connection
    <3>2. conn' = [conn EXCEPT
                     ![c] = [conn[c] EXCEPT !.alive = FALSE, !.closeClosed = TRUE]]
      BY <1>5, <2>2 DEF CloseMarks
    <3>3. conn' \in [Conns -> Connection]
      BY <3>1, <3>2
    <3>4. "close send" \in CloseSteps
      BY DEF CloseSteps
    <3>5. close' \in [Conns -> [Closers -> CloseSteps]]
      <4>1. close' = [close EXCEPT ![c][w] = "close send"]
        BY <1>5, <2>2 DEF CloseMarks
      <4> QED BY <1>2, <3>4, <4>1
    <3>6. UNCHANGED <<tables, handler, reader, writer, shutdown, service, client, history,
                      panic>>
      BY <1>5, <2>2 DEF CloseMarks
    <3> QED BY <3>3, <3>5, <3>6
  <2> QED BY <2>1, <2>2
<1>6. CASE CloseSend(c, w)
  <2>1. [conn[c] EXCEPT !.sendClosed = TRUE] \in Connection
    BY <1>1 DEF Connection
  <2>2. conn' = [conn EXCEPT ![c] = [conn[c] EXCEPT !.sendClosed = TRUE]]
    BY <1>6 DEF CloseSend
  <2>3. conn' \in [Conns -> Connection]
    BY <2>1, <2>2
  <2>4. "close socket" \in CloseSteps
    BY DEF CloseSteps
  <2>5. close' \in [Conns -> [Closers -> CloseSteps]]
    BY <1>2, <1>6, <2>4 DEF CloseSend
  <2> QED BY <1>6, <2>3, <2>5 DEF CloseSend
<1>7. CASE CloseSocket(c, w)
  <2>1. [conn[c] EXCEPT !.socketClosed = TRUE] \in Connection
    BY <1>1 DEF Connection
  <2>2. conn' = [conn EXCEPT ![c] = [conn[c] EXCEPT !.socketClosed = TRUE]]
    BY <1>7 DEF CloseSocket
  <2>3. conn' \in [Conns -> Connection]
    BY <2>1, <2>2
  <2>4. "out" \in CloseSteps
    BY DEF CloseSteps
  <2>5. close' \in [Conns -> [Closers -> CloseSteps]]
    BY <1>2, <1>7, <2>4 DEF CloseSocket
  <2> QED BY <1>7, <2>3, <2>5 DEF CloseSocket
<1> QED BY <1>3, <1>4, <1>5, <1>6, <1>7 DEF CloseStep

\* Where a goroutine of connection c goes next.
LEMMA GoesTypes ==
  ASSUME TypeOK, NEW c \in Conns
  PROVE  /\ \A w \in Closers : CallClose(c, w)
                 => close' \in [Conns -> [Closers -> CloseSteps]]
         /\ \A at \in ReaderSteps, t \in Topics \cup {NoTopic} :
              ReaderGoes(c, at, t) =>
                reader' \in [Conns -> [at : ReaderSteps, topic : Topics \cup {NoTopic}]]
         /\ \A at \in WriterSteps, n \in Nat, left \in Nat :
              WriterGoes(c, at, n, left) =>
                writer' \in [Conns -> [at : WriterSteps, reply : Nat, left : Nat]]
<1>1. ASSUME NEW w \in Closers, CallClose(c, w)
      PROVE  close' \in [Conns -> [Closers -> CloseSteps]]
  BY <1>1 DEF TypeOK, CallClose, CloseSteps
<1>2. ASSUME NEW at \in ReaderSteps, NEW t \in Topics \cup {NoTopic},
             ReaderGoes(c, at, t)
      PROVE  reader' \in [Conns -> [at : ReaderSteps, topic : Topics \cup {NoTopic}]]
  <2>1. [at |-> at, topic |-> t] \in [at : ReaderSteps, topic : Topics \cup {NoTopic}]
    OBVIOUS
  <2> QED BY <1>2, <2>1 DEF TypeOK, ReaderGoes
<1>3. ASSUME NEW at \in WriterSteps, NEW n \in Nat, NEW left \in Nat,
             WriterGoes(c, at, n, left)
      PROVE  writer' \in [Conns -> [at : WriterSteps, reply : Nat, left : Nat]]
  <2>1. [at |-> at, reply |-> n, left |-> left]
          \in [at : WriterSteps, reply : Nat, left : Nat]
    OBVIOUS
  <2> QED BY <1>3, <2>1 DEF TypeOK, WriterGoes
<1> QED BY <1>1, <1>2, <1>3

LEMMA StepNames ==
  /\ {"loop", "reading", "subscribing", "listing", "unsubscribing", "delisting",
      "replying", "ended"} \subseteq ReaderSteps
  /\ {"select", "writing", "draining", "flushing", "ended"} \subseteq WriterSteps
  /\ {"serving", "leaving", "ended"} \subseteq HandlerSteps
  /\ {"reader", "writer", "shutdown"} \subseteq Closers
  BY DEF ReaderSteps, WriterSteps, HandlerSteps, Closers

LEMMA HandlerTypes ==
  ASSUME TypeOK, NEW c \in Conns, RegisterConnection(c) \/ Handler(c)
  PROVE  TypeOK'
<1> USE DEF TypeOK, tables, history
<1>1. CASE RegisterConnection(c)
  <2>1. reader' \in [Conns -> [at : ReaderSteps, topic : Topics \cup {NoTopic}]]
    <3>1. [reader[c] EXCEPT !.at = "loop"] \in Readers
      BY StepNames, ElementTypes DEF Readers
    <3>2. reader' = [reader EXCEPT ![c] = [reader[c] EXCEPT !.at = "loop"]]
      BY <1>1 DEF RegisterConnection
    <3> QED BY <3>1, <3>2 DEF Readers
  <2>2. writer' \in [Conns -> [at : WriterSteps, reply : Nat, left : Nat]]
    <3>1. [writer[c] EXCEPT !.at = "select"] \in Writers
      BY StepNames, ElementTypes DEF Writers
    <3>2. writer' = [writer EXCEPT ![c] = [writer[c] EXCEPT !.at = "select"]]
      BY <1>1 DEF RegisterConnection
    <3> QED BY <3>1, <3>2 DEF Writers
  <2> QED BY <1>1, <2>1, <2>2, StepNames DEF RegisterConnection
<1>2. CASE UnregisterConnection(c)
  BY <1>2, StepNames DEF UnregisterConnection
<1>3. CASE RemoveAllSubscriptions(c)
  BY <1>3, StepNames DEF RemoveAllSubscriptions
<1> QED BY <1>1, <1>2, <1>3 DEF Handler

LEMMA ReaderTypes ==
  ASSUME IInv, NEW c \in Conns, Request(c) \/ HandleMessage(c) \/ ReadFails(c)
  PROVE  TypeOK'
<1> USE DEF TypeOK, tables, history, Readers, Clients
<1>0. TypeOK
  BY DEF IInv
<1>1. ASSUME NEW at \in ReaderSteps, NEW t \in Topics \cup {NoTopic},
             ReaderGoes(c, at, t)
      PROVE  reader' \in [Conns -> Readers]
  BY <1>0, <1>1, GoesTypes DEF Readers
<1>2. CallClose(c, "reader") => close' \in [Conns -> [Closers -> CloseSteps]]
  BY <1>0, GoesTypes, StepNames
<1>e. ASSUME ReaderEnds(c),
             UNCHANGED <<tables, conn, handler, writer, shutdown, service, client, late,
                         panic>>
      PROVE  TypeOK'
  <2>1. reader' \in [Conns -> Readers]
    BY <1>1, <1>e, StepNames DEF ReaderEnds
  <2>2. orphans' \in [Topics \X Conns -> Nat]
    <3>1. \A tc \in Topics \X Conns : orphans[tc] \in Nat
      BY <1>0
    <3> QED BY <1>e, <3>1 DEF ReaderEnds
  <2> QED BY <1>0, <1>2, <1>e, <2>1, <2>2 DEF ReaderEnds
<1> DEFINE t == reader[c].topic
<1>3. CASE ReadLoop(c)
  <2>1. CASE ReaderEnds(c)
    BY <1>3, <1>e, <2>1 DEF ReadLoop
  <2>2. CASE ReaderGoes(c, "reading", NoTopic) /\ UNCHANGED <<close, orphans>>
    <3>1. reader' \in [Conns -> Readers]
      BY <1>1, <2>2, StepNames
    <3> QED BY <1>0, <1>3, <2>2, <3>1 DEF ReadLoop
  <2> QED BY <1>3, <2>1, <2>2 DEF ReadLoop
<1>4. CASE ServiceSubscribes(c)
  <2>1. t \in Topics
    BY <1>4 DEF IInv, ReaderHolds, ServiceSubscribes, ReaderAt
  <2>2. reader' \in [Conns -> Readers]
    BY <1>1, <1>4, <2>1, StepNames DEF ServiceSubscribes
  <2>3. service' \in [Topics \X Conns -> Nat]
    <3>1. service[<<t, c>>] + 1 \in Nat
      <4>1. service[<<t, c>>] \in Nat
        BY <1>0, <2>1
      <4> QED BY <4>1
    <3>2. service' = service
          \/ service' = [service EXCEPT ![<<t, c>>] = service[<<t, c>>] + 1]
      BY <1>4 DEF ServiceSubscribes
    <3> QED BY <1>0, <3>1, <3>2
  <2>4. subs' \in [Conns -> SUBSET Topics]
    <3>1. subs[c] \cup {t} \in SUBSET Topics
      BY <1>0, <2>1
    <3>2. subs' = subs \/ subs' = [subs EXCEPT ![c] = subs[c] \cup {t}]
      BY <1>4 DEF ServiceSubscribes
    <3> QED BY <1>0, <3>1, <3>2
  <2> QED BY <1>0, <1>4, <2>2, <2>3, <2>4 DEF ServiceSubscribes
<1>5. CASE ListSubscription(c)
  <2>1. t \in Topics
    BY <1>5 DEF IInv, ReaderHolds, ListSubscription, ReaderAt
  <2>2. reader' \in [Conns -> Readers]
    BY <1>1, <1>5, StepNames DEF ListSubscription
  <2> QED BY <1>0, <1>5, <2>1, <2>2 DEF ListSubscription
<1>6. CASE ServiceUnsubscribes(c)
  <2>1. t \in Topics /\ t \in subs[c]
    BY <1>6 DEF IInv, ReaderHolds, ServiceUnsubscribes, ReaderAt
  <2>2. reader' \in [Conns -> Readers]
    BY <1>1, <1>6, <2>1, StepNames DEF ServiceUnsubscribes
  <2>3. service[<<t, c>>] - 1 \in Nat
    <3>1. service[<<t, c>>] = orphans[<<t, c>>] + 1
      BY <1>6, <2>1 DEF IInv, ServiceIsAccountedFor, ServiceUnsubscribes, ReaderAt
    <3>2. orphans[<<t, c>>] \in Nat
      BY <1>0, <2>1
    <3> QED BY <3>1, <3>2
  <2>4. service' \in [Topics \X Conns -> Nat]
    BY <1>0, <1>6, <2>1, <2>3 DEF ServiceUnsubscribes
  <2>5. orphans' \in [Topics \X Conns -> Nat]
    <3>1. orphans[<<t, c>>] + 1 \in Nat
      <4>1. orphans[<<t, c>>] \in Nat
        BY <1>0, <2>1
      <4> QED BY <4>1
    <3>2. orphans' = orphans
          \/ orphans' = [orphans EXCEPT ![<<t, c>>] = orphans[<<t, c>>] + 1]
      BY <1>6 DEF ServiceUnsubscribes
    <3> QED BY <1>0, <3>1, <3>2
  <2>6. subs' \in [Conns -> SUBSET Topics]
    BY <1>0, <1>6 DEF ServiceUnsubscribes
  <2> QED BY <1>0, <1>6, <2>2, <2>4, <2>5, <2>6 DEF ServiceUnsubscribes
<1>7. CASE DelistSubscription(c)
  <2>1. reader' \in [Conns -> Readers]
    BY <1>1, <1>7, StepNames DEF DelistSubscription
  <2> QED BY <1>0, <1>7, <2>1 DEF DelistSubscription
<1>8. CASE SendMessage(c)
  <2>1. reader' \in [Conns -> Readers]
    BY <1>1, <1>8, StepNames DEF SendMessage
  <2>2. client' \in [Conns -> [sent : Nat, due : Nat, got : Seq(Nat)]]
    <3>1. [client[c] EXCEPT !.due = client[c].due + 1] \in Clients
      <4>1. client[c] \in Clients /\ client[c].due \in Nat
        BY <1>0, ElementTypes
      <4>2. client[c].due + 1 \in Nat
        BY <4>1
      <4> QED BY <4>1, <4>2
    <3>2. client' = [client EXCEPT ![c] = [client[c] EXCEPT !.due = client[c].due + 1]]
      BY <1>8 DEF SendMessage
    <3> QED BY <1>0, <3>1, <3>2
  <2>3. conn' \in [Conns -> Connection]
    <3>1. CASE QueueReply(c)
      <4> DEFINE q == Append(conn[c].send, client[c].due + 1)
      <4>1. q \in Seq(Nat)
        <5>1. conn[c].send \in Seq(Nat) /\ client[c].due + 1 \in Nat
          <6>1. conn[c].send \in Seq(Nat) /\ client[c].due \in Nat
            BY <1>0, ElementTypes
          <6> QED BY <6>1
        <5> QED BY <5>1, AppendProperties
      <4>2. [conn[c] EXCEPT !.send = q] \in Connection
        BY <1>0, <4>1, ElementTypes DEF Connection
      <4>3. conn' = [conn EXCEPT ![c] = [conn[c] EXCEPT !.send = q]]
        BY <3>1 DEF QueueReply
      <4> QED BY <1>0, <4>2, <4>3
    <3> QED BY <1>0, <1>8, <3>1
            DEF SendMessage, SendOnClosed, DropReply, CloseWhenFull
  <2>4. close' \in [Conns -> [Closers -> CloseSteps]]
    BY <1>0, <1>2, <1>8
       DEF SendMessage, QueueReply, SendOnClosed, DropReply, CloseWhenFull
  <2>5. panic' \in {"none", "send on closed channel", "close of closed channel"}
    BY <1>0, <1>8
       DEF SendMessage, QueueReply, SendOnClosed, DropReply, CloseWhenFull
  <2> QED BY <1>0, <1>8, <2>1, <2>2, <2>3, <2>4, <2>5 DEF SendMessage
<1>9. CASE HandleMessage(c)
  <2>1. reader' \in [Conns -> Readers]
    BY <1>1, <1>9, StepNames
       DEF HandleMessage, HandleSubscribe, HandleUnsubscribe, HandlePublish, HandleAck
  <2>2. client' \in [Conns -> [sent : Nat, due : Nat, got : Seq(Nat)]]
    <3>1. [client[c] EXCEPT !.sent = client[c].sent + 1] \in Clients
      <4>1. client[c] \in Clients /\ client[c].sent \in Nat
        BY <1>0, ElementTypes
      <4>2. client[c].sent + 1 \in Nat
        BY <4>1
      <4> QED BY <4>1, <4>2
    <3>2. client' = [client EXCEPT ![c] = [client[c] EXCEPT !.sent = client[c].sent + 1]]
      BY <1>9 DEF HandleMessage
    <3> QED BY <1>0, <3>1, <3>2
  <2> QED BY <1>0, <1>9, <2>1, <2>2 DEF HandleMessage
<1>10. CASE ReadFails(c)
  BY <1>10, <1>e DEF ReadFails
<1> QED BY <1>3, <1>4, <1>5, <1>6, <1>7, <1>8, <1>9, <1>10 DEF Request

LEMMA WriterTypes ==
  ASSUME IInv, NEW c \in Conns, Writer(c) \/ PingFails(c) \/ ShutdownCloses(c)
  PROVE  TypeOK'
<1> USE DEF TypeOK, tables, history, Writers, Clients
<1>0. TypeOK /\ Drain(c)
  BY DEF IInv
<1>1. ASSUME NEW at \in WriterSteps, NEW n \in Nat, NEW left \in Nat,
             WriterGoes(c, at, n, left)
      PROVE  writer' \in [Conns -> Writers]
  BY <1>0, <1>1, GoesTypes
<1>2. \A w \in Closers :
        CallClose(c, w) => close' \in [Conns -> [Closers -> CloseSteps]]
  BY <1>0, GoesTypes
<1>3. /\ conn[c].send \in Seq(Nat) /\ conn[c] \in Connection
      /\ writer[c].reply \in Nat /\ writer[c].left \in Nat
      /\ client[c].got \in Seq(Nat) /\ client[c] \in Clients
  BY <1>0, ElementTypes
<1>4. CASE WriterStops(c) \/ WriteFails(c) \/ PingFails(c)
  <2>1. writer' \in [Conns -> Writers]
    BY <1>1, <1>4, StepNames DEF WriterStops, WriteFails, PingFails
  <2>2. close' \in [Conns -> [Closers -> CloseSteps]]
    BY <1>2, <1>4, StepNames DEF WriterStops, WriteFails, PingFails
  <2> QED BY <1>0, <1>4, <2>1, <2>2 DEF WriterStops, WriteFails, PingFails
<1>5. CASE TakeReply(c)
  <2>1. Head(conn[c].send) \in Nat /\ Tail(conn[c].send) \in Seq(Nat)
    BY <1>3, <1>5, HeadTailProperties DEF TakeReply
  <2>2. writer' \in [Conns -> Writers]
    BY <1>1, <1>3, <1>5, <2>1, StepNames DEF TakeReply
  <2>3. [conn[c] EXCEPT !.send = Tail(conn[c].send)] \in Connection
    BY <1>3, <2>1 DEF Connection
  <2>4. conn' = [conn EXCEPT ![c] = [conn[c] EXCEPT !.send = Tail(conn[c].send)]]
    BY <1>5 DEF TakeReply
  <2> QED BY <1>0, <1>5, <2>2, <2>3, <2>4 DEF TakeReply
<1>6. CASE WriteReply(c)
  <2>1. LeftToDrain(c) \in Nat
    <3>1. CASE writer[c].at = "writing"
      BY <1>3, <3>1, LenProperties DEF LeftToDrain
    <3>2. CASE writer[c].at = "flushing"
      <4>1. writer[c].left \in 1..(Len(conn[c].send) + 1)
        BY <1>0, <3>2 DEF Drain
      <4> QED BY <1>3, <3>2, <4>1 DEF LeftToDrain
    <3> QED BY <1>6, <3>1, <3>2 DEF WriteReply, WriterAt
  <2>2. writer' \in [Conns -> Writers]
    BY <1>1, <1>6, <2>1, StepNames DEF WriteReply
  <2>3. [client[c] EXCEPT !.got = Append(client[c].got, writer[c].reply)] \in Clients
    <3>1. Append(client[c].got, writer[c].reply) \in Seq(Nat)
      BY <1>3, AppendProperties
    <3> QED BY <1>3, <3>1
  <2>4. client' = [client EXCEPT ![c] =
          [client[c] EXCEPT !.got = Append(client[c].got, writer[c].reply)]]
    BY <1>6 DEF WriteReply
  <2>5. client' \in [Conns -> Clients]
    BY <1>0, <2>3, <2>4
  <2> QED BY <1>0, <1>6, <2>2, <2>5 DEF WriteReply
<1>7. CASE ShutdownCloses(c)
  BY <1>0, <1>2, <1>7, StepNames DEF ShutdownCloses
<1> QED BY <1>4, <1>5, <1>6, <1>7 DEF Writer

LEMMA NextTypes == IInv /\ [Next]_vars => TypeOK'
<1> SUFFICES ASSUME IInv, [Next]_vars PROVE TypeOK'
  OBVIOUS
<1>1. TypeOK
  BY DEF IInv
<1>2. CASE BeginShutdown
  BY <1>1, <1>2 DEF BeginShutdown, TypeOK, tables, history
<1>3. ASSUME NEW c \in Conns, ConnStep(c) PROVE TypeOK'
  BY <1>1, <1>3, HandlerTypes, ReaderTypes, WriterTypes DEF ConnStep
<1>4. ASSUME NEW c \in Conns, NEW w \in Closers, CloseStep(c, w) PROVE TypeOK'
  BY <1>1, <1>4, CloseTypes
<1>5. CASE UNCHANGED vars
  BY <1>1, <1>5 DEF TypeOK, vars, tables, history
<1> QED BY <1>2, <1>3, <1>4, <1>5, NextCases
-----------------------------------------------------------------------------
(***************************************************************************)
(* The service and the connection: only the read pump's own steps between  *)
(* a request and its reply change either.                                  *)
(***************************************************************************)
Between == {"subscribing", "listing", "unsubscribing", "delisting"}

LEMMA QuietService ==
  ASSUME IInv, NEW c \in Conns, NEW r \in Readers, r.at \notin Between,
         r.at # "ended", reader[c].at # "ended",
         reader' = [reader EXCEPT ![c] = r],
         UNCHANGED <<subs, service, orphans>>
  PROVE  ServiceIsAccountedFor' /\ \A d \in Conns : ReaderHolds(d)'
<1>1. ServiceIsAccountedFor'
  <2>1. \A d \in Conns : reader'[d].at = "ended" <=> reader[d].at = "ended"
    BY DEF IInv, TypeOK
  <2> QED BY <2>1 DEF IInv, ServiceIsAccountedFor
<1>2. ASSUME NEW d \in Conns PROVE ReaderHolds(d)'
  <2>1. reader'[d] = reader[d] \/ reader'[d] = r
    BY DEF IInv, TypeOK
  <2> QED BY <2>1 DEF IInv, ReaderHolds, Between
<1> QED BY <1>1, <1>2

LEMMA MovedService ==
  ASSUME IInv, NEW c \in Conns, NEW t \in Topics, NEW at \in ReaderSteps,
         ReaderGoes(c, at, t),
         \A d \in Conns \ {c} : subs'[d] = subs[d],
         \/ at = "subscribing" /\ t \notin subs'[c]
         \/ at = "delisting" /\ t \notin subs'[c]
         \/ at \in {"listing", "unsubscribing"} /\ t \in subs'[c]
  PROVE  \A d \in Conns : ReaderHolds(d)'
<1> SUFFICES ASSUME NEW d \in Conns PROVE ReaderHolds(d)'
  OBVIOUS
<1>1. CASE d = c
  <2>1. reader'[c] = [at |-> at, topic |-> t]
    BY DEF IInv, TypeOK, ReaderGoes
  <2> QED BY <1>1, <2>1 DEF ReaderHolds
<1>2. CASE d # c
  <2>1. reader'[d] = reader[d] /\ subs'[d] = subs[d]
    BY <1>2 DEF IInv, TypeOK, ReaderGoes
  <2> QED BY <2>1 DEF IInv, ReaderHolds
<1> QED BY <1>1, <1>2

\* Whether connection c can still end a subscription to t.
Endable(c, t) == IF t \in subs[c] /\ reader[c].at # "ended" THEN 1 ELSE 0

\* The end of a read pump seen from every subscription.
LEMMA EndService ==
  ASSUME IInv, NEW c \in Conns, ReaderEnds(c), reader[c].at # "ended",
         UNCHANGED <<subs, service>>
  PROVE  ServiceIsAccountedFor' /\ \A d \in Conns : ReaderHolds(d)'
<1>1. /\ reader'[c].at = "ended"
      /\ \A d \in Conns \ {c} : reader'[d] = reader[d]
  BY DEF IInv, TypeOK, ReaderEnds, ReaderGoes
<1>2. ASSUME NEW d \in Conns, NEW t \in Topics
      PROVE  service'[<<t, d>>] = orphans'[<<t, d>>] + Endable(d, t)'
  <2>1. orphans'[<<t, d>>] = orphans[<<t, d>>] + (IF d = c /\ t \in subs[c] THEN 1 ELSE 0)
    BY DEF ReaderEnds
  <2>2. service[<<t, d>>] = orphans[<<t, d>>] + Endable(d, t) /\ orphans[<<t, d>>] \in Nat
    BY DEF IInv, TypeOK, ServiceIsAccountedFor, Endable
  <2>3. CASE d = c
    BY <1>1, <2>1, <2>2, <2>3 DEF Endable
  <2>4. CASE d # c
    BY <1>1, <2>1, <2>2, <2>4 DEF Endable
  <2> QED BY <2>3, <2>4
<1>3. ServiceIsAccountedFor'
  BY <1>2 DEF ServiceIsAccountedFor, Endable
<1>4. \A d \in Conns : ReaderHolds(d)'
  BY <1>1 DEF IInv, ReaderHolds
<1> QED BY <1>3, <1>4

\* A step with which no read pump ends.
LEMMA ReaderGoesOn ==
  ASSUME TypeOK, NEW c \in Conns, NEW at, NEW t, ReaderGoes(c, at, t)
  PROVE  /\ reader'[c].at = at
         /\ at # "ended" /\ reader[c].at # "ended" =>
              \A d \in Conns : reader'[d].at = "ended" <=> reader[d].at = "ended"
<1> DEFINE r == [at |-> at, topic |-> t]
<1>1. r.at = at
  OBVIOUS
<1> HIDE DEF r
<1>2. reader' = [reader EXCEPT ![c] = r]
  BY DEF ReaderGoes, r
<1>3. \A d \in Conns : reader'[d] = IF d = c THEN r ELSE reader[d]
  BY <1>2 DEF TypeOK
<1> QED BY <1>1, <1>3

LEMMA ServiceCounts ==
  ASSUME IInv, NEW c \in Conns, NEW t \in Topics
  PROVE  /\ service[<<t, c>>] \in Nat
         /\ orphans[<<t, c>>] \in Nat
         /\ service[<<t, c>>] = orphans[<<t, c>>] + Endable(c, t)
  BY DEF Endable, IInv, TypeOK, ServiceIsAccountedFor

LEMMA ServiceStep ==
  ASSUME IInv, [Next]_vars
  PROVE  ServiceIsAccountedFor' /\ \A d \in Conns : ReaderHolds(d)'
<1> USE DEF tables, history
<1>0. ASSUME NEW c \in Conns, NEW at \in ReaderSteps, at \notin Between
      PROVE  /\ [at |-> at, topic |-> NoTopic] \in Readers
             /\ [at |-> at, topic |-> NoTopic].at \notin Between
  BY <1>0 DEF Readers
<1>q. ASSUME NEW c \in Conns, NEW at \in ReaderSteps \ {"ended"}, at \notin Between,
             reader[c].at # "ended", ReaderGoes(c, at, NoTopic),
             UNCHANGED <<subs, service, orphans>>
      PROVE  ServiceIsAccountedFor' /\ \A d \in Conns : ReaderHolds(d)'
  BY <1>0, <1>q, QuietService DEF ReaderGoes
<1>f. {"loop", "reading", "replying"} \subseteq ReaderSteps \ Between
  BY DEF ReaderSteps, Between
<1>1. ASSUME UNCHANGED <<subs, service, orphans, reader>>
      PROVE  ServiceIsAccountedFor' /\ \A d \in Conns : ReaderHolds(d)'
  BY <1>1 DEF IInv, ServiceIsAccountedFor, ReaderHolds
<1>2. CASE BeginShutdown \/ UNCHANGED vars
  BY <1>1, <1>2 DEF BeginShutdown, vars
<1>3. ASSUME NEW c \in Conns, NEW w \in Closers, CloseStep(c, w)
      PROVE  UNCHANGED <<subs, service, orphans, reader>>
  BY <1>3 DEF CloseStep, CloseCancels, CloseTests, CloseMarks, ClosePanics,
              CloseSend, CloseSocket
<1>4. ASSUME NEW c \in Conns, Handler(c) \/ Writer(c) \/ PingFails(c) \/ ShutdownCloses(c)
      PROVE  UNCHANGED <<subs, service, orphans, reader>>
  BY <1>4 DEF Handler, UnregisterConnection, RemoveAllSubscriptions, Writer,
              WriterStops, TakeReply, WriteReply, WriteFails, PingFails, ShutdownCloses
<1>5. ASSUME NEW c \in Conns, RegisterConnection(c)
      PROVE  ServiceIsAccountedFor' /\ \A d \in Conns : ReaderHolds(d)'
  <2> DEFINE r == [reader[c] EXCEPT !.at = "loop"]
  <2>1. r \in Readers /\ r.at \notin Between /\ r.at # "ended"
    <3>1. reader[c] \in Readers
      BY ElementTypes DEF IInv
    <3> QED BY <3>1 DEF Readers, ReaderSteps, Between
  <2>2. reader' = [reader EXCEPT ![c] = r]
    BY <1>5 DEF RegisterConnection
  <2>3. reader[c].at # "ended"
    BY <1>5 DEF RegisterConnection, IInv, NotYet
  <2> QED BY <1>5, <2>1, <2>2, <2>3, QuietService DEF RegisterConnection
<1>6. ASSUME NEW c \in Conns,
             \/ ReadLoop(c) \/ ListSubscription(c) \/ DelistSubscription(c)
             \/ SendMessage(c) \/ ReadFails(c)
      PROVE  ServiceIsAccountedFor' /\ \A d \in Conns : ReaderHolds(d)'
  <2>1. CASE ReaderEnds(c) /\ (ReadLoop(c) \/ ReadFails(c))
    BY <2>1, EndService DEF ReadLoop, ReadFails, ReaderAt
  <2>2. CASE \/ ReadLoop(c) /\ ReaderGoes(c, "reading", NoTopic) /\ UNCHANGED orphans
             \/ ListSubscription(c) \/ DelistSubscription(c) \/ SendMessage(c)
    BY <1>q, <1>f, <2>2
       DEF ReadLoop, ListSubscription, DelistSubscription, SendMessage, ReaderAt
  <2> QED BY <1>6, <2>1, <2>2 DEF ReadLoop, ReadFails
<1>7. ASSUME NEW c \in Conns, HandleMessage(c)
      PROVE  ServiceIsAccountedFor' /\ \A d \in Conns : ReaderHolds(d)'
  <2>1. UNCHANGED <<subs, service, orphans>>
    BY <1>7 DEF HandleMessage
  <2>0. reader[c].at = "reading"
    BY <1>7 DEF HandleMessage, ReaderAt
  <2>2. ServiceIsAccountedFor'
    <3>1. \E at \in {"replying", "loop", "subscribing", "unsubscribing"},
             u \in Topics \cup {NoTopic} : ReaderGoes(c, at, u)
      BY <1>7 DEF HandleMessage, HandleSubscribe, HandleUnsubscribe, HandlePublish,
         HandleAck
    <3>2. \A d \in Conns : reader'[d].at = "ended" <=> reader[d].at = "ended"
      BY <2>0, <3>1, ReaderGoesOn DEF IInv
    <3> QED BY <2>1, <3>2 DEF IInv, ServiceIsAccountedFor
  <2>3. ASSUME NEW t \in Topics, HandleSubscribe(c, t) \/ HandleUnsubscribe(c, t)
        PROVE  \A d \in Conns : ReaderHolds(d)'
    <3>1. \/ ReaderGoes(c, "replying", NoTopic)
          \/ ReaderGoes(c, "subscribing", t) /\ t \notin subs[c]
          \/ ReaderGoes(c, "unsubscribing", t) /\ t \in subs[c]
      BY <2>3 DEF HandleSubscribe, HandleUnsubscribe
    <3> QED BY <1>q, <1>f, <2>0, <2>1, <3>1, MovedService, StepNames
  <2>4. ASSUME HandlePublish(c) \/ HandleAck(c)
        PROVE  \A d \in Conns : ReaderHolds(d)'
    BY <1>q, <1>f, <2>0, <2>1, <2>4 DEF HandlePublish, HandleAck
  <2> QED BY <1>7, <2>2, <2>3, <2>4 DEF HandleMessage
<1>8. ASSUME NEW c \in Conns, ServiceSubscribes(c)
      PROVE  ServiceIsAccountedFor' /\ \A d \in Conns : ReaderHolds(d)'
  <2> DEFINE t == reader[c].topic
  <2>1. t \in Topics /\ t \notin subs[c]
    BY <1>8 DEF IInv, ReaderHolds, ServiceSubscribes, ReaderAt
  <2>2. CASE UNCHANGED <<service, subs>> /\ ReaderGoes(c, "replying", NoTopic)
    BY <1>8, <1>q, <1>f, <2>2 DEF ServiceSubscribes, ReaderAt
  <2>3. CASE /\ service' = [service EXCEPT ![<<t, c>>] = @ + 1]
             /\ subs' = [subs EXCEPT ![c] = @ \cup {t}]
             /\ ReaderGoes(c, "listing", t)
    <3>1. orphans' = orphans
      BY <1>8 DEF ServiceSubscribes
    <3>2. ASSUME NEW d \in Conns, NEW u \in Topics
          PROVE  service'[<<u, d>>]
                   = orphans'[<<u, d>>] + Endable(d, u)'
      <4>1. CASE <<u, d>> = <<t, c>>
        <5>1. service'[<<t, c>>] = service[<<t, c>>] + 1
          BY <2>1, <2>3 DEF IInv, TypeOK
        <5>2. Endable(c, t) = 0
          BY <2>1 DEF Endable
        <5>3. t \in subs'[c] /\ reader'[c].at # "ended"
          <6>1. TypeOK
            BY DEF IInv
          <6>2. reader'[c].at = "listing"
            BY <2>3, <6>1, ReaderGoesOn
          <6> QED BY <2>1, <2>3, <6>1, <6>2 DEF TypeOK
        <5>4. Endable(d, u)' = 1
          BY <4>1, <5>3 DEF Endable
        <5> QED BY <2>1, <3>1, <4>1, <5>1, <5>2, <5>4, ServiceCounts
      <4>2. CASE <<u, d>> # <<t, c>>
        <5>1. service'[<<u, d>>] = service[<<u, d>>]
          BY <2>1, <2>3, <4>2 DEF IInv, TypeOK
        <5>2. /\ reader'[d].at = "ended" <=> reader[d].at = "ended"
              /\ u \in subs'[d] <=> u \in subs[d]
          <6>1. reader[c].at # "ended" /\ TypeOK
            BY <1>8 DEF ServiceSubscribes, ReaderAt, IInv
          <6>2. reader'[d].at = "ended" <=> reader[d].at = "ended"
            BY <2>3, <6>1, ReaderGoesOn
          <6>3. u \in subs'[d] <=> u \in subs[d]
            BY <2>1, <2>3, <4>2 DEF IInv, TypeOK
          <6> QED BY <6>2, <6>3
        <5>3. Endable(d, u)' = Endable(d, u)
          BY <5>2 DEF Endable
        <5> QED BY <3>1, <5>1, <5>3, ServiceCounts
      <4> QED BY <4>1, <4>2
    <3>3. ServiceIsAccountedFor'
      BY <3>2 DEF ServiceIsAccountedFor, Endable
    <3>4. t \in subs'[c] /\ \A d \in Conns \ {c} : subs'[d] = subs[d]
      BY <2>3 DEF IInv, TypeOK
    <3> QED BY <2>1, <2>3, <3>3, <3>4, MovedService, StepNames
  <2> QED BY <1>8, <2>2, <2>3 DEF ServiceSubscribes
<1>9. ASSUME NEW c \in Conns, ServiceUnsubscribes(c)
      PROVE  ServiceIsAccountedFor' /\ \A d \in Conns : ReaderHolds(d)'
  <2> DEFINE t == reader[c].topic
  <2>1. t \in Topics /\ t \in subs[c]
    BY <1>9 DEF IInv, ReaderHolds, ServiceUnsubscribes, ReaderAt
  <2>2. /\ subs' = [subs EXCEPT ![c] = @ \ {t}]
        /\ ReaderGoes(c, "delisting", t)
        /\ \/ service' = [service EXCEPT ![<<t, c>>] = @ - 1] /\ orphans' = orphans
           \/ orphans' = [orphans EXCEPT ![<<t, c>>] = @ + 1] /\ service' = service
    BY <1>9 DEF ServiceUnsubscribes
  <2>3. t \notin subs'[c] /\ \A d \in Conns \ {c} : subs'[d] = subs[d]
    BY <2>2 DEF IInv, TypeOK
  <2>4. ASSUME NEW d \in Conns, NEW u \in Topics
        PROVE  service'[<<u, d>>]
                 = orphans'[<<u, d>>] + Endable(d, u)'
    <3>1. CASE <<u, d>> = <<t, c>>
      <4>1. service[<<t, c>>] \in Nat /\ orphans[<<t, c>>] \in Nat
            /\ service[<<t, c>>] = orphans[<<t, c>>] + 1
        BY <1>9, <2>1, ServiceCounts DEF Endable, ServiceUnsubscribes, ReaderAt
      <4>2. \/ /\ service'[<<t, c>>] = service[<<t, c>>] - 1
               /\ orphans'[<<t, c>>] = orphans[<<t, c>>]
            \/ /\ orphans'[<<t, c>>] = orphans[<<t, c>>] + 1
               /\ service'[<<t, c>>] = service[<<t, c>>]
        BY <2>1, <2>2 DEF IInv, TypeOK
      <4>3. service'[<<t, c>>] = orphans'[<<t, c>>] + 0
        BY <4>1, <4>2
      <4> QED BY <2>3, <3>1, <4>3 DEF Endable
    <3>2. CASE <<u, d>> # <<t, c>>
      <4>1. /\ service'[<<u, d>>] = service[<<u, d>>]
            /\ orphans'[<<u, d>>] = orphans[<<u, d>>]
        BY <2>1, <2>2, <3>2 DEF IInv, TypeOK
      <4>2. /\ reader'[d].at = "ended" <=> reader[d].at = "ended"
            /\ u \in subs'[d] <=> u \in subs[d]
        <5>1. reader[c].at # "ended" /\ TypeOK
          BY <1>9 DEF ServiceUnsubscribes, ReaderAt, IInv
        <5>2. reader'[d].at = "ended" <=> reader[d].at = "ended"
          BY <2>2, <5>1, ReaderGoesOn
        <5>3. u \in subs'[d] <=> u \in subs[d]
          BY <2>1, <2>2, <3>2 DEF IInv, TypeOK
        <5> QED BY <5>2, <5>3
      <4>3. Endable(d, u)' = Endable(d, u)
        BY <4>2 DEF Endable
      <4> QED BY <4>1, <4>3, ServiceCounts
    <3> QED BY <3>1, <3>2
  <2>5. ServiceIsAccountedFor'
    BY <2>4 DEF ServiceIsAccountedFor, Endable
  <2> QED BY <2>1, <2>2, <2>3, <2>5, MovedService, StepNames
<1>10. ASSUME NEW c \in Conns, ConnStep(c)
       PROVE  ServiceIsAccountedFor' /\ \A d \in Conns : ReaderHolds(d)'
  BY <1>1, <1>4, <1>5, <1>6, <1>7, <1>8, <1>9, <1>10 DEF ConnStep, Request
<1> QED BY <1>1, <1>2, <1>3, <1>10, NextCases
-----------------------------------------------------------------------------
(***************************************************************************)
(* The server's table.                                                     *)
(***************************************************************************)
TableOK(d) == NotYet(d) /\ Listed(d) /\ Forgotten(d)

\* A step that leaves the tables alone, and where no read pump enters or leaves
\* the moment in which it is about to change them.
LEMMA TableFrame ==
  ASSUME IInv, NEW d \in Conns,
         UNCHANGED <<subscriptions, subs, handler, late>>,
         \/ reader'[d].at = reader[d].at /\ reader'[d].topic = reader[d].topic
         \/ /\ reader[d].at \notin {"none", "listing", "delisting"}
            /\ reader'[d].at # "none",
         (writer'[d].at = "none") <=> (writer[d].at = "none")
  PROVE  TableOK(d)'
<1>1. NotYet(d) /\ Listed(d) /\ Forgotten(d)
  BY DEF IInv
<1>2. NotYet(d)'
  BY <1>1 DEF NotYet
<1>3. Listed(d)'
  BY <1>1 DEF Listed
<1>4. Forgotten(d)'
  BY <1>1 DEF Forgotten
<1> QED BY <1>2, <1>3, <1>4 DEF TableOK

\* A step of connection c seen from another one.
LEMMA TableOther ==
  ASSUME IInv, NEW c \in Conns, NEW d \in Conns, d # c, ConnStep(c)
  PROVE  TableOK(d)'
<1> USE DEF tables, history
<1>1. /\ handler'[d] = handler[d]
      /\ reader'[d] = reader[d]
      /\ writer'[d] = writer[d]
  <2>1. \A at, t : ReaderGoes(c, at, t) => reader'[d] = reader[d]
    BY DEF IInv, TypeOK, ReaderGoes
  <2>2. \A at, n, k : WriterGoes(c, at, n, k) => writer'[d] = writer[d]
    BY DEF IInv, TypeOK, WriterGoes
  <2>3. CASE RegisterConnection(c) \/ Handler(c)
    BY <2>3 DEF RegisterConnection, Handler, UnregisterConnection,
                RemoveAllSubscriptions, IInv, TypeOK
  <2>4. CASE Request(c) \/ ReadFails(c)
    BY <2>1, <2>4 DEF Request, ReadFails, ReadLoop, ReaderEnds, ServiceSubscribes,
       ListSubscription, ServiceUnsubscribes, DelistSubscription, SendMessage
  <2>5. CASE HandleMessage(c)
    BY <2>1, <2>5 DEF HandleMessage, HandleSubscribe, HandleUnsubscribe,
                      HandlePublish, HandleAck
  <2>6. CASE Writer(c) \/ PingFails(c) \/ ShutdownCloses(c)
    BY <2>2, <2>6 DEF Writer, PingFails, ShutdownCloses, WriterStops, TakeReply,
                      WriteReply, WriteFails
  <2> QED BY <2>3, <2>4, <2>5, <2>6 DEF ConnStep
<1>2. /\ subs'[d] = subs[d]
      /\ d \in late' <=> d \in late
      /\ \A t \in Topics : <<t, d>> \in subscriptions' <=> <<t, d>> \in subscriptions
  <2>1. CASE RegisterConnection(c) \/ Handler(c)
    BY <2>1 DEF RegisterConnection, Handler, UnregisterConnection,
                RemoveAllSubscriptions, IInv, TypeOK
  <2>2. CASE ServiceSubscribes(c) \/ ServiceUnsubscribes(c)
    BY <2>2 DEF ServiceSubscribes, ServiceUnsubscribes, IInv, TypeOK
  <2>3. CASE ListSubscription(c) \/ DelistSubscription(c)
    BY <2>3 DEF ListSubscription, DelistSubscription
  <2>4. CASE ReadLoop(c) \/ SendMessage(c) \/ HandleMessage(c) \/ ReadFails(c)
    BY <2>4 DEF ReadLoop, SendMessage, HandleMessage, ReadFails, ReaderEnds
  <2>5. CASE Writer(c) \/ PingFails(c) \/ ShutdownCloses(c)
    BY <2>5 DEF Writer, PingFails, ShutdownCloses, WriterStops, TakeReply,
                WriteReply, WriteFails
  <2> QED BY <2>1, <2>2, <2>3, <2>4, <2>5 DEF ConnStep, Request
<1>3. NotYet(d) /\ Listed(d) /\ Forgotten(d)
  BY DEF IInv
<1>4. NotYet(d)'
  BY <1>1, <1>2, <1>3 DEF NotYet
<1>5. Listed(d)'
  BY <1>1, <1>2, <1>3 DEF Listed
<1>6. Forgotten(d)'
  BY <1>1, <1>2, <1>3 DEF Forgotten
<1> QED BY <1>4, <1>5, <1>6 DEF TableOK

LEMMA TableOwn ==
  ASSUME IInv, NEW c \in Conns, ConnStep(c)
  PROVE  TableOK(c)'
<1> USE DEF tables, history
<1> DEFINE t == reader[c].topic
<1>0. /\ NotYet(c) /\ Listed(c) /\ Forgotten(c) /\ ReaderHolds(c)
      /\ TypeOK
  BY DEF IInv
<1>r. reader \in [Conns -> Readers]
  BY <1>0 DEF TypeOK, Readers
<1>1. CASE RegisterConnection(c)
  <2>1. handler'[c] = "serving" /\ UNCHANGED <<subscriptions, subs>>
    BY <1>0, <1>1 DEF TypeOK, RegisterConnection
  <2> QED BY <1>0, <1>1, <2>1 DEF RegisterConnection, TableOK, NotYet, Listed, Forgotten
<1>2. CASE UnregisterConnection(c)
  <2>1. handler'[c] = "leaving"
    BY <1>0, <1>2 DEF TypeOK, UnregisterConnection
  <2> QED BY <2>1 DEF TableOK, NotYet, Listed, Forgotten
<1>3. CASE RemoveAllSubscriptions(c)
  <2>1. /\ handler'[c] = "ended"
        /\ \A u \in Topics : <<u, c>> \notin subscriptions'
    BY <1>0, <1>3 DEF TypeOK, RemoveAllSubscriptions
  <2> QED BY <2>1 DEF TableOK, NotYet, Listed, Forgotten
<1>4. CASE ReadLoop(c) \/ SendMessage(c) \/ ReadFails(c)
  <2>1. /\ reader[c].at \in {"loop", "replying", "reading"}
        /\ \E at \in {"loop", "reading", "ended"} : ReaderGoes(c, at, NoTopic)
        /\ UNCHANGED <<subscriptions, subs, handler, late, writer>>
    BY <1>4 DEF ReadLoop, SendMessage, ReadFails, ReaderEnds, ReaderAt
  <2>2. reader'[c].at # "none"
    BY <2>1, <1>r DEF ReaderGoes
  <2> QED BY <2>1, <2>2, TableFrame
<1>5. CASE HandleMessage(c)
  <2>1. /\ reader[c].at = "reading"
        /\ \E at \in {"loop", "replying", "subscribing", "unsubscribing"},
              u \in Topics \cup {NoTopic} : ReaderGoes(c, at, u)
        /\ UNCHANGED <<subscriptions, subs, handler, late, writer>>
    BY <1>5 DEF HandleMessage, ReaderAt, HandleSubscribe, HandleUnsubscribe,
                HandlePublish, HandleAck
  <2>2. reader'[c].at # "none"
    BY <2>1, <1>r DEF ReaderGoes
  <2> QED BY <2>1, <2>2, TableFrame
<1>6. CASE ServiceSubscribes(c)
  <2>1. reader[c].at = "subscribing" /\ handler'[c] = handler[c] /\ handler[c] # "none"
    BY <1>0, <1>6 DEF ServiceSubscribes, ReaderAt, NotYet
  <2>2. CASE UNCHANGED <<service, subs>> /\ ReaderGoes(c, "replying", NoTopic)
    <3>1. reader'[c].at # "none"
      BY <1>r, <2>2 DEF ReaderGoes
    <3> QED BY <1>6, <2>1, <2>2, <3>1, TableFrame DEF ServiceSubscribes
  <2>3. CASE subs' = [subs EXCEPT ![c] = @ \cup {t}] /\ ReaderGoes(c, "listing", t)
    <3>1. /\ reader'[c].at = "listing" /\ reader'[c].topic = t
          /\ subs'[c] = subs[c] \cup {t}
          /\ UNCHANGED <<subscriptions, late>>
      BY <1>0, <1>r, <1>6, <2>3 DEF ServiceSubscribes, TypeOK, ReaderGoes
    <3> QED BY <1>0, <2>1, <3>1 DEF TableOK, NotYet, Listed, Forgotten
  <2> QED BY <1>6, <2>2, <2>3 DEF ServiceSubscribes
<1>7. CASE ServiceUnsubscribes(c)
  <2>1. reader[c].at = "unsubscribing" /\ handler'[c] = handler[c] /\ handler[c] # "none"
    BY <1>0, <1>7 DEF ServiceUnsubscribes, ReaderAt, NotYet
  <2>2. /\ reader'[c].at = "delisting" /\ reader'[c].topic = t
        /\ subs'[c] = subs[c] \ {t}
        /\ UNCHANGED <<subscriptions, late>>
    BY <1>0, <1>r, <1>7 DEF ServiceUnsubscribes, TypeOK, ReaderGoes
  <2> QED BY <1>0, <2>1, <2>2 DEF TableOK, NotYet, Listed, Forgotten
<1>8. CASE ListSubscription(c)
  <2>1. /\ reader[c].at = "listing" /\ t \in Topics /\ t \in subs[c]
        /\ handler'[c] = handler[c] /\ handler[c] # "none"
    BY <1>0, <1>8 DEF ListSubscription, ReaderAt, NotYet, ReaderHolds
  <2>2. /\ reader'[c].at = "replying"
        /\ subs' = subs
        /\ subscriptions' = subscriptions \cup {<<t, c>>}
        /\ late' = IF handler[c] = "ended" THEN late \cup {c} ELSE late
    BY <1>r, <1>8 DEF ListSubscription, ReaderGoes
  <2> QED BY <1>0, <2>1, <2>2 DEF TableOK, NotYet, Listed, Forgotten
<1>9. CASE DelistSubscription(c)
  <2>1. /\ reader[c].at = "delisting" /\ t \in Topics /\ t \notin subs[c]
        /\ handler'[c] = handler[c] /\ handler[c] # "none"
    BY <1>0, <1>9 DEF DelistSubscription, ReaderAt, NotYet, ReaderHolds
  <2>2. /\ reader'[c].at = "replying"
        /\ UNCHANGED <<subs, late>>
        /\ subscriptions' = subscriptions \ {<<t, c>>}
    BY <1>r, <1>9 DEF DelistSubscription, ReaderGoes
  <2> QED BY <1>0, <2>1, <2>2 DEF TableOK, NotYet, Listed, Forgotten
<1>10. CASE Writer(c) \/ PingFails(c) \/ ShutdownCloses(c)
  <2>1. UNCHANGED <<subscriptions, subs, handler, late, reader>>
    BY <1>10 DEF Writer, PingFails, ShutdownCloses, WriterStops, TakeReply,
                 WriteReply, WriteFails
  <2>2. ASSUME NEW at, NEW n, NEW k, WriterGoes(c, at, n, k)
        PROVE  writer'[c].at = at
    BY <1>0, <2>2 DEF TypeOK, WriterGoes
  <2>3. writer'[c].at = "none" <=> writer[c].at = "none"
    <3>1. CASE WriterStops(c) \/ WriteFails(c) \/ PingFails(c)
      BY <2>2, <3>1 DEF WriterStops, WriteFails, PingFails, WriterAt
    <3>2. CASE TakeReply(c)
      BY <2>2, <3>2 DEF TakeReply, WriterAt
    <3>3. CASE WriteReply(c)
      BY <2>2, <3>3 DEF WriteReply, WriterAt
    <3>4. CASE ShutdownCloses(c)
      BY <3>4 DEF ShutdownCloses
    <3> QED BY <1>10, <3>1, <3>2, <3>3, <3>4 DEF Writer
  <2> QED BY <2>1, <2>3, TableFrame
<1> QED BY <1>1, <1>2, <1>3, <1>4, <1>5, <1>6, <1>7, <1>8, <1>9, <1>10
        DEF ConnStep, Handler, Request

LEMMA TableStep ==
  ASSUME IInv, [Next]_vars
  PROVE  \A d \in Conns : TableOK(d)'
<1> SUFFICES ASSUME NEW d \in Conns PROVE TableOK(d)'
  OBVIOUS
<1>1. CASE BeginShutdown \/ UNCHANGED vars
  BY <1>1, TableFrame DEF BeginShutdown, vars, tables, history
<1>2. ASSUME NEW c \in Conns, NEW w \in Closers, CloseStep(c, w) PROVE TableOK(d)'
  BY <1>2, TableFrame
     DEF CloseStep, CloseCancels, CloseTests, CloseMarks, ClosePanics, CloseSend,
         CloseSocket, tables, history
<1>3. ASSUME NEW c \in Conns, ConnStep(c) PROVE TableOK(d)'
  BY <1>3, TableOther, TableOwn
<1> QED BY <1>1, <1>2, <1>3, NextCases
-----------------------------------------------------------------------------
(***************************************************************************)
(* The replies.                                                            *)
(***************************************************************************)
StreamOK(d) == Stream(d) /\ Drain(d)

\* A step that touches neither the queue, the write pump, nor what is due and
\* received.
LEMMA StreamFrame ==
  ASSUME IInv, NEW d \in Conns,
         conn'[d].send = conn[d].send,
         writer'[d].at = writer[d].at,
         writer'[d].reply = writer[d].reply,
         writer'[d].left = writer[d].left,
         client'[d].due = client[d].due,
         client'[d].got = client[d].got,
         Dropped(d) => Dropped(d)',
         panic = "none" \/ panic' = panic
  PROVE  StreamOK(d)'
<1>1. Stream(d) /\ Drain(d)
  BY DEF IInv
<1>2. Received(d)' = Received(d) /\ Held(d)' = Held(d)
  BY DEF Received, Held
<1>3. Stream(d)'
  BY <1>1, <1>2 DEF Stream
<1>4. Drain(d)'
  BY <1>1 DEF Drain
<1> QED BY <1>3, <1>4 DEF StreamOK

\* The write pump has ended: what it received is all that counts.
LEMMA StreamEnds ==
  ASSUME IInv, NEW d \in Conns,
         writer'[d].at = "ended",
         client'[d].got = client[d].got
  PROVE  StreamOK(d)'
<1>1. Stream(d)
  BY DEF IInv
<1>2. Received(d)' = Received(d)
  BY DEF Received
<1>3. Stream(d)'
  BY <1>1, <1>2 DEF Stream
<1>4. Drain(d)'
  BY DEF Drain
<1> QED BY <1>3, <1>4 DEF StreamOK

\* Close writes and queues nothing.
LEMMA CloseKeepsQueues ==
  ASSUME IInv, NEW c \in Conns, NEW w \in Closers, CloseStep(c, w), NEW d \in Conns
  PROVE  /\ UNCHANGED <<writer, client, reader>>
         /\ conn'[d].send = conn[d].send
         /\ conn[d].cancelled => conn'[d].cancelled
         /\ CloseCancels(c, w) /\ d = c => conn'[d].cancelled
<1>0. TypeOK
  BY DEF IInv
<1>1. UNCHANGED <<writer, client, reader>>
  BY DEF CloseStep, CloseCancels, CloseTests, CloseMarks, ClosePanics, CloseSend,
         CloseSocket
<1>2. /\ conn'[d].send = conn[d].send
      /\ conn[d].cancelled => conn'[d].cancelled
      /\ CloseCancels(c, w) /\ d = c => conn'[d].cancelled
  <2>1. conn \in [Conns -> Connection] /\ conn[c] \in Connection
    BY <1>0 DEF TypeOK
  <2>2. CASE CloseCancels(c, w)
    <3>1. conn' = [conn EXCEPT ![c] = [conn[c] EXCEPT !.cancelled = TRUE]]
      BY <2>2 DEF CloseCancels
    <3> QED BY <2>1, <3>1 DEF Connection
  <2>3. CASE CloseTests(c, w)
    BY <2>3 DEF CloseTests, CloseCancels
  <2>4. CASE CloseMarks(c, w)
    <3>1. ~CloseCancels(c, w)
      BY <2>4 DEF CloseMarks, CloseCancels
    <3>2. CASE conn' = conn
      BY <3>1, <3>2
    <3>3. CASE conn' = [conn EXCEPT
                 ![c] = [conn[c] EXCEPT !.alive = FALSE, !.closeClosed = TRUE]]
      BY <2>1, <3>1, <3>3 DEF Connection
    <3> QED BY <2>4, <3>2, <3>3 DEF CloseMarks, ClosePanics
  <2>5. CASE CloseSend(c, w)
    <3>1. conn' = [conn EXCEPT ![c] = [conn[c] EXCEPT !.sendClosed = TRUE]]
      BY <2>5 DEF CloseSend
    <3>2. ~CloseCancels(c, w)
      BY <2>5 DEF CloseSend, CloseCancels
    <3> QED BY <2>1, <3>1, <3>2 DEF Connection
  <2>6. CASE CloseSocket(c, w)
    <3>1. conn' = [conn EXCEPT ![c] = [conn[c] EXCEPT !.socketClosed = TRUE]]
      BY <2>6 DEF CloseSocket
    <3>2. ~CloseCancels(c, w)
      BY <2>6 DEF CloseSocket, CloseCancels
    <3> QED BY <2>1, <3>1, <3>2 DEF Connection
  <2> QED BY <2>2, <2>3, <2>4, <2>5, <2>6 DEF CloseStep
<1> QED BY <1>1, <1>2

LEMMA StreamClose ==
  ASSUME IInv, panic = "none", NEW c \in Conns, NEW w \in Closers, CloseStep(c, w),
         NEW d \in Conns
  PROVE  StreamOK(d)'
<1>0. TypeOK
  BY DEF IInv
<1>1. UNCHANGED <<writer, client, reader>>
  BY CloseKeepsQueues
<1>2. /\ conn'[d].send = conn[d].send
      /\ conn[d].cancelled => conn'[d].cancelled
      /\ CloseCancels(c, w) /\ d = c => conn'[d].cancelled
  BY CloseKeepsQueues
<1>3. close[d]["reader"] = "cancel"
        => close'[d]["reader"] = "cancel" \/ conn'[d].cancelled
  <2>1. close \in [Conns -> [Closers -> CloseSteps]] /\ "reader" \in Closers
    BY <1>0, StepNames DEF TypeOK
  <2>2. ASSUME NEW next \in CloseSteps, close' = [close EXCEPT ![c][w] = next]
        PROVE  close'[d]["reader"] = close[d]["reader"] \/ (d = c /\ w = "reader")
    BY <2>1, <2>2
  <2>3. CASE CloseCancels(c, w)
    <3>1. close' = [close EXCEPT ![c][w] = "test"] /\ "test" \in CloseSteps
      BY <2>3 DEF CloseCancels, CloseSteps
    <3> QED BY <1>2, <2>2, <2>3, <3>1
  <2>4. CASE ~CloseCancels(c, w)
    <3>1. close' = close \/ \E next \in CloseSteps : close' = [close EXCEPT ![c][w] = next]
      BY <2>4 DEF CloseStep, CloseTests, CloseMarks, ClosePanics, CloseSend,
                  CloseSocket, CloseSteps
    <3>2. close[c][w] # "cancel"
      BY <2>4 DEF CloseStep, CloseTests, CloseMarks, CloseSend, CloseSocket
    <3> QED BY <2>2, <3>1, <3>2
  <2> QED BY <2>3, <2>4
<1>4. Dropped(d) => Dropped(d)'
  BY <1>1, <1>2, <1>3 DEF Dropped
<1> QED BY <1>1, <1>2, <1>4, StreamFrame

\* The actions of a connection leave the others alone.
LEMMA OthersStand ==
  ASSUME IInv, NEW c \in Conns, NEW d \in Conns, d # c, ConnStep(c)
  PROVE  /\ conn'[d] = conn[d] /\ client'[d] = client[d]
         /\ reader'[d] = reader[d] /\ writer'[d] = writer[d]
         /\ close'[d] = close[d]
<1> USE DEF tables, history
<1>0. TypeOK
  BY DEF IInv
<1>1. conn'[d] = conn[d] /\ client'[d] = client[d]
  <2>1. CASE RegisterConnection(c) \/ Handler(c) \/ PingFails(c) \/ ShutdownCloses(c)
             \/ ReadFails(c)
    BY <2>1 DEF RegisterConnection, Handler, UnregisterConnection, ReadFails,
                RemoveAllSubscriptions, PingFails, ShutdownCloses
  <2>2. CASE Request(c)
    BY <1>0, <2>2 DEF TypeOK, Request, ReadLoop, ServiceSubscribes, ListSubscription,
       ServiceUnsubscribes, DelistSubscription, SendMessage, QueueReply,
       SendOnClosed, DropReply, CloseWhenFull
  <2>3. CASE HandleMessage(c)
    BY <1>0, <2>3 DEF TypeOK, HandleMessage
  <2>4. CASE Writer(c)
    BY <1>0, <2>4 DEF TypeOK, Writer, WriterStops, TakeReply, WriteReply, WriteFails
  <2> QED BY <2>1, <2>2, <2>3, <2>4 DEF ConnStep
<1>2. reader'[d] = reader[d] /\ writer'[d] = writer[d]
  <2>1. CASE RegisterConnection(c) \/ Handler(c)
    BY <1>0, <2>1 DEF TypeOK, RegisterConnection, Handler, UnregisterConnection,
                      RemoveAllSubscriptions
  <2>2. CASE Request(c) \/ ReadFails(c)
    BY <1>0, <2>2 DEF TypeOK, ReaderGoes, Request, ReadFails, ReadLoop,
       ReaderEnds, ServiceSubscribes, ListSubscription, ServiceUnsubscribes,
       DelistSubscription, SendMessage
  <2>3. CASE HandleMessage(c)
    BY <1>0, <2>3 DEF TypeOK, ReaderGoes, HandleMessage, HandleSubscribe,
       HandleUnsubscribe, HandlePublish, HandleAck
  <2>4. CASE Writer(c) \/ PingFails(c) \/ ShutdownCloses(c)
    BY <1>0, <2>4 DEF TypeOK, WriterGoes, Writer, PingFails, ShutdownCloses,
                      WriterStops, TakeReply, WriteReply, WriteFails
  <2> QED BY <2>1, <2>2, <2>3, <2>4 DEF ConnStep
<1>3. close'[d] = close[d]
  <2>1. \A w \in Closers : CallClose(c, w) => close'[d] = close[d]
    BY <1>0 DEF TypeOK, CallClose
  <2>2. \/ close' = close
        \/ \E w \in Closers : CallClose(c, w)
    BY StepNames DEF ConnStep, RegisterConnection, Handler, UnregisterConnection,
       RemoveAllSubscriptions, Request, ReadLoop, ReaderEnds, ServiceSubscribes,
       ListSubscription, ServiceUnsubscribes, DelistSubscription, SendMessage,
       QueueReply, SendOnClosed, DropReply, CloseWhenFull, HandleMessage,
       ReadFails, Writer, WriterStops, TakeReply, WriteReply, WriteFails,
       PingFails, ShutdownCloses
  <2> QED BY <2>1, <2>2
<1> QED BY <1>1, <1>2, <1>3

LEMMA StreamOther ==
  ASSUME IInv, panic = "none", NEW c \in Conns, NEW d \in Conns, d # c, ConnStep(c)
  PROVE  StreamOK(d)'
<1>1. Dropped(d) => Dropped(d)'
  BY OthersStand DEF Dropped
<1>2. panic = "none" \/ panic' = panic
  OBVIOUS
<1> QED BY <1>1, <1>2, OthersStand, StreamFrame

\* Appending the next number keeps a run of consecutive numbers.
LEMMA AppendNext ==
  ASSUME NEW q \in Seq(Nat), NEW k \in Nat, NEW n \in Nat,
         \A i \in 1..Len(q) : q[i] = k + i,
         n = k + Len(q) + 1
  PROVE  /\ Len(Append(q, n)) = Len(q) + 1
         /\ \A i \in 1..Len(Append(q, n)) : Append(q, n)[i] = k + i
<1>1. /\ Len(Append(q, n)) = Len(q) + 1
      /\ \A i \in 1..Len(q) : Append(q, n)[i] = q[i]
      /\ Append(q, n)[Len(q) + 1] = n
  BY AppendProperties
<1>2. Len(q) \in Nat
  BY LenProperties
<1>3. ASSUME NEW i \in 1..(Len(q) + 1) PROVE Append(q, n)[i] = k + i
  <2>1. CASE i \in 1..Len(q)
    BY <1>1, <2>1
  <2>2. CASE i = Len(q) + 1
    BY <1>1, <1>2, <2>2
  <2> QED BY <1>2, <2>1, <2>2
<1> QED BY <1>1, <1>3

LEMMA TailNext ==
  ASSUME NEW q \in Seq(Nat), NEW k \in Nat, q # << >>,
         \A i \in 1..Len(q) : q[i] = k + i
  PROVE  /\ Head(q) = k + 1
         /\ Len(q) \in Nat \ {0}
         /\ Len(Tail(q)) = Len(q) - 1
         /\ \A i \in 1..Len(Tail(q)) : Tail(q)[i] = k + 1 + i
<1>1. /\ Len(q) \in Nat /\ Len(q) # 0
      /\ Len(Tail(q)) = Len(q) - 1
      /\ \A i \in 1..Len(Tail(q)) : Tail(q)[i] = q[i + 1]
      /\ Head(q) = q[1]
  BY HeadTailProperties, EmptySeq, LenProperties
<1>2. ASSUME NEW i \in 1..Len(Tail(q)) PROVE Tail(q)[i] = k + 1 + i
  <2>1. i + 1 \in 1..Len(q)
    BY <1>1
  <2>2. Tail(q)[i] = k + (i + 1)
    BY <1>1, <2>1
  <2> QED BY <2>2
<1> QED BY <1>1, <1>2

\* What Stream says of connection c while its write pump goes on.
LEMMA StreamFacts ==
  ASSUME IInv, NEW c \in Conns
  PROVE  /\ conn[c].send \in Seq(Nat) /\ Len(conn[c].send) \in Nat
         /\ client[c].got \in Seq(Nat) /\ Received(c) \in Nat
         /\ Held(c) \in {0, 1}
         /\ client[c].due \in Nat
         /\ Received(c) = Len(client[c].got)
         /\ \A i \in 1..Received(c) : client[c].got[i] = i
<1>1. TypeOK /\ Stream(c)
  BY DEF IInv
<1>2. conn[c].send \in Seq(Nat) /\ client[c].got \in Seq(Nat) /\ client[c].due \in Nat
  BY <1>1, ElementTypes
<1> QED BY <1>1, <1>2, LenProperties DEF Stream, Held, Received

LEMMA StreamSend ==
  ASSUME IInv, panic = "none", NEW c \in Conns, SendMessage(c)
  PROVE  StreamOK(c)'
<1>0. TypeOK /\ Stream(c) /\ Drain(c)
  BY DEF IInv
<1>1. /\ reader[c].at = "replying"
      /\ reader'[c].at = "loop"
      /\ client'[c].due = client[c].due + 1
      /\ client'[c].got = client[c].got
      /\ writer' = writer
  <2>1. reader \in [Conns -> Readers] /\ client \in [Conns -> Clients]
    BY <1>0 DEF TypeOK, Readers, Clients
  <2> QED BY <2>1 DEF SendMessage, ReaderAt, ReaderGoes, Clients
<1>2. ~Dropped(c)
  BY <1>1 DEF Dropped
<1>3. Received(c)' = Received(c) /\ Held(c)' = Held(c)
  BY <1>1 DEF Received, Held
<1> DEFINE q == conn[c].send
           k == Received(c) + Held(c)
<1>4. CASE QueueReply(c) /\ writer[c].at # "ended"
  <2>1. conn'[c].send = Append(q, client[c].due + 1)
    <3>1. conn \in [Conns -> Connection]
      BY <1>0 DEF TypeOK
    <3> QED BY <1>4, <3>1 DEF QueueReply, Connection
  <2>2. client[c].due = k + Len(q) /\ \A i \in 1..Len(q) : q[i] = k + i
    BY <1>0, <1>2, <1>4 DEF Stream
  <2>3. k \in Nat /\ client[c].due + 1 \in Nat /\ client[c].due + 1 = k + Len(q) + 1
    BY <2>2, StreamFacts
  <2>4. /\ Len(Append(q, client[c].due + 1)) = Len(q) + 1
        /\ \A i \in 1..Len(Append(q, client[c].due + 1)) :
             Append(q, client[c].due + 1)[i] = k + i
    BY <2>2, <2>3, StreamFacts, AppendNext
  <2>5. k' = k
    BY <1>3
  <2>6. client'[c].due = k' + Len(conn'[c].send)
    BY <1>1, <2>1, <2>2, <2>3, <2>4, <2>5, StreamFacts
  <2>7. Stream(c)'
    BY <1>0, <1>1, <1>3, <2>1, <2>4, <2>5, <2>6 DEF Stream
  <2>8. Len(conn'[c].send) = Len(q) + 1 /\ Len(q) \in Nat
    BY <2>1, <2>4, StreamFacts
  <2>9. writer[c].left \in Nat
    BY <1>0, ElementTypes
  <2>10. Drain(c)'
    BY <1>0, <1>1, <2>8, <2>9 DEF Drain
  <2> QED BY <2>7, <2>10 DEF StreamOK
<1>5. CASE writer[c].at = "ended"
  BY <1>1, <1>5, StreamEnds
<1>6. CASE ~QueueReply(c) /\ writer[c].at # "ended"
  <2>2. conn' = conn
    BY <1>6 DEF SendMessage, SendOnClosed, DropReply, CloseWhenFull
  <2>3. conn'[c].cancelled \/ close'[c]["reader"] = "cancel" \/ panic' # "none"
    <3>1. CASE SendOnClosed(c) \/ DropReply(c)
      BY <2>2, <3>1 DEF SendOnClosed, DropReply
    <3>2. CASE CloseWhenFull(c)
      BY <1>0, <3>2, StepNames DEF CloseWhenFull, CallClose, TypeOK
    <3> QED BY <1>6, <3>1, <3>2 DEF SendMessage
  <2>4. Dropped(c)' \/ panic' # "none"
    BY <1>1, <2>3 DEF Dropped
  <2>5. Stream(c)'
    BY <1>0, <1>1, <1>3, <2>2, <2>4 DEF Stream
  <2>6. Drain(c)'
    BY <1>0, <1>1, <2>2 DEF Drain
  <2> QED BY <2>5, <2>6 DEF StreamOK
<1> QED BY <1>4, <1>5, <1>6

LEMMA StreamTake ==
  ASSUME IInv, panic = "none", NEW c \in Conns, TakeReply(c)
  PROVE  StreamOK(c)'
<1>0. TypeOK /\ Stream(c) /\ Drain(c)
  BY DEF IInv
<1> DEFINE q == conn[c].send
           k == Received(c) + Held(c)
<1>1. /\ q # << >>
      /\ writer[c].at \in {"select", "draining"}
      /\ conn'[c].send = Tail(q)
      /\ writer'[c].reply = Head(q)
      /\ writer'[c].at = IF writer[c].at = "select" THEN "writing" ELSE "flushing"
      /\ writer[c].at = "draining" => writer'[c].left = writer[c].left
      /\ client' = client
  <2>1. writer \in [Conns -> Writers] /\ conn \in [Conns -> Connection]
    BY <1>0 DEF TypeOK, Writers
  <2> QED BY <2>1 DEF TakeReply, WriterAt, WriterGoes, Connection
<1>2. Held(c) = 0 /\ Held(c)' = 1 /\ Received(c)' = Received(c)
  BY <1>1 DEF Held, Received
<1>3. \A i \in 1..Len(q) : q[i] = Received(c) + i
  BY <1>0, <1>1, <1>2, StreamFacts DEF Stream
<1>4. /\ Head(q) = Received(c) + 1
      /\ Len(q) \in Nat \ {0}
      /\ Len(Tail(q)) = Len(q) - 1
      /\ \A i \in 1..Len(Tail(q)) : Tail(q)[i] = Received(c) + 1 + i
  BY <1>1, <1>3, StreamFacts, TailNext
<1>5. /\ reader' = reader /\ close' = close /\ panic' = panic
      /\ conn'[c].cancelled = conn[c].cancelled
  <2>1. conn \in [Conns -> Connection]
    BY <1>0 DEF TypeOK
  <2> QED BY <2>1 DEF TakeReply, Connection
<1>6. client'[c].due = Received(c)' + Held(c)' + Len(conn'[c].send)
      \/ Dropped(c)'
  <2>1. client[c].due = Received(c) + 0 + Len(q) \/ Dropped(c)
    BY <1>0, <1>1, <1>2 DEF Stream
  <2>2. Dropped(c) => Dropped(c)'
    BY <1>5 DEF Dropped
  <2> QED BY <1>1, <1>2, <1>4, <2>1, <2>2, StreamFacts
<1>7. Stream(c)'
  BY <1>0, <1>1, <1>2, <1>4, <1>6 DEF Stream
<1>8. Drain(c)'
  BY <1>0, <1>1, <1>4 DEF Drain
<1> QED BY <1>7, <1>8 DEF StreamOK

LEMMA StreamWrite ==
  ASSUME IInv, panic = "none", NEW c \in Conns, WriteReply(c)
  PROVE  StreamOK(c)'
<1>0. TypeOK /\ Stream(c) /\ Drain(c)
  BY DEF IInv
<1> DEFINE g == client[c].got
           n == writer[c].reply
           left == LeftToDrain(c)
<1>1. /\ writer[c].at \in {"writing", "flushing"}
      /\ client'[c].got = Append(g, n)
      /\ client'[c].due = client[c].due
      /\ writer'[c].at = IF left = 0 THEN "select" ELSE "draining"
      /\ writer'[c].left = left
      /\ UNCHANGED <<conn, reader, close, panic>>
  <2>1. writer \in [Conns -> Writers] /\ client \in [Conns -> Clients]
    BY <1>0 DEF TypeOK, Writers, Clients
  <2> QED BY <2>1 DEF WriteReply, WriterAt, WriterGoes, Clients
<1>2. Held(c) = 1 /\ Held(c)' = 0
  BY <1>1 DEF Held
<1>3. n = Len(g) + 1
  BY <1>0, <1>1, <1>2 DEF Stream, Received
<1>4. /\ Len(Append(g, n)) = Len(g) + 1
      /\ \A i \in 1..Len(Append(g, n)) : Append(g, n)[i] = i
  <2>1. \A i \in 1..Len(g) : g[i] = 0 + i
    BY StreamFacts
  <2>2. n \in Nat /\ n = 0 + Len(g) + 1 /\ g \in Seq(Nat)
    BY <1>0, <1>3, ElementTypes, StreamFacts
  <2>3. \A i \in 1..Len(Append(g, n)) : Append(g, n)[i] = 0 + i
    BY <2>1, <2>2, AppendNext
  <2>4. Len(Append(g, n)) = Len(g) + 1
    BY <2>1, <2>2, AppendNext
  <2> QED BY <2>2, <2>3, <2>4, StreamFacts
<1>5. Received(c)' = Received(c) + 1
  BY <1>1, <1>4 DEF Received
<1>6. \A i \in 1..Received(c)' : client'[c].got[i] = i
  BY <1>1, <1>4 DEF Received
<1>7. Received(c)' + Held(c)' = Received(c) + Held(c)
  BY <1>2, <1>5, StreamFacts
<1>8. Dropped(c) => Dropped(c)'
  BY <1>1 DEF Dropped
<1>9. Stream(c)'
  <2>1. /\ \A i \in 1..Len(conn[c].send) :
             conn[c].send[i] = Received(c) + Held(c) + i
        /\ client[c].due = Received(c) + Held(c) + Len(conn[c].send) \/ Dropped(c)
    BY <1>0, <1>1 DEF Stream
  <2>2. /\ \A i \in 1..Len(conn'[c].send) :
             conn'[c].send[i] = Received(c)' + Held(c)' + i
        /\ client'[c].due = Received(c)' + Held(c)' + Len(conn'[c].send)
           \/ Dropped(c)'
    BY <1>1, <1>7, <1>8, <2>1
  <2> QED BY <1>2, <1>6, <2>2 DEF Stream
<1>10. Drain(c)'
  <2>1. left \in 0..Len(conn[c].send)
    <3>1. writer[c].left \in Nat
      BY <1>0, ElementTypes
    <3> QED BY <1>0, <1>1, <3>1, StreamFacts DEF Drain, LeftToDrain
  <2> QED BY <1>1, <2>1, StreamFacts DEF Drain
<1> QED BY <1>9, <1>10 DEF StreamOK

LEMMA StreamOwn ==
  ASSUME IInv, panic = "none", NEW c \in Conns, ConnStep(c)
  PROVE  StreamOK(c)'
<1> USE DEF tables, history
<1>0. TypeOK /\ NotYet(c)
  BY DEF IInv
<1>1. CASE RegisterConnection(c)
  <2>1. /\ writer[c].at = "none" /\ reader[c].at = "none"
        /\ writer'[c].at = "select"
        /\ UNCHANGED <<conn, client>>
    <3>1. writer \in [Conns -> Writers]
      BY <1>0 DEF TypeOK, Writers
    <3> QED BY <1>0, <1>1, <3>1 DEF RegisterConnection, NotYet, Writers
  <2>2. /\ Stream(c)
        /\ ~Dropped(c)
        /\ Held(c) = 0 /\ Held(c)' = 0
        /\ Received(c)' = Received(c)
    BY <2>1 DEF IInv, Held, Received, Dropped
  <2>3. Stream(c)'
    BY <2>1, <2>2 DEF Stream
  <2>4. Drain(c)'
    BY <2>1 DEF Drain
  <2> QED BY <2>3, <2>4 DEF StreamOK
<1>2. CASE \/ Handler(c) \/ ShutdownCloses(c)
  <2>1. /\ UNCHANGED <<conn, writer, client, reader>>
        /\ close' = close \/ CallClose(c, "shutdown")
    BY <1>2 DEF Handler, UnregisterConnection, RemoveAllSubscriptions, ShutdownCloses
  <2>2. close'[c]["reader"] = close[c]["reader"]
    BY <1>0, <2>1, StepNames DEF TypeOK, CallClose
  <2>3. Dropped(c) => Dropped(c)'
    BY <2>1, <2>2 DEF Dropped
  <2> QED BY <2>1, <2>3, StreamFrame
<1>3. CASE ReadLoop(c)
  <2>1. /\ reader[c].at = "loop" /\ close[c]["reader"] = "out"
        /\ UNCHANGED <<conn, writer, client>>
        /\ conn[c].cancelled => ReaderGoes(c, "ended", NoTopic)
    BY <1>3 DEF ReadLoop, ReaderEnds, ReaderAt, Out
  <2>2. reader \in [Conns -> Readers]
    BY <1>0 DEF TypeOK, Readers
  <2>3. Dropped(c) => Dropped(c)'
    BY <2>1, <2>2 DEF Dropped, ReaderGoes
  <2> QED BY <2>1, <2>3, StreamFrame
<1>4. CASE \/ ServiceSubscribes(c) \/ ListSubscription(c) \/ ServiceUnsubscribes(c)
           \/ DelistSubscription(c) \/ ReadFails(c)
  <2>1. /\ reader[c].at \notin {"loop", "ended"}
        /\ UNCHANGED <<conn, writer, client>>
    BY <1>4 DEF ServiceSubscribes, ListSubscription, ServiceUnsubscribes,
                DelistSubscription, ReadFails, ReaderAt
  <2>2. ~Dropped(c)
    BY <2>1 DEF Dropped
  <2> QED BY <2>1, <2>2, StreamFrame
<1>5. CASE HandleMessage(c)
  <2>1. /\ reader[c].at = "reading"
        /\ UNCHANGED <<conn, writer>>
        /\ client' = [client EXCEPT ![c].sent = @ + 1]
    BY <1>5 DEF HandleMessage, ReaderAt
  <2>2. client \in [Conns -> Clients]
    BY <1>0 DEF TypeOK, Clients
  <2>3. client'[c].due = client[c].due /\ client'[c].got = client[c].got
    BY <2>1, <2>2 DEF Clients
  <2>4. ~Dropped(c)
    BY <2>1 DEF Dropped
  <2> QED BY <2>1, <2>3, <2>4, StreamFrame
<1>6. CASE SendMessage(c)
  BY <1>6, StreamSend
<1>7. CASE WriterStops(c) \/ WriteFails(c) \/ PingFails(c)
  <2>1. WriterGoes(c, "ended", 0, 0) /\ client' = client
    BY <1>7 DEF WriterStops, WriteFails, PingFails
  <2>2. writer'[c].at = "ended"
    BY <1>0, <2>1 DEF TypeOK, WriterGoes
  <2> QED BY <2>1, <2>2, StreamEnds
<1>8. CASE TakeReply(c)
  BY <1>8, StreamTake
<1>9. CASE WriteReply(c)
  BY <1>9, StreamWrite
<1> QED BY <1>1, <1>2, <1>3, <1>4, <1>5, <1>6, <1>7, <1>8, <1>9
        DEF ConnStep, Request, Writer

LEMMA StreamStep ==
  ASSUME IInv, [Next]_vars
  PROVE  \A d \in Conns : StreamOK(d)'
<1> SUFFICES ASSUME NEW d \in Conns PROVE StreamOK(d)'
  OBVIOUS
<1>1. CASE UNCHANGED vars
  BY <1>1, StreamFrame DEF vars, Dropped
<1>2. CASE Next
  <2>1. panic = "none"
    BY <1>2 DEF Next
  <2>2. CASE BeginShutdown
    BY <2>1, <2>2, StreamFrame DEF BeginShutdown, Dropped
  <2>3. ASSUME NEW c \in Conns, NEW w \in Closers, CloseStep(c, w) PROVE StreamOK(d)'
    BY <2>1, <2>3, StreamClose
  <2>4. ASSUME NEW c \in Conns, ConnStep(c) PROVE StreamOK(d)'
    BY <2>1, <2>4, StreamOther, StreamOwn
  <2> QED BY <1>2, <2>2, <2>3, <2>4, NextCases
<1> QED BY <1>1, <1>2
-----------------------------------------------------------------------------
\* The inductive invariant: ReaderHolds, Listed and Stream tie the read pump to
\* the service, to the table and to the write pump.
THEOREM Invariant == Spec => []IInv
<1>1. IInv /\ [Next]_vars => IInv'
  <2> SUFFICES ASSUME IInv, [Next]_vars PROVE IInv'
    OBVIOUS
  <2>1. TypeOK'
    BY NextTypes
  <2>2. ServiceIsAccountedFor' /\ \A c \in Conns : ReaderHolds(c)'
    BY ServiceStep
  <2>3. \A c \in Conns : NotYet(c)' /\ Listed(c)' /\ Forgotten(c)'
    BY TableStep DEF TableOK
  <2>4. \A c \in Conns : Stream(c)' /\ Drain(c)'
    BY StreamStep DEF StreamOK
  <2> QED BY <2>1, <2>2, <2>3, <2>4 DEF IInv
<1> QED BY <1>1, InitIInv, PTL DEF Spec

\* Type correctness of the server for any number of connections.
THEOREM TypeCorrect == Spec => []TypeOK
<1>1. IInv => TypeOK
  BY DEF IInv
<1> QED BY <1>1, Invariant, PTL

\* sendMessage and writePump: however slow the write pump and however full the
\* queue, a client never sees a reply after one it missed.
THEOREM NoGap == Spec => []RepliesHaveNoGap
<1>1. IInv => RepliesHaveNoGap
  BY DEF IInv, Stream, Received, RepliesHaveNoGap
<1> QED BY <1>1, Invariant, PTL

\* The drain loop of writePump never blocks in its receive.
THEOREM DrainBacked == Spec => []DrainIsBacked
<1>1. IInv => DrainIsBacked
  BY DEF IInv, Drain, DrainIsBacked
<1> QED BY <1>1, Invariant, PTL

\* Whatever the subscriber service has active for a connection, its read pump can
\* still end, or it is known to be an orphan: an Unsubscribe failed, or the read
\* pump ended without it (handlers.go:129-140, server.go:300-309).
THEOREM ServiceAccounted == Spec => []ServiceIsAccountedFor
<1>1. IInv => ServiceIsAccountedFor
  BY DEF IInv
<1> QED BY <1>1, Invariant, PTL

\* The server's table lists what its connections subscribe to, and forgets a
\* connection that is gone unless its read pump came late.
THEOREM TableMatches == Spec => []TableMatchesConnections
<1>1. IInv => TableMatchesConnections
  BY DEF IInv, Listed, Forgotten, TableMatchesConnections
<1> QED BY <1>1, Invariant, PTL
-----------------------------------------------------------------------------
(***************************************************************************)
(* Refinement: the replies of a connection are a ReplyStream.              *)
(***************************************************************************)
StreamNext(d) == [Replies(d)!Next]_(Replies(d)!vars)

\* What keeps the queue, the write pump and the client as they are.
LEMMA RepliesFrame ==
  ASSUME NEW d \in Conns,
         Len(conn'[d].send) = Len(conn[d].send),
         (writer'[d].at = "ended") <=> (writer[d].at = "ended"),
         Held(d)' = Held(d),
         client'[d].due = client[d].due,
         client'[d].got = client[d].got
  PROVE  StreamNext(d)
<1>1. LostReplies(d)' = LostReplies(d)
  BY DEF LostReplies, Received
<1> QED BY <1>1 DEF StreamNext, Replies!vars

\* Nothing is lost on the way while the write pump runs, and what it has not
\* written when it ends.
LEMMA RunningLoses ==
  ASSUME NEW c \in Conns, writer[c].at # "ended"
  PROVE  LostReplies(c) = client[c].due - Received(c) - (Held(c) + Len(conn[c].send))
BY DEF LostReplies

\* A reply that falls due is queued while none is lost, or lost like the one
\* before it.
LEMMA RepliesSend ==
  ASSUME IInv, panic = "none", NEW c \in Conns, SendMessage(c)
  PROVE  StreamNext(c)
<1>0. TypeOK /\ Stream(c)
  BY DEF IInv
<1>1. /\ reader[c].at = "replying"
      /\ client'[c].due = client[c].due + 1
      /\ client'[c].got = client[c].got
      /\ writer' = writer
  <2>1. reader \in [Conns -> Readers] /\ client \in [Conns -> Clients]
    BY <1>0 DEF TypeOK, Readers, Clients
  <2> QED BY <2>1 DEF SendMessage, ReaderAt, ReaderGoes, Clients
<1>2. Received(c)' = Received(c) /\ Held(c)' = Held(c)
  BY <1>1 DEF Received, Held
<1>3. /\ Received(c) \in Nat /\ Held(c) \in {0, 1} /\ client[c].due \in Nat
      /\ Len(conn[c].send) \in Nat
  BY StreamFacts
<1>4. CASE QueueReply(c) /\ writer[c].at # "ended"
  <2>1. Len(conn'[c].send) = Len(conn[c].send) + 1
    <3>1. conn \in [Conns -> Connection]
      BY <1>0 DEF TypeOK
    <3>2. conn'[c].send = Append(conn[c].send, client[c].due + 1)
      BY <1>4, <3>1 DEF QueueReply, Connection
    <3> QED BY <1>3, <3>2, StreamFacts, AppendProperties
  <2>2. client[c].due = Received(c) + Held(c) + Len(conn[c].send)
    BY <1>0, <1>1, <1>4 DEF Stream, Dropped
  <2>3. LostReplies(c) = 0
    BY <1>3, <1>4, <2>2 DEF LostReplies
  <2>4. LostReplies(c)' = 0
    <3> DEFINE r == Received(c)
               k == Held(c)
               q == Len(conn[c].send)
    <3>1. LostReplies(c)' = (r + k + q + 1) - r - (k + (q + 1))
      BY <1>1, <1>2, <1>4, <2>1, <2>2 DEF LostReplies
    <3>2. r \in Nat /\ k \in Nat /\ q \in Nat
      BY <1>3
    <3> HIDE DEF r, k, q
    <3> QED BY <3>1, <3>2
  <2> QED BY <1>1, <2>3, <2>4 DEF StreamNext, Replies!Next, Replies!Answer
<1>5. CASE ~QueueReply(c) \/ writer[c].at = "ended"
  <2>1. writer[c].at = "ended" \/ conn' = conn
    BY <1>5 DEF SendMessage, SendOnClosed, DropReply, CloseWhenFull
  <2>2. LostReplies(c)' = LostReplies(c) + 1
    BY <1>1, <1>2, <1>3, <2>1 DEF LostReplies
  <2> QED BY <1>1, <2>2 DEF StreamNext, Replies!Next, Replies!Answer
<1> QED BY <1>4, <1>5

\* The write pump takes a reply out of the queue into its hands.
LEMMA RepliesTake ==
  ASSUME IInv, NEW c \in Conns, TakeReply(c)
  PROVE  StreamNext(c)
<1>0. TypeOK
  BY DEF IInv
<1>1. /\ conn[c].send # << >>
      /\ writer[c].at \in {"select", "draining"}
      /\ conn'[c].send = Tail(conn[c].send)
      /\ writer'[c].at \in {"writing", "flushing"}
      /\ client' = client
  <2>1. writer \in [Conns -> Writers] /\ conn \in [Conns -> Connection]
    BY <1>0 DEF TypeOK, Writers
  <2> QED BY <2>1 DEF TakeReply, WriterAt, WriterGoes, Connection
<1>2. Held(c) = 0 /\ Held(c)' = 1 /\ Received(c)' = Received(c)
  BY <1>1 DEF Held, Received
<1>3. Len(conn[c].send) \in Nat /\ Len(conn'[c].send) = Len(conn[c].send) - 1
  BY <1>1, StreamFacts, HeadTailProperties
<1>4. LostReplies(c)' = LostReplies(c)
  <2>1. LostReplies(c) = client[c].due - Received(c) - Len(conn[c].send)
    BY <1>1, <1>2, <1>3 DEF LostReplies
  <2>2. LostReplies(c)' = client[c].due - Received(c) - (1 + (Len(conn[c].send) - 1))
    BY <1>1, <1>2, <1>3 DEF LostReplies
  <2> QED BY <1>3, <2>1, <2>2
<1> QED BY <1>1, <1>4 DEF StreamNext, Replies!vars

\* It writes the one reply that is next.
LEMMA RepliesWrite ==
  ASSUME IInv, NEW c \in Conns, WriteReply(c)
  PROVE  StreamNext(c)
<1>0. TypeOK /\ Stream(c)
  BY DEF IInv
<1>1. /\ writer[c].at \in {"writing", "flushing"}
      /\ client'[c].got = Append(client[c].got, writer[c].reply)
      /\ client'[c].due = client[c].due
      /\ writer'[c].at \in {"select", "draining"}
      /\ conn' = conn
  <2>1. writer \in [Conns -> Writers] /\ client \in [Conns -> Clients]
    BY <1>0 DEF TypeOK, Writers, Clients
  <2> QED BY <2>1 DEF WriteReply, WriterAt, WriterGoes, Clients
<1>2. Held(c) = 1 /\ Held(c)' = 0
  BY <1>1 DEF Held
<1>3. writer[c].reply = Received(c) + 1
  BY <1>0, <1>1, <1>2 DEF Stream
<1>4. /\ Received(c) \in Nat /\ client[c].due \in Nat /\ Len(conn[c].send) \in Nat
      /\ Received(c) = Len(client[c].got)
  BY StreamFacts
<1>5. Received(c)' = Received(c) + 1
  <2>1. client[c].got \in Seq(Nat) /\ writer[c].reply \in Nat
    BY <1>0, ElementTypes
  <2> QED BY <1>1, <1>4, <2>1, AppendProperties DEF Received
<1>6. /\ LostReplies(c)' = LostReplies(c)
      /\ Len(client[c].got) < client[c].due - LostReplies(c)
  <2> DEFINE r == Received(c)
             n == client[c].due
             q == Len(conn[c].send)
  <2>1. LostReplies(c) = n - r - (1 + q)
    BY <1>1, <1>2, RunningLoses
  <2>2. LostReplies(c)' = n - (r + 1) - (0 + q)
    BY <1>1, <1>2, <1>5 DEF LostReplies
  <2>3. r \in Nat /\ n \in Nat /\ q \in Nat /\ Len(client[c].got) = r
    BY <1>4
  <2> HIDE DEF r, n, q
  <2>4. LostReplies(c)' = LostReplies(c) /\ r < n - LostReplies(c)
    BY <2>1, <2>2, <2>3
  <2> QED BY <2>3, <2>4 DEF n
<1> QED BY <1>1, <1>3, <1>4, <1>6 DEF StreamNext, Replies!Next, Replies!Receive

\* When it ends, what it holds and what is queued is lost.
LEMMA RepliesEnd ==
  ASSUME IInv, NEW c \in Conns, WriterStops(c) \/ WriteFails(c) \/ PingFails(c)
  PROVE  StreamNext(c)
<1>0. TypeOK
  BY DEF IInv
<1>1. /\ writer[c].at # "ended" /\ writer'[c].at = "ended"
      /\ client' = client
  <2>1. WriterGoes(c, "ended", 0, 0) /\ client' = client
    BY DEF WriterStops, WriteFails, PingFails
  <2>2. writer'[c].at = "ended"
    BY <1>0, <2>1 DEF TypeOK, WriterGoes
  <2>3. writer[c].at # "ended"
    BY DEF WriterStops, WriteFails, PingFails, WriterAt
  <2> QED BY <2>1, <2>2, <2>3
<1>2. /\ Received(c) \in Nat /\ client[c].due \in Nat /\ Len(conn[c].send) \in Nat
      /\ Held(c) \in {0, 1} /\ Received(c) = Len(client[c].got)
      /\ Received(c)' = Received(c)
  BY <1>1, StreamFacts DEF Received
<1>3. LostReplies(c)' \in LostReplies(c) .. (client[c].due - Len(client[c].got))
  <2> DEFINE r == Received(c)
             n == client[c].due
             q == Held(c) + Len(conn[c].send)
  <2>1. LostReplies(c) = n - r - q
    BY <1>1, RunningLoses
  <2>2. LostReplies(c)' = n - r - 0
    BY <1>1, <1>2 DEF LostReplies
  <2>3. r \in Nat /\ n \in Nat /\ q \in Nat /\ Len(client[c].got) = r
    BY <1>2
  <2> HIDE DEF r, n, q
  <2>4. LostReplies(c)' \in LostReplies(c) .. (n - r)
    BY <2>1, <2>2, <2>3
  <2> QED BY <2>3, <2>4 DEF n
<1> QED BY <1>1, <1>3 DEF StreamNext, Replies!Next, Replies!Lose

LEMMA RepliesOwn ==
  ASSUME IInv, panic = "none", NEW c \in Conns, ConnStep(c)
  PROVE  StreamNext(c)
<1> USE DEF tables, history
<1>0. TypeOK /\ NotYet(c)
  BY DEF IInv
<1>1. CASE RegisterConnection(c)
  <2>1. /\ writer[c].at = "none" /\ writer'[c].at = "select"
        /\ UNCHANGED <<conn, client>>
    <3>1. writer \in [Conns -> Writers]
      BY <1>0 DEF TypeOK, Writers
    <3> QED BY <1>0, <1>1, <3>1 DEF RegisterConnection, NotYet, Writers
  <2> QED BY <2>1, RepliesFrame DEF Held
<1>2. CASE \/ Handler(c) \/ ShutdownCloses(c) \/ ReadLoop(c) \/ ReadFails(c)
           \/ ServiceSubscribes(c) \/ ListSubscription(c) \/ ServiceUnsubscribes(c)
           \/ DelistSubscription(c)
  <2>1. UNCHANGED <<conn, writer, client>>
    BY <1>2 DEF Handler, UnregisterConnection, RemoveAllSubscriptions, ShutdownCloses,
       ReadLoop, ReadFails, ServiceSubscribes, ListSubscription, ServiceUnsubscribes,
       DelistSubscription
  <2> QED BY <2>1, RepliesFrame DEF Held
<1>3. CASE HandleMessage(c)
  <2>1. /\ UNCHANGED <<conn, writer>>
        /\ client' = [client EXCEPT ![c].sent = @ + 1]
    BY <1>3 DEF HandleMessage
  <2>2. client \in [Conns -> Clients]
    BY <1>0 DEF TypeOK, Clients
  <2>3. client'[c].due = client[c].due /\ client'[c].got = client[c].got
    BY <2>1, <2>2 DEF Clients
  <2> QED BY <2>1, <2>3, RepliesFrame DEF Held
<1> QED BY <1>1, <1>2, <1>3, RepliesSend, RepliesTake, RepliesWrite, RepliesEnd
        DEF ConnStep, Request, Writer

LEMMA RepliesStep ==
  ASSUME IInv, [Next]_vars
  PROVE  \A d \in Conns : StreamNext(d)
<1> SUFFICES ASSUME NEW d \in Conns PROVE StreamNext(d)
  OBVIOUS
<1>1. CASE UNCHANGED vars
  BY <1>1, RepliesFrame DEF vars, Held
<1>2. CASE Next
  <2>1. panic = "none"
    BY <1>2 DEF Next
  <2>2. CASE BeginShutdown
    BY <2>2, RepliesFrame DEF BeginShutdown, Held
  <2>3. ASSUME NEW c \in Conns, NEW w \in Closers, CloseStep(c, w) PROVE StreamNext(d)
    BY <2>3, CloseKeepsQueues, RepliesFrame DEF Held
  <2>4. ASSUME NEW c \in Conns, ConnStep(c) PROVE StreamNext(d)
    <3>1. CASE d = c
      BY <2>1, <2>4, <3>1, RepliesOwn
    <3>2. CASE d # c
      BY <2>4, <3>2, OthersStand, RepliesFrame DEF Held
    <3> QED BY <3>1, <3>2
  <2> QED BY <1>2, <2>2, <2>3, <2>4, NextCases
<1> QED BY <1>1, <1>2

LEMMA RepliesInit ==
  ASSUME Init, NEW c \in Conns
  PROVE  Replies(c)!Init
<1>1. /\ client[c].got = << >> /\ client[c].due = 0 /\ conn[c].send = << >>
      /\ writer[c].at = "none"
  BY DEF Init, NewConnection
<1>2. Received(c) = 0 /\ Held(c) = 0 /\ Len(conn[c].send) = 0
  BY <1>1, EmptySeq DEF Received, Held
<1>3. LostReplies(c) = 0
  <2>1. LostReplies(c) = 0 - 0 - (0 + 0)
    BY <1>1, <1>2, RunningLoses
  <2> QED BY <2>1
<1> QED BY <1>1, <1>3 DEF Replies!Init

\* Every connection's replies are a stream that ends once, for any number of
\* connections and messages and any capacity of the queue (sendMessage, writePump).
THEOREM ImplementsStream == Spec => StreamSpec
<1>1. Init => \A c \in Conns : Replies(c)!Init
  BY RepliesInit
<1>2. IInv /\ [Next]_vars =>
        [\A c \in Conns : [Replies(c)!Next]_(Replies(c)!vars)]_vars
  BY RepliesStep DEF StreamNext
<1> QED BY <1>1, <1>2, Invariant, PTL DEF Spec, StreamSpec

\* The same, connection by connection, in terms of the specification of a stream.
THEOREM EachImplementsStream ==
  ASSUME NEW c \in Conns
  PROVE  Spec => Replies(c)!Spec
<1>1. Init => Replies(c)!Init
  BY RepliesInit
<1>2. IInv /\ [Next]_vars => [Replies(c)!Next]_(Replies(c)!vars)
  BY RepliesStep DEF StreamNext
<1> QED BY <1>1, <1>2, Invariant, PTL DEF Spec, Replies!Spec

\* A client never has more replies than fell due, and none is lost that it has.
RepliesWereDue == \A c \in Conns : LostReplies(c) \in 0 .. (client[c].due - Received(c))

\* What a client has received the read pump has answered (connection.go:173-198):
\* a property of the stream, which the two pumps and Close cannot break.
THEOREM OnlyDueIsReceived == Spec => []RepliesWereDue
<1>1. Init => RepliesWereDue
  <2>1. ASSUME Init, NEW c \in Conns
        PROVE  LostReplies(c) \in 0 .. (client[c].due - Received(c))
    <3>1. LostReplies(c) = 0 /\ client[c].due = 0 /\ client[c].got = <<>>
      BY <2>1, RepliesInit DEF Replies!Init
    <3> QED BY <3>1, EmptySeq DEF Received
  <2> QED BY <2>1 DEF RepliesWereDue
<1>2. IInv /\ RepliesWereDue /\ [Next]_vars => RepliesWereDue'
  <2>1. ASSUME IInv, RepliesWereDue, [Next]_vars, NEW c \in Conns
        PROVE  LostReplies(c)' \in 0 .. (client'[c].due - Received(c)')
    <3> DEFINE n == client[c].due
               r == Received(c)
               k == LostReplies(c)
    <3>1. /\ n \in Nat /\ r \in Nat /\ k \in 0 .. (n - r)
          /\ r = Len(client[c].got) /\ client[c].got \in Seq(Nat)
      BY <2>1, StreamFacts DEF RepliesWereDue
    <3>2. Received(c)' = Len(client'[c].got)
      BY DEF Received
    <3>3. StreamNext(c)
      BY <2>1, RepliesStep
    <3> HIDE DEF n, r, k
    <3>4. CASE Replies(c)!Answer
      <4>1. /\ client'[c].due = n + 1 /\ client'[c].got = client[c].got
            /\ LostReplies(c)' = k + 1 \/ (k = 0 /\ LostReplies(c)' = 0)
        BY <3>4 DEF Replies!Answer, n, k
      <4>2. Received(c)' = r
        BY <3>1, <3>2, <4>1
      <4>3. k \in Int /\ 0 <= k /\ k <= n - r
        BY <3>1
      <4>4. k + 1 \in 0 .. ((n + 1) - r) /\ 0 \in 0 .. ((n + 1) - r)
        <5>1. n \in Int /\ r \in Int
          BY <3>1
        <5>2. k + 1 <= (n + 1) - r /\ 0 <= (n + 1) - r /\ 0 <= k + 1
          BY <4>3, <5>1
        <5> QED BY <4>3, <5>1, <5>2
      <4>5. LostReplies(c)' \in 0 .. ((n + 1) - r)
        <5>1. CASE LostReplies(c)' = k + 1
          BY <4>4, <5>1
        <5>2. CASE LostReplies(c)' = 0
          BY <4>4, <5>2
        <5> QED BY <4>1, <5>1, <5>2
      <4>6. client'[c].due - Received(c)' = (n + 1) - r
        BY <4>1, <4>2
      <4> QED BY <4>5, <4>6
    <3>5. CASE Replies(c)!Lose
      <4>1. /\ client'[c].due = n /\ client'[c].got = client[c].got
            /\ LostReplies(c)' \in k .. (n - r)
        BY <3>1, <3>5 DEF Replies!Lose, n, k
      <4>2. Received(c)' = r
        BY <3>1, <3>2, <4>1
      <4> QED BY <3>1, <4>1, <4>2
    <3>6. CASE Replies(c)!Receive
      <4>1. /\ client'[c].due = n /\ LostReplies(c)' = k /\ r < n - k
            /\ client'[c].got = Append(client[c].got, r + 1)
        BY <3>1, <3>6 DEF Replies!Receive, n, k
      <4>2. Received(c)' = r + 1
        BY <3>1, <3>2, <4>1, AppendProperties
      <4> QED BY <3>1, <4>1, <4>2
    <3>7. CASE UNCHANGED Replies(c)!vars
      <4>1. /\ client'[c].due = n /\ LostReplies(c)' = k
            /\ client'[c].got = client[c].got
        BY <3>7 DEF Replies!vars, n, k
      <4> QED BY <3>1, <3>2, <4>1
    <3> QED BY <3>3, <3>4, <3>5, <3>6, <3>7 DEF StreamNext, Replies!Next
  <2> QED BY <2>1 DEF RepliesWereDue
<1> QED BY <1>1, <1>2, Invariant, PTL DEF Spec
=============================================================================
