----------------------------- MODULE AckService -----------------------------
(***************************************************************************)
(* The acknowledgment service (internal/services/acknowledgment) over the  *)
(* Redis message repository, together with the two delivery paths of the   *)
(* subscriber service that write the same message records.                 *)
(*                                                                         *)
(* Every operation is a read of a message record followed by one or more   *)
(* unconditional writes of the whole record: there is no WATCH and no      *)
(* version. A goroutine therefore carries the record it read (its          *)
(* snapshot) from one Redis command to the next, and any other goroutine   *)
(* may write in between. One action is one Redis round trip.               *)
(*                                                                         *)
(* Abstractions: a message keeps the fields the decisions read; time is    *)
(* nondeterministic (a deadline or a retry time may have passed); DLQ      *)
(* copies never reach their seven-day TTL. Scope: one broker process.      *)
(***************************************************************************)
EXTENDS Naturals, FiniteSets

CONSTANTS
  Ids,          \* message ids: the published ones and those uuid.New() returns
  Published,    \* the messages stored before the first request
  NoId,         \* a header naming a message that is not set
  Handlers,     \* goroutines: requests in progress, background workers
  Limit,        \* Message.MaxRetries of each published message, 0 if not set
  MaxRetries,   \* BrokerConfig.MaxRetries
  EnableDLQ,    \* BrokerConfig.EnableDLQ
  SweepTopics,  \* the topics whose messages the repository finds when the
                \* workers ask it for the messages of topic ""
  MaxRequests,  \* bound: requests served
  MaxFaults     \* bound: Redis errors and process crashes

ASSUME IdsAssumption ==
  /\ Published \subseteq Ids
  /\ NoId \notin Ids
ASSUME ConfigAssumption ==
  /\ MaxRetries \in Nat
  /\ Limit \in [Published -> Nat]
  /\ EnableDLQ \in BOOLEAN

VARIABLES
  store,     \* msg:<id>, the record of each message in Redis
  work,      \* what each goroutine is about to do and the records it has read
  requests,  \* requests served so far; also numbers the consumers of Pull
  faults     \* faults so far

vars == <<store, work, requests, faults>>
-----------------------------------------------------------------------------
Topics == {"main", "dlq"}  \* dlqPrefix + any topic has the prefix: "dlq"
Statuses == {"Pending", "Delivered", "Acknowledged", "Failed", "DLQ"}
NoConsumer == 0

Message ==
  [topic : Topics,
   status : Statuses \cup {"absent"},
   consumer : Nat,               \* ConsumerID
   retry : Nat,                  \* RetryCount
   limit : Nat,                  \* MaxRetries
   retryAt : BOOLEAN,            \* header next_retry_at
   origin : Ids \cup {NoId},     \* header original_message_id: a DLQ copy
   source : Ids \cup {NoId},     \* header original_dlq_message_id: reprocessed
   reprocessed : BOOLEAN]        \* header reprocessed

NoMessage ==
  [topic |-> "main", status |-> "absent", consumer |-> NoConsumer, retry |-> 0,
   limit |-> 0, retryAt |-> FALSE, origin |-> NoId, source |-> NoId,
   reprocessed |-> FALSE]

Exists(id) == store[id].status # "absent"
LettersOf(id) == {d \in Ids : store[d].origin = id}

\* The write a goroutine performs next. "ackGet" and "nackGet" are the read
\* that opens MessageRepository.Acknowledge.
Steps ==
  {"idle", "ackStore", "ackGet", "ackSet", "requeue", "letter", "close",
   "fail", "nackGet", "nackSet", "reset", "deliver", "copyBack", "markBack"}

\* "call" is a request, "sweep" and "retry" are the expiration worker and the
\* retry worker on their batches.
Kinds == {"call", "sweep", "retry"}

Work ==
  [step : Steps, kind : Kinds, id : Ids \cup {NoId}, batch : [Ids -> Message]]

NoBatch == [i \in Ids |-> NoMessage]
Idle == [step |-> "idle", kind |-> "call", id |-> NoId, batch |-> NoBatch]

TypeOK ==
  /\ store \in [Ids -> Message]
  /\ work \in [Handlers -> Work]
  /\ requests \in Nat
  /\ faults \in Nat

Init ==
  /\ store = [i \in Ids |->
       IF i \in Published THEN [NoMessage EXCEPT !.status = "Pending", !.limit = Limit[i]]
                          ELSE NoMessage]
  /\ work = [h \in Handlers |-> Idle]
  /\ requests = 0
  /\ faults = 0
-----------------------------------------------------------------------------
(* Retry and DLQ policy, and the records the service writes.               *)

GetMaxRetries(m) == IF m.limit > 0 THEN m.limit ELSE MaxRetries

ShouldRetry(m) == m.retry + 1 <= GetMaxRetries(m)

ShouldMoveToDLQ(m) ==
  /\ EnableDLQ
  /\ m.topic # "dlq"
  /\ m.retry >= MaxRetries

\* What becomes of a message that was not processed.
Disposition(m, retry) ==
  IF retry /\ ShouldRetry(m) THEN "requeue"
  ELSE IF ShouldMoveToDLQ(m) THEN "letter" ELSE "fail"

\* Mutant: ConsumerID left as it was.
RequeuedKeepsConsumer(m) ==
  [m EXCEPT !.retry = @ + 1, !.status = "Pending", !.retryAt = TRUE]

Requeued(m) ==
  [m EXCEPT !.retry = @ + 1, !.status = "Pending", !.consumer = NoConsumer,
            !.retryAt = TRUE]

\* Mutant: -1 for "no retries".
LetterWithoutLimit(m, id) ==
  [m EXCEPT !.topic = "dlq", !.status = "DLQ", !.consumer = NoConsumer,
            !.retry = 0, !.limit = 0 - 1, !.origin = id]

\* The copy inherits every header of the message; the rest is fresh. It expires
\* after seven days, which is left out like every expiry: what is said of letters
\* below is said of their lifetime.
Letter(m, id) ==
  [m EXCEPT !.topic = "dlq", !.status = "DLQ", !.consumer = NoConsumer,
            !.retry = 0, !.limit = 0, !.origin = id]

\* original_topic is the topic of the message the copy was made of; headers
\* that start with dlq_ or original_ are dropped.
Reprocessed(m, id) ==
  [m EXCEPT !.topic = store[m.origin].topic, !.status = "Pending",
            !.consumer = NoConsumer, !.retry = 0, !.limit = MaxRetries,
            !.origin = NoId, !.source = id]
-----------------------------------------------------------------------------
(* Requests: the first round trip reads the record and decides.            *)

Begin(h, kind, id, batch, step) ==
  /\ work[h].step = "idle"
  /\ work' = [work EXCEPT ![h] =
                [step |-> step, kind |-> kind, id |-> id, batch |-> batch]]
  /\ UNCHANGED <<store, faults>>

\* A request on message id, whose goroutine keeps record m.
Request(h, id, m, step) ==
  /\ Exists(id)
  /\ requests < MaxRequests
  /\ requests' = requests + 1
  /\ Begin(h, "call", id, [NoBatch EXCEPT ![id] = m], step)

\* Only the consumer the record is assigned to is served; an empty consumer id
\* is refused by validation.
Assigned(id) == store[id].consumer # NoConsumer

ProcessAcknowledgment(h, id, success) ==
  /\ Assigned(id)
  /\ Request(h, id, store[id],
             IF success THEN "ackStore" ELSE Disposition(store[id], TRUE))

ProcessNegativeAcknowledgment(h, id, retry) ==
  /\ Assigned(id)
  /\ Request(h, id, store[id], Disposition(store[id], retry))

RequeueMessage(h, id) == Request(h, id, store[id], "requeue")

\* The DLQ topic the request may name is left out: the copy goes to "dlq" here.
MoveToDLQ(h, id) == Request(h, id, store[id], "letter")

ReprocessDLQMessage(h, id) ==
  /\ store[id].status = "DLQ"
  /\ store[id].origin # NoId
  /\ Request(h, id, store[id], "copyBack")

\* subscriber.Acknowledge and NegativeAcknowledge, which the HTTP and WebSocket
\* handlers call: MessageRepository.Acknowledge with no check of the record.
RepositoryAcknowledge(h, id, success) ==
  Request(h, id, store[id], IF success THEN "ackSet" ELSE "nackSet")

\* The push worker hands the message over, whatever its status, and leaves the
\* Store of the delivered record to a goroutine of its own.
PushMessage(h, id) ==
  Request(h, id, [store[id] EXCEPT !.status = "Delivered"], "deliver")

\* Pull does the same and assigns the message to a consumer id of this call.
PullMessage(h, id) ==
  Request(h, id,
          [store[id] EXCEPT !.status = "Delivered", !.consumer = requests + 1],
          "deliver")
-----------------------------------------------------------------------------
(* Background workers: one read of many records, then message by message.  *)

\* Mutant: the DLQ topics are not among the topics the workers read.
SweepableUnlessLetter(id) == store[id].topic \in SweepTopics \ {"dlq"}

Sweepable(id) == store[id].topic \in SweepTopics

BatchOf(S) == [i \in Ids |-> IF i \in S THEN store[i] ELSE NoMessage]

\* The first (or next) message a worker takes from its batch.
TakeUp(kind, m) == IF kind = "sweep" THEN Disposition(m, TRUE) ELSE "reset"

\* Mutant: messages chosen by DeliveredAt alone.
CheckExpiredOfAnyStatus(h) ==
  \E S \in SUBSET {i \in Ids : /\ store[i].status \in {"Delivered", "Acknowledged"}
                               /\ Sweepable(i)} :
    \E i \in S :
      /\ Begin(h, "sweep", i, BatchOf(S), TakeUp("sweep", store[i]))
      /\ UNCHANGED requests

\* Any of the delivered messages the repository finds may be past its deadline.
CheckExpiredAcknowledgments(h) ==
  \E S \in SUBSET {i \in Ids : store[i].status = "Delivered" /\ Sweepable(i)} :
    \E i \in S :
      /\ Begin(h, "sweep", i, BatchOf(S), TakeUp("sweep", store[i]))
      /\ UNCHANGED requests

RetryWorker(h) ==
  \E S \in SUBSET {i \in Ids : /\ store[i].status = "Failed"
                               /\ store[i].retry >= MaxRetries
                               /\ store[i].retryAt
                               /\ Sweepable(i)} :
    \E i \in S :
      /\ Begin(h, "retry", i, BatchOf(S), TakeUp("retry", store[i]))
      /\ UNCHANGED requests
-----------------------------------------------------------------------------
(* The remaining round trips of a goroutine.                               *)

Snapshot(h) == work[h].batch[work[h].id]

\* MessageRepository.Store: SET of the whole record.
Store(id, m) == store' = [store EXCEPT ![id] = m]

Continue(h, m, step) ==
  work' = [work EXCEPT ![h] =
             [step |-> step, kind |-> work[h].kind, id |-> work[h].id,
              batch |-> [work[h].batch EXCEPT ![work[h].id] = m]]]

\* The goroutine is through with its message: a worker goes on to another one
\* of its batch, a request returns.
Done(h) ==
  LET rest == [work[h].batch EXCEPT ![work[h].id] = NoMessage]
      left == {i \in Ids : rest[i].status # "absent"}
  IN  \/ /\ left = {}
         /\ work' = [work EXCEPT ![h] = Idle]
      \/ \E i \in left :
           work' = [work EXCEPT ![h] =
                      [step |-> TakeUp(work[h].kind, rest[i]),
                       kind |-> work[h].kind, id |-> i, batch |-> rest]]

StoreAcknowledged(h) ==
  /\ work[h].step = "ackStore"
  /\ Store(work[h].id, [Snapshot(h) EXCEPT !.status = "Acknowledged"])
  /\ Continue(h, Snapshot(h), "ackGet")
  /\ UNCHANGED <<requests, faults>>

StoreFailed(h) ==
  /\ work[h].step = "fail"
  /\ Store(work[h].id, [Snapshot(h) EXCEPT !.status = "Failed", !.consumer = NoConsumer])
  /\ Continue(h, Snapshot(h), "nackGet")
  /\ UNCHANGED <<requests, faults>>

\* MessageRepository.Acknowledge, first half: it reads the record again.
AcknowledgeGet(h) ==
  /\ \/ /\ work[h].step = "ackGet"
        /\ Continue(h, store[work[h].id], "ackSet")
     \/ /\ work[h].step = "nackGet"
        /\ Continue(h, store[work[h].id], "nackSet")
  /\ UNCHANGED <<store, requests, faults>>

AcknowledgeSet(h) ==
  /\ \/ /\ work[h].step = "ackSet"
        /\ Store(work[h].id, [Snapshot(h) EXCEPT !.status = "Acknowledged"])
     \/ /\ work[h].step = "nackSet"
        /\ Store(work[h].id, [Snapshot(h) EXCEPT !.status = "Failed", !.retry = @ + 1])
  /\ Done(h)
  /\ UNCHANGED <<requests, faults>>

StoreRequeued(h) ==
  /\ work[h].step = "requeue"
  /\ Store(work[h].id, Requeued(Snapshot(h)))
  /\ Done(h)
  /\ UNCHANGED <<requests, faults>>

\* Mutant: the error of the first Store is ignored.
StoreLetterUnchecked(h) ==
  /\ work[h].step = "letter"
  /\ \/ UNCHANGED store
     \/ \E d \in Ids :
          /\ ~Exists(d)
          /\ Store(d, Letter(Snapshot(h), work[h].id))
  /\ Continue(h, Snapshot(h), "close")
  /\ UNCHANGED <<requests, faults>>

\* The copy is stored under a new id before the original is touched.
StoreLetter(h) ==
  /\ work[h].step = "letter"
  /\ \E d \in Ids :
       /\ ~Exists(d)
       /\ Store(d, Letter(Snapshot(h), work[h].id))
  /\ Continue(h, Snapshot(h), "close")
  /\ UNCHANGED <<requests, faults>>

StoreClosed(h) ==
  /\ work[h].step = "close"
  /\ Store(work[h].id, [Snapshot(h) EXCEPT !.status = "DLQ", !.consumer = NoConsumer])
  /\ Done(h)
  /\ UNCHANGED <<requests, faults>>

\* Mutant: a reset message starts over.
StoreResetForgets(h) ==
  /\ work[h].step = "reset"
  /\ Store(work[h].id, [Snapshot(h) EXCEPT !.status = "Pending", !.consumer = NoConsumer,
                                           !.retry = 0])
  /\ Done(h)
  /\ UNCHANGED <<requests, faults>>

StoreReset(h) ==
  /\ work[h].step = "reset"
  /\ Store(work[h].id, [Snapshot(h) EXCEPT !.status = "Pending", !.consumer = NoConsumer])
  /\ Done(h)
  /\ UNCHANGED <<requests, faults>>

StoreDelivered(h) ==
  /\ work[h].step = "deliver"
  /\ Store(work[h].id, Snapshot(h))
  /\ Done(h)
  /\ UNCHANGED <<requests, faults>>

\* Mutant: the original_ headers are dropped from the map both records share.
StoreReprocessedInPlace(h) ==
  /\ work[h].step = "copyBack"
  /\ \E d \in Ids :
       /\ ~Exists(d)
       /\ Store(d, Reprocessed(Snapshot(h), work[h].id))
  /\ Continue(h, [Snapshot(h) EXCEPT !.reprocessed = TRUE, !.origin = NoId], "markBack")
  /\ UNCHANGED <<requests, faults>>

StoreReprocessed(h) ==
  /\ work[h].step = "copyBack"
  /\ \E d \in Ids :
       /\ ~Exists(d)
       /\ Store(d, Reprocessed(Snapshot(h), work[h].id))
  /\ Continue(h, [Snapshot(h) EXCEPT !.reprocessed = TRUE], "markBack")
  /\ UNCHANGED <<requests, faults>>

MarkReprocessed(h) ==
  /\ work[h].step = "markBack"
  /\ Store(work[h].id, Snapshot(h))
  /\ Done(h)
  /\ UNCHANGED <<requests, faults>>
-----------------------------------------------------------------------------
(* Faults.                                                                 *)

\* A Redis command fails: a request returns the error or logs it, a worker
\* goes on with its next message.
RedisError(h) ==
  /\ work[h].step # "idle"
  /\ faults < MaxFaults
  /\ faults' = faults + 1
  /\ Done(h)
  /\ UNCHANGED <<store, requests>>

\* The broker process dies and is started again.
Crash ==
  /\ faults < MaxFaults
  /\ faults' = faults + 1
  /\ work' = [h \in Handlers |-> Idle]
  /\ UNCHANGED <<store, requests>>
-----------------------------------------------------------------------------
\* POST /v1/messages/<id>/ack and /nack, and the WebSocket's ack: they go to the
\* subscriber service, not to the acknowledgment service.
AcknowledgeMessage(h, id) ==
  \E success \in BOOLEAN : RepositoryAcknowledge(h, id, success)

Arrive(h) ==
  \E id \in Ids :
    \/ \E b \in BOOLEAN : \/ ProcessAcknowledgment(h, id, b)
                          \/ ProcessNegativeAcknowledgment(h, id, b)
    \/ AcknowledgeMessage(h, id)
    \/ RequeueMessage(h, id)
    \/ MoveToDLQ(h, id)
    \/ ReprocessDLQMessage(h, id)
    \/ PushMessage(h, id)
    \/ PullMessage(h, id)

RoundTrip(h) ==
  \/ StoreAcknowledged(h)
  \/ StoreFailed(h)
  \/ AcknowledgeGet(h)
  \/ AcknowledgeSet(h)
  \/ StoreRequeued(h)
  \/ StoreLetter(h)
  \/ StoreClosed(h)
  \/ StoreReset(h)
  \/ StoreDelivered(h)
  \/ StoreReprocessed(h)
  \/ MarkReprocessed(h)

Next ==
  \/ \E h \in Handlers : \/ Arrive(h)
                         \/ CheckExpiredAcknowledgments(h)
                         \/ RetryWorker(h)
                         \/ RoundTrip(h)
                         \/ RedisError(h)
  \/ Crash

Spec == Init /\ [][Next]_vars

\* A goroutine that has started runs on, and the expiration worker's ticker
\* keeps firing; nobody has to send a request, and nothing has to fail.
Fairness ==
  /\ \A h \in Handlers : WF_vars(RoundTrip(h))
  /\ WF_vars(\E h \in Handlers : CheckExpiredAcknowledgments(h))

FairSpec == Spec /\ Fairness
-----------------------------------------------------------------------------
(* Properties.                                                             *)

\* A message waiting for delivery belongs to nobody: retry.go and the retry
\* worker clear ConsumerID whenever they put a message back, so the consumer
\* that lost it cannot settle it, however their writes interleave.
PendingIsUnassigned ==
  \A i \in Ids : store[i].status = "Pending" => store[i].consumer = NoConsumer

\* A message marked DLQ that is not itself a DLQ copy has a copy to read: the
\* copy is written before the mark (dlq.go), so neither a crash between the two
\* nor a stale write of another goroutine loses a dead message while its copy
\* lives.
DeadMessageHasLetter ==
  \A i \in Ids :
    store[i].status = "DLQ" /\ store[i].origin = NoId => LettersOf(i) # {}

\* The headers written by EnrichDLQMessage and ReprocessDLQMessage lead back:
\* a copy to a message that exists, a reprocessed message to a DLQ copy.
LineageIsKept ==
  \A i \in Ids :
    /\ store[i].origin # NoId => Exists(store[i].origin)
    /\ store[i].source # NoId => store[store[i].source].origin # NoId

\* A message forgets attempts in one way only: a goroutine that read the record
\* before the last attempt was counted writes it back. No reset, requeue or
\* delivery starts the count again by itself (retry.go:146).
RetriesAreRemembered ==
  [][\A i \in Ids :
       Exists(i) /\ store'[i].retry < store[i].retry
         => \E h \in Handlers : work[h].id = i /\ Snapshot(h).retry < store[i].retry]_vars

\* The workers touch only what is not settled (GetUnacknowledged): a message its
\* consumer has acknowledged is taken back by a worker only if the worker read
\* it before, or between the two writes of marking it failed, the second of
\* which reads the record again (retry.go:245).
SweepSparesAcknowledged ==
  [][\A i \in Ids : store[i].status = "Acknowledged" /\ store'[i] # store[i]
       => \E h \in Handlers :
            /\ work[h].id = i
            /\ \/ work[h].kind = "call"
               \/ Snapshot(h).status # "Acknowledged"
               \/ work[h].step = "nackSet"]_vars

\* A delivered message nobody acknowledges is taken back by the expiration
\* worker, which requeues, dead-letters or fails it; bound: as long as there is
\* an id for a letter.
DeliveredIsTakenBack ==
  \A i \in Ids :
    (store[i].status = "Delivered")
      ~> (store[i].status # "Delivered" \/ \A d \in Ids : Exists(d))

\* The service implements the write-ahead ledger of dead letters.
Ledger ==
  INSTANCE DeadLetterLedger WITH
    letters <- [i \in Ids |-> store[i].origin],
    dead <- {i \in Ids : store[i].status = "DLQ" /\ store[i].origin = NoId}

LedgerSpec == Ledger!Spec
=============================================================================
