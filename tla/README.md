# PubSubGo in TLA+

PubSubGo is a message broker: one Go process that keeps topics, messages, subscriptions and consumer
groups in Redis and serves publishers and consumers over HTTP and WebSocket. This directory models the
parts of it that decide something, checks them with TLC on small instances and proves the main results
with TLAPS for every instance. `PROJECT.json` maps every definition to the lines of the source it
stands for.

Contents: 1 the system, 2 the modules, 3 the runs, 4 fairness, 5 the proofs, 6 disagreements found,
7 what is not modelled, 8 the plan.

## 1. The system

| component | source | state | operations |
|---|---|---|---|
| acknowledgment service | `internal/services/acknowledgment` | statistics; otherwise the message records in Redis | ack, nack, requeue, dead-letter, reprocess; expiration worker, retry worker |
| subscriber service, push | `internal/services/subscriber` | registry of active subscriptions, each with a context, a channel and a worker | subscribe, unsubscribe; polling worker, cleanup pass |
| subscriber service, groups | same | active groups: consumers, their partitions, rebalancing flag | join, leave, pull; heartbeat worker, rebalance worker |
| subscriber service, pull | same | none of its own | pull, with and without a group |
| publisher service | `internal/services/publisher` | none | publish, publish a batch (creates the topic if needed) |
| topic service | `internal/services/topic` | active topics, statistics cache, health cache | create, update, delete, get, list, statistics; workers the application never starts |
| partition manager | `internal/services/topic/partition.go` | per topic: partitions with their readers, consumers with their partitions | initialise, clean up, add and remove a consumer, redistribute |
| WebSocket API | `internal/adapters/api/websocket` | connections, each with two channels and two pumps; table of subscriptions | connect, subscribe, unsubscribe, publish, ack, ping, shutdown |
| HTTP API | `internal/adapters/api/http` | none | decodes a request and calls one service |
| Redis repositories | `internal/adapters/storage/redis` | records as JSON values, indexes as sets and lists | one to five commands per operation, never a transaction |
| server lifecycle | `cmd/server` | a context, a wait group, two HTTP servers, background goroutines | start, signal, stop within thirty seconds |
| ring buffer | `pkg/collections` | a growing circular buffer | push, pop, peek; used by nothing in the broker |
| CLI, metrics, tracing, configuration, compression | | | no state the broker's decisions depend on |

How they interact. A request arrives in a goroutine of its own (HTTP) or in the read pump of its
connection (WebSocket) and calls one service; the service calls its repositories, one Redis command after
another. Four kinds of state are shared: Redis, which everybody reads, changes and writes back without
WATCH or a version; the maps of a service, each under a mutex; the objects those maps point to, which are
used outside the mutex; and channels.

What is hard, and what makes each component correct:

* **Blind overwrites.** A message record is read, changed and written back whole by acknowledgments,
  deliveries, sweeps and retries at once; so are topic records and group records. Correct means that what
  must not be undone is not: a dead message keeps its letter, a pending message is nobody's, a count never
  overstates.
* **Several places for one fact.** A topic is in Redis twice, in two caches and in the partition manager;
  a group's member in Redis twice and in the process; a WebSocket subscription in the service, the
  connection and the server. Correct means they agree when nobody is at work, and it is known who is at
  work when they do not.
* **Lifetimes.** Contexts, channels and workers are shared by pointer among a call, a worker and a cleanup
  pass. Correct means closed once, not used after, and ended in the end.
* **Work left to later.** Rebalancing is a flag or a goroutine. Correct means that none is forgotten, no
  partition is given twice and everybody is served.
* **Failures.** Any Redis command may fail, a process may die between two commands, a client may vanish.

Section 6 and `PROJECT.json` (`hazards`) list each of these at its line.

## 2. The modules

Each component has a specification, an `MC` module with the definitions its configurations use, and a
`Proofs` module. One action is one Redis round trip or one critical section of one goroutine, because that
is what others can get between; a goroutine is a record of where it is and of the copies it carries.

### AckService, DeadLetterLedger

`store` is the set of records `msg:<id>`, with the fields the decisions read (topic, status, consumer,
attempts, limit, the lineage headers). `work[h]` is a goroutine: its next write and the batch of records it
has read. A request reads and decides in one action (`ProcessAcknowledgment`, `ProcessNegativeAcknowledgment`,
`RequeueMessage`, `MoveToDLQ`, `ReprocessDLQMessage`, `RepositoryAcknowledge`, `PushMessage`, `PullMessage`)
and writes in later ones (`Store...`, `AcknowledgeGet`, `AcknowledgeSet`, `MarkReprocessed`). Over HTTP and
WebSocket an acknowledgment goes to the subscriber service (`AcknowledgeMessage`), which updates the record
unchecked; the operations of the acknowledgment service itself are called from Go, and the application starts
its workers. `CheckExpiredAcknowledgments` and `RetryWorker` are the workers: one read of a batch, then its
messages one after the other. `RedisError` makes one step fail, `Crash` all of them. `SweepTopics` is what the
repository finds when a worker asks it for topic "": with Redis, nothing.

`DeadLetterLedger` is the abstract promise: letters are written ahead of the mark and are never unwritten.
`AckService!LedgerSpec` instantiates it with the letters and the dead messages of `store`.

### PartitionOwnership

The abstract promise of sharing out partitions, which the broker keeps twice: partitions change hands only
when they are dealt, to all members at once, every partition to exactly one, in shares that differ by one at
most; between two deals a member joins with nothing or gives up its share. `ConsumerGroup!OwnershipSpec`
instantiates it with `active` and `assigned` of the process, where a deal is a range per consumer;
`PartitionManager!OwnershipSpec` with the assignment of every topic, where partitions go round.

### ReplyStream

The abstract promise to the client of a connection: replies are received in the order they fell due, and
once one is lost every later one is. `WebSocketServer!Replies(c)` instantiates it for a connection with the
replies due and received; what is lost is what is neither received nor under way in the write pump and its
queue. `StreamSpec` says it of all connections.

### PushSubscription

`registered` is the map under `subsMutex`; `sub[s]` the activeSubscription it points to (context, channel,
worker and the batch the worker is delivering); `repo[s]` the record in Redis; `call[k]` a Subscribe or
Unsubscribe in progress; `expired` the list of the cleanup pass. The worker's select is split by its cases:
`SendMessage`, `SendOnClosed` (the panic), `SkipWhenFull`, `AbandonBatch`. Nobody in the broker receives from
a message channel; `Receive` is its holder, who may or may not. `Restart` starts the process again, at any
moment or after a panic: the registry, the workers and the calls are gone, the records remain. `orphans` is
history: the subscriptions that Redis has active although nobody is left who could deactivate them, because
an update failed, the cleanup pass forgot them or the process ended.

### ConsumerGroup

`group` is the `Consumers` map of the record in Redis, `members` the set beside it; `live`, `active`,
`assigned`, `rebalancing` are the activeConsumerGroup; `stale` the consumers whose last pull is over a minute
ago. A join goes through eight steps from `GetGroup` to `JoinReply`; leave, pull and the removal of a dead
consumer likewise. `Share` is the partition arithmetic of `rebalanceConsumerGroup`; the order of the
consumers, a Go map, is any bijection. The flag is set by the heartbeat worker outside the lock
(`FlagRebalance`), and the rebalance worker holds the lock across its read of the topic (`locked`). `Requests`
says which requests are sent: over HTTP only pulls and leaves get through, because the handler of a join
passes no topic on (`adapters/api/http/subscriber.go:374`) and the service refuses it; joins come from Go
callers. `guests` and `strays` are history: the consumers that are members in Redis and unknown to the
process, because they pulled without a join or a restart left them, and those that fell silent.

### WebSocketServer

Per connection: `handler` (HandleWebSocket), `reader` and `writer` (the pumps), `conn` (IsAlive, context,
channels, socket) and `close`, which says who is inside `Connection.Close` and before which of its steps.
Close is called by both pumps, by the pump that finds the queue full and by Shutdown, and its test and its
assignment of IsAlive are two actions. `tables` are the server's two maps and the connection's own;
`service` counts the subscriptions the subscriber service keeps. A reply is its number; `client.got` is what
the client saw. `orphans` and `late` are history: the subscriptions that stay active in the service with
nobody to end them, because an Unsubscribe failed or the connection ended (a disconnect clears the server's
table and tells the service nothing, `server.go:290-309`), and the connections listed after they were
forgotten.

### ServerLifecycle

`main` is where main and Stop are, `wg` the wait group, `server` the goroutine of each `http.Server` and
`door` what its listener and its connections allow; `background` are the counted goroutines, `workers` and
`worker` the acknowledgment workers, which are not counted. A request is at one of the two servers until it is
answered, perhaps never; a connection goes from `upgrading` through `hijacked`, where nobody knows it, to
`open`, where the WebSocket server does. `Drain` is `http.Server.Shutdown`, as Stop relies on it: it waits for
what the server still serves, or fails when `expired`. What a request or a worker does is the matter of the
other modules; a stop that cuts them off is, for Redis, the `Crash` of AckService and the `Restart` of
PushSubscription.

### PartitionManager, TopicCatalog

`PartitionManager` has one action per critical section: the assignment of a topic (`size`, `members`,
`owned`, `readers`) and `pending`, the goroutines AddConsumer and RemoveConsumer have started and that look
the topic up again by name.

`TopicCatalog` EXTENDS it with the topic service and the publisher: `record`, `listed` and `stored` in
Redis, `active` and `stats` in the process, and `call`, the requests. Publish, create, update, delete and
statistics are sequences of steps (`CheckMissing`, `SetRecord`, `ListTopic`, `GetAgain`, `StoreMessages`,
`SaveCount`, ...); the two services share the code paths the source shares. `truth` (the topic had every
command been a transaction), `disturbed` and `touched` are history: a record is written back whole, so a
call is touched when another one has changed its topic since it read the record, and a topic is disturbed
when a touched call has written it or one was cut short half way. The partition manager's variables change
only through its own actions, so that what holds of the manager holds in the catalogue.

## 3. The runs

| run | question | bounds | distinct states |
|---|---|---|---|
| `ack_interleaved` | what never breaks although records are overwritten blindly, what only a stale record may break, is a delivery taken back; does the service implement the ledger | 2 messages with different limits and 2 ids for copies, 2 goroutines, 3 requests, 1 fault | 249,206 |
| `ack_redis_sweep` | the same with what the Redis repository really finds (violated) | 1 message and 2 ids for copies, 2 goroutines, 2 requests | - |
| `push_shared` | can the registry be relied on, what is left active behind, is every subscription supplied, does every worker end | 2 push subscriptions (one grouped), 1 pull, 2 calls, 3 messages one of which is filtered, channel of 1, 1 restart | 214,140 |
| `push_unsubscribe` | is it safe to unsubscribe (violated) | 1 subscription | - |
| `group_concurrent` | are partitions shared or rebalances forgotten, under any interleaving and fault | 2 consumers, 3 partitions, 3 requests two at a time, 1 silence, 1 fault of three kinds | 2,471,416 |
| `group_polite` | who are the members in Redis that the process does not know, and are partitions taken, when consumers wait for their answers and no command fails | 2 consumers, 1 partition, 3 joins, pulls and leaves, 1 silence | 1,032,606 |
| `group_lost_update` | does the group's record list its members (violated) | 2 joins | - |
| `websocket_connection` | do replies, tables and goroutines stay right, and what stays active in the service, whatever ends a connection | 1 connection, 1 topic, 4 client messages, queue of 2 | 412,969 |
| `websocket_shutdown` | is shutdown graceful (violated) | 1 connection, queue of 1 | - |
| `partition_manager` | do the two sides of an assignment agree, is every consumer served | 1 topic, up to 4 partitions, 3 consumers, 2 goroutines waiting | 508 |
| `topic_catalog` | do counts, records, list, assignment and cached copy of a topic agree; who may undo what others did to a record | 1 topic, 3 requests two at a time, batches of 0 and 2, 1 or 2 partitions, 1 consumer, 1 fault | 999,843 |
| `server_lifecycle` | is a stop that is reported graceful graceful, is what it announces true, does it end | both servers, 3 background goroutines, 3 acknowledgment workers, 1 request, 1 connection | 731,934 |

What they show. The violation runs end with the counterexamples of section 6; every other run is a complete
exploration that finds no error. `ack_interleaved`: `PendingIsUnassigned`, `DeadMessageHasLetter`,
`LineageIsKept` and the ledger survive every interleaving and a fault, while attempts and acknowledgments do
not: `RetriesAreRemembered` and `SweepSparesAcknowledged` say that only a goroutine that writes back an
older record undoes them. `DeliveredIsTakenBack` needs only a repository that finds the messages.
`push_shared`: `ChannelIsClosedOnce`, `RegisteredIsServed`, `InactiveIsReleased`, `LeaksAreKnown` (what
stays active without an owner is exactly what a failure, the cleanup pass or a restart left), and
`DeliveryGoesOn` and `CancelledWorkerStops` of every ungrouped worker. `group_concurrent`: `OwnershipSpec`
and `RebalanceIsNotLost`. `group_polite`: Redis and the process do not agree on the members, because a group
pull adds its consumer to Redis only (`subscriber.go:434`); `MembersAgree` says that such guests are the
only difference, for consumers that did not fall silent, and `PartitionsAreTaken` that partitions do not
stay nobody's. `websocket_connection`: `StreamSpec`, `TableMatchesConnections`, `ClosedConnectionEnds`,
`RepliesArrive`, and `ServiceIsAccountedFor`: what the service has active is what the connection can still
end and the orphans, among them everything a connection was subscribed to when it ended.
`partition_manager`: `OwnershipSpec`, `ReadersMatchMap`, `SettledIsBalanced`, `ConsumerIsServed`.
`topic_catalog`: `CountIsBacked` always; `RecordIsCurrent`, `CatalogueAgrees` and `OnlyARaceRefuses` up to
the races and failures they name; `OnlyStaleCopiesUndo`: only a call that another one has overtaken lowers a
count, brings back partitions or a configuration, or revives a deleted topic. `CatalogueAgrees` compares the
record, the list, the assignment and the copy in `activeTopics` (partitions, configuration, a bound of the
count). The other two places of a topic it does not compare, because they disagree without any race: a
delete leaves the stored messages and the cached statistics behind, and a topic created again under the name
starts with them. A topic that a publish created has neither an assignment nor a cached copy.
`server_lifecycle`: `GracefulStopCutsNobody` but for the connections registered too late,
`AnnouncedStopIsTrue` and `StopEnds`.

Why these bounds are enough. Messages, topics, groups, subscriptions and connections interact only through
the goroutines that work on them, so one or two show every interleaving; two goroutines at once are what a
lost update, a double close or a stale write takes, and a third request sees what the two left behind. Two
ids for copies let a letter be written, reprocessed and moved again. A limit of one attempt reaches every
branch of the retry policy (below, at and beyond it), mixed limits the disagreement of the two limits. Three
partitions for two consumers and four for three make uneven shares; `group_polite` has one, because a
rebalance assigns every partition of the topic or none, and who is a member does not depend on them. A
channel of one and a queue of two are full after one and two sends, which is what capacity 100 and 256 need
a hundred steps for; four messages are more than the queue. One restart is enough to have an old record
beside a new process; one request and one connection can each be in every state when the signal comes, and a
second would only repeat them. One fault anywhere includes every crash point. `CHECK_DEADLOCK FALSE` stands
in every configuration but `partition_manager`: the requests, faults and messages of the others are bounded,
and a process may have panicked or stopped.

`NoSharedPartition`, `OneOwner` and `RepliesHaveNoGap` are not properties of a run: the refinements say more
(that no partition has two owners, and also when it may change hands; that no reply is skipped, and also that
none comes after a lost one), and the three are proved for every instance. TLC takes a refinement for each
member of a set as one action property, `[][\A t : [Ownership(t)!Next]_...]_vars`, beside the initial
condition; the theorems `TopicImplementsOwnership` and `EachImplementsStream` state it as
`Ownership(t)!Spec` and `Replies(c)!Spec`. One topic is enough for `partition_manager` because topics meet
nowhere but in the mutex; the theorems are about any number of them.

What a violation run leaves out of its instance it leaves out to make the shortest counterexample; the
passing runs of the same module keep those behaviours and check everything else.

Each property has a mutant in `PROJECT.json`: a plausible slip in the code (a header not written, a flag
set too early, a step dropped) that the run then finds. The mutated operators stand before the definitions
they replace and are marked `Mutant`.

## 4. Fairness

Only the scheduler and the tickers are fair; no client has to send, read or stay, and nothing has to fail.

* AckService: a goroutine that has started performs its next round trip, and the expiration ticker keeps
  firing. Without it no delivery could be taken back by anybody, since nobody else looks.
* PushSubscription: calls and workers run on; the worker's ticker (100 ms) fires. A read that fails is a
  stutter, so this assumes that a worker's reads do not fail for ever.
* ConsumerGroup: goroutines run on; heartbeat and rebalance tickers fire; the topic can be read again.
* WebSocketServer: the handler, the pumps and Close go on; a read returns once the socket is closed; writes
  have a deadline (`writeWait`). Nothing is assumed of the client's reading, nor of when it sends.
* PartitionManager: a started goroutine gets the mutex.
* ServerLifecycle: main takes its next step when it can, and the thirty seconds pass. Nothing is assumed of
  the signal, of a request's answer or of any other goroutine: the time limit must be enough.

All of it is weak fairness: no goroutine competes for a step it could be denied for ever.

## 5. The proofs

The theorems are `Spec => []P`, action properties, four refinements (`LedgerSpec`, `OwnershipSpec` by both
of its implementations, `StreamSpec`) and two facts about the partition arithmetic, for any values of the
constants that satisfy the module's assumptions (named `...Assumption`: finiteness where a cardinality or a
bijection is used, and that the sentinels are not among the values). In particular there is no bound on
messages, goroutines, calls or faults. Each `Proofs` module proves one inductive invariant, a conjunction of
named parts, of which the listed properties are conjuncts or consequences. Every invariant of a passing run
is proved, and every action property.

* **AckServiceProofs.** The states between two round trips are the problem: a goroutine may write a record
  that is arbitrarily old. The invariant says of every snapshot what it says of the store (well typed, and
  pending implies unassigned), that the two agree on lineage (origin and source of an id never change once
  it exists), and that what a lineage header leads to exists. Ids only come into existence (`Grows`) and
  every write is a `SafeWrite`; so a stale record does no harm to the three invariants, and each step is a
  step of the ledger or a stutter (`ImplementsLedger`). For the two action properties: every
  write-back counts at least the attempts of the snapshot it is made from, so that only an older snapshot
  takes some away (`RetriesRemembered`); and nothing in a worker's batch was acknowledged when it was read
  (`WorkersAreFresh`, a second invariant), but for the second write of a failure, which reads again
  (`SweepIsSparing`). That interleaving is the only cause is `AloneForgetsNothing` and
  `AloneReopensNothing`: with a single goroutine (`Handlers = {g}`) no attempt is ever taken off a record and
  no worker takes back what was acknowledged, whatever fails and wherever the process dies. The invariant
  behind them (`Current`) is that what the goroutine carries is still what is stored. `LettersArePermanent`
  needs no hypothesis: a record stays, and its origin never changes.
* **PushSubscriptionProofs.** A subscription is in one pair of hands: the call that creates it, the
  registry, the call that took it out, or the cleanup pass. What its holder relies on is stated per holder
  and survives the steps of the worker and of the others, which is why a channel is closed once although
  two calls and a pass race for it. `LeaksKnown` adds that what Redis has active is in somebody's hands or
  among the orphans, and `LeaksStay` that an orphan is one for good: it stays active and nobody holds it again.
* **ConsumerGroupProofs.** The partition arithmetic is proved first: shares are consecutive ranges, so that
  with distinct positions they are disjoint (`SharesAreDisjoint`) and, the positions being a bijection,
  cover all partitions (`SharesCover`). The invariant adds that a group without the process's knowledge has
  no consumers, and that whoever makes partitions ownerless is still on its way to raise the flag
  (`RebalancesAreNotLost`), which has to survive a rebalance that runs in between. `MembersAlwaysAgree`
  assumes consumers that send one request at a time and commands that do not fail (`Polite`, `"redis" \notin
  FaultKinds`), and nothing of pulls, restarts and silent consumers, more than the run, which leaves
  restarts out: then a consumer is in the hands of at most one call, and each step of a call says how far
  the process and the member set are apart. `ImplementsOwnership` maps each step of a goroutine, and of the
  rebalance worker, to a step of PartitionOwnership or a stutter; the deal rests on the facts about `Share`.
  `OneAtATimeLosesNothing` is the other side of the run `group_lost_update`: with one call at a time, nobody
  removed as dead and a Redis that answers but for the read of the topic, the record lists the members
  (`RecordFollows` says at which step it is how far behind).
* **PartitionOwnershipProofs.** What anybody who implements PartitionOwnership keeps: `OwnershipIsExclusive`,
  and `GainsAreDeals`, that a consumer gains a partition only in a step after which none is left out and the
  shares are even.
* **WebSocketServerProofs.** Only a connection's read pump changes the connection's topics, so the service,
  the connection and the table differ only inside its own steps (`ReaderHolds`), or by `orphans` and `late`
  (`ServiceAccounted`).
  For the replies: the numbers written, held by the write pump and queued are consecutive, and once a reply
  was dropped none is served after it, because the drop has seen the context cancelled. From this
  `ImplementsStream` maps every step to one of ReplyStream: the read pump's answer, queued or dropped, to
  `Answer`, the end of the write pump to `Lose`, a write to `Receive`, all else to a stutter.
  `OnlyDueIsReceived` follows: no client has a reply that is not due.
* **PartitionManagerProofs.** Map and readers say the same; partitions beyond the topic's own have no
  readers; a topic with consumers and no pending goroutine is covered. A redistribution covers because
  shares are. The goroutine that finds another topic under its name redistributes that one, which is right.
  `SettledBalanced` is about the size of the shares: each is the quotient or one more, so that no two differ
  by more than one. `ImplementsOwnership` puts these together: a redistribution is a deal of the topic it
  finds, to its members of that moment.
* **TopicCatalogProofs.** A call nobody overtook knows the topic it works on (`Knows`): its copy is the
  record. What is half done (a record not listed, a cache not cleaned, a count not saved) has a call that is
  doing it, unless a race or a failure was noted. From this follow the agreement of record, list, assignment
  and cached copy, the exactness of the record, that only a race refuses a publish, and that only a call
  that was overtaken undoes anything (`OnlyStaleCallsUndo`). The steps on the partition variables are steps
  of the partition manager (the lemma `CatalogRefines`), so that its safety theorems hold in the whole
  (`CatalogOwnership`), and the refinement of PartitionOwnership with them (`CatalogSharesOut`). With one
  request at a time and no failure (`Calls = {c}`, `MaxFaults = 0`) nothing is ever disturbed, whatever the
  workers and the partition manager's consumers do: between two requests the record is what was asked for
  and the list, the assignment and the cached copy agree with it (`OneAtATimeIsExact`), and no publish is
  refused (`OneAtATimeIsServed`). Of stored messages and statistics nothing of the kind holds.
  `CountIsBacked` needs no such condition: messages are stored before they are counted, no delete removes
  them, and every count in any copy is at most what is stored.

* **ServerLifecycleProofs.** The invariant ties the wait group to the goroutines: `wg` is the number of
  servers and background goroutines that still run, so a count of zero is the announcement
  (`AnnouncementHolds`); a server whose door is shut serves nobody and will not listen again, and each server
  Stop has passed without an error is shut (`StopIsGraceful`).

`PartitionTypeOK`, `GapIsPending` and `DrainIsBacked` are proved for every instance and are not among the
properties of a run: the first is the type invariant of the partition manager, the
others are what `ConsumerIsServed` and `ClosedConnectionEnds` rest on, which the runs check.

Only model-checked: all liveness (`DeliveredIsTakenBack`, `DeliveryGoesOn`, `CancelledWorkerStops`,
`PartitionsAreTaken`, `ClosedConnectionEnds`, `RepliesArrive`, `ConsumerIsServed`, `StopEnds`), which is out
of the prover's reach, as is ENABLED.

## 6. Disagreements between the code and what is said of it

1. `ack_redis_sweep`: the expiration worker asks for "all topics" with an empty name, and the repository
   looks in `topic::messages`; no unacknowledged delivery is ever taken back (`ack_handler.go:331`).
2. `push_unsubscribe`: Unsubscribe closes the channel its worker may be sending on; the panic ends the
   process (`subscriber.go:345`).
3. `group_lost_update`: two joins at once, and the group's record has one of them
   (`consumer_repository.go:208`).
4. `websocket_shutdown`: Shutdown finds a connection to close whose write pump is closing it already (its ping
   failed); both get past the test of IsAlive, which no lock protects, the pump closes the connection, and the
   process dies inside Shutdown when it comes to do the same (`connection.go:203`).

Also met, modelled as the code has it, and listed under `hazards` only: a push worker delivers the first ten
messages again at every tick; a failed message whose attempts are used up is reset by the retry worker; a
letter is retried up to the configured limit; the cleanup pass cancels nobody; pulls for a group block for
ever; a group pull adds a member the process does not know; a join is answered before its rebalance; a
disconnect leaves its subscriptions active in the service; a delete leaves a topic's messages, against the
comment beside it, and its statistics; a consumer that joins again may be removed as dead; a rebalance that
could not read the topic is not tried again.

Met while reading, and not modelled: a page of `ListTopics` is filtered before the code asks whether there is
more, so that it may report the end too early (`topic_manager.go:507`); a letter, and the message made from
it, forget that their payload is compressed (`dlq.go:283`).

## 7. What is not modelled, and why

* Time: deadlines, tickers and expiry are nondeterministic, so retry delays and message TTLs have no length.
  That an acknowledgment drops the expiry of a key (`message_repository.go:251`), and the float overflow of
  the exponential delay (`retry.go:46`), are therefore out of reach. Expiry itself is left out because a
  record that may vanish between any two steps would leave nothing of the properties about letters and
  lineage: the model is of messages within their lifetime, and of letters within their seven days
  (`dlq.go:74`).
* Parts of a pipeline: the messages of a publish are stored in one step, although Redis may execute a part of
  a pipeline that is not a transaction.
* The DLQ topic a request for MoveToDLQ may name: every letter goes to "dlq".
* Go's fatal errors of unlocked maps: where a worker reads a map that a request may write
  (`workers.go:136`, `workers.go:288`), the process may end, which is the `Restart` of the module.
* A connection that is hijacked and not yet registered when the process ends counts as not cut off.
* Data: payloads, headers other than lineage, filters, keys and the choice of a partition, which are pure.
* Code nothing calls: the linear and fixed retry strategies, the per-topic DLQ strategy, pendingAcks,
  `BroadcastToTopic`, `DeliverMessage`, the publisher's `DeleteTopic`, `UpdatePartitionStats`. The topic
  workers and the partition manager's consumers are called by tests only; they are modelled (`Workers`,
  `ManagePartitions`) because they are what the component is for.
* Reads without state: listings and their paging, health, statistics other than the counts above. The
  statistics counters of the acknowledgment and subscriber services are written and decide nothing.
* The ring buffer (`pkg/collections`): sequential, and imported by no package of the broker.
* The goroutines Stop does not wait for, once the process has ended: they end wherever they are. The Redis
  client that Stop closes served the first Ping only; the repositories have one of their own, which is never
  closed (`cmd/server/app.go`).
* HTTP decoding, CLI, metrics, tracing, configuration, compression, deployment.
* Several broker processes on one Redis: each module's scope is one process, as the code's in-memory tables
  assume.

## 8. The plan

Done, in this order: AckService with its ledger; PushSubscription; ConsumerGroup; WebSocketServer;
PartitionManager; TopicCatalog, which composes it with the publisher; ServerLifecycle; the subscription's
lifetime across restarts; the proofs of every invariant; the abstract specifications PartitionOwnership and
ReplyStream with the proofs that they are implemented; for the disagreements that only concurrency causes,
the proofs that one request at a time does not meet them. What could follow:

1. Composition of WebSocketServer with PushSubscription: the service's counter becomes the registry, a
   subscribe request of a connection the steps of Subscribe, and the orphans of a disconnect the
   subscriptions of the cleanup pass.
2. Listings: the paging of `ListTopics` with its filter, as an operator against a reference definition.
3. Message expiry in AckService: a key that vanishes, with the properties restated for messages within their
   lifetime, and which writes keep a message alive for ever.
4. The topic's health report and its cache, which nothing but its own request reads.
