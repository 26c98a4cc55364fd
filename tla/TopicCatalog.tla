---------------------------- MODULE TopicCatalog ----------------------------
(***************************************************************************)
(* The topics of the broker: the topic service (CreateTopic, UpdateTopic,  *)
(* DeleteTopic, GetTopicStats and its workers), Publish and PublishBatch   *)
(* of the publisher service, over the Redis topic repository, and the      *)
(* partition manager, whose module this one extends.                       *)
(*                                                                         *)
(* A topic is in up to five places. Redis has its record topic:<name>, the *)
(* set "topics" that lists it and the index topic:<name>:messages. The     *)
(* process has the activeTopics cache, the partition assignments and the   *)
(* cache of statistics. A call visits them one after the other, without a  *)
(* transaction or a lock around the visit, and the record is written back  *)
(* as it was read: one action is one Redis round trip or one critical      *)
(* section.                                                                *)
(*                                                                         *)
(* Abstractions: of a record, the partitions, the message count and the    *)
(* configuration (retention, size and Config are one value) are kept; the  *)
(* health cache, the rates and the bytes are left out; a cached statistic  *)
(* may expire at any time. The pipeline that stores messages is one step;  *)
(* Redis may in fact execute a part of it. An in-memory read is part of    *)
(* the step that precedes it. truth, disturbed and the field touched are   *)
(* history.                                                                *)
(***************************************************************************)
EXTENDS PartitionManager

CONSTANTS
  Calls,              \* requests that may be in progress at once
  PartitionCounts,    \* partitions a creator may ask for
  DefaultPartitions,  \* config.DefaultPartitions
  BatchSizes,         \* valid messages of a batch
  Configs,            \* configurations an update may set
  NewConfig,          \* the configuration of a new topic
  Workers,            \* StartTopicWorkers was called
  MaxCalls,           \* bound: requests served
  MaxFaults           \* bound: failed Redis commands and restarts

ASSUME CatalogAssumption ==
  /\ Topics # {}
  /\ PartitionCounts \subseteq 1 .. MaxPartitions
  /\ DefaultPartitions \in 1 .. MaxPartitions
  /\ BatchSizes \subseteq Nat
  /\ Workers \in BOOLEAN

VARIABLES
  record,     \* Redis: topic:<name>
  listed,     \* Redis: topics
  stored,     \* Redis: the length of topic:<name>:messages
  active,     \* service.activeTopics
  stats,      \* statsCollector.statsCache: the message count, or NotCached
  call,       \* the goroutines of the requests
  truth,      \* history: the topic, had every command been a transaction
  disturbed,  \* history: a call wrote after another one, or was cut short
  calls, faults  \* counters of the bounds

redis == <<record, listed, stored>>
caches == <<active, stats>>
counters == <<calls, faults>>
vars == <<partitionVars, redis, caches, call, truth, disturbed, counters>>
-----------------------------------------------------------------------------
Topic == [partitions : 0 .. MaxPartitions, count : Nat, config : Configs \cup {NewConfig}]

\* A topic that is not there has no partitions; one that is there has some.
NoTopic == [partitions |-> 0, count |-> 0, config |-> NewConfig]
NewTopic(n) == [partitions |-> n, count |-> 0, config |-> NewConfig]
Exists(t) == record[t].partitions > 0
NotCached == -1

Steps ==
  {"idle", "exists", "set", "list", "reget", "store", "save", "init", "cache",
   "unlist", "drop", "clean", "uncache", "read", "collect"}

\* entity is the copy of the record the call holds, size the number of
\* messages it publishes; touched: another call has changed the topic since
\* this one read it.
Call ==
  [step : Steps, kind : {"publish", "create", "update", "delete", "stats"},
   topic : Topics, entity : Topic, size : Nat, touched : BOOLEAN]

NoCall ==
  [step |-> "idle", kind |-> "stats", topic |-> CHOOSE t \in Topics : TRUE,
   entity |-> NoTopic, size |-> 0, touched |-> FALSE]

TypeOK ==
  /\ PartitionTypeOK
  /\ record \in [Topics -> Topic]
  /\ listed \subseteq Topics
  /\ stored \in [Topics -> Nat]
  /\ active \in [Topics -> Topic]
  /\ stats \in [Topics -> Nat \cup {NotCached}]
  /\ call \in [Calls -> Call]
  /\ truth \in [Topics -> Topic]
  /\ disturbed \in [Topics -> BOOLEAN]
  /\ calls \in Nat /\ faults \in Nat

Init ==
  /\ PartitionInit
  /\ record = [t \in Topics |-> NoTopic]
  /\ listed = {}
  /\ stored = [t \in Topics |-> 0]
  /\ active = [t \in Topics |-> NoTopic]
  /\ stats = [t \in Topics |-> NotCached]
  /\ call = [c \in Calls |-> NoCall]
  /\ truth = [t \in Topics |-> NoTopic]
  /\ disturbed = [t \in Topics |-> FALSE]
  /\ calls = 0 /\ faults = 0

At(c, step) == call[c].step = step
TopicOf(c) == call[c].topic
Enter(c, step) == [call[c] EXCEPT !.step = step]

\* The call c goes on as next; it has changed nothing that others read.
Quietly(c, next) ==
  /\ call' = [call EXCEPT ![c] = next]
  /\ UNCHANGED disturbed

\* The call c goes on as next; it has changed its topic, under the eyes of the
\* other calls at work on it, or after one of them had changed it.
Write(c, next) ==
  /\ call' = [d \in Calls |->
                IF d = c THEN next
                ELSE IF call[d].topic = TopicOf(c) /\ call[d].step # "idle"
                  THEN [call[d] EXCEPT !.touched = TRUE]
                  ELSE call[d]]
  /\ disturbed' = [disturbed EXCEPT ![TopicOf(c)] = @ \/ call[c].touched]
-----------------------------------------------------------------------------
(* Requests, with the first command of each. One that is refused at once or *)
(* answered from a cache changes nothing and is left out.                   *)

Request(c, next) ==
  /\ At(c, "idle")
  /\ calls < MaxCalls
  /\ calls' = calls + 1
  /\ Quietly(c, next)
  /\ UNCHANGED <<partitionVars, redis, caches, truth, faults>>

Asked(kind, t, step) == [NoCall EXCEPT !.kind = kind, !.topic = t, !.step = step]

\* Mutant: looks for the topic in the list.
EnsureTopicListed(c, t, n) ==
  \/ /\ Exists(t) /\ t \in listed
     /\ Request(c, [Asked("publish", t, "store") EXCEPT !.size = n, !.entity = record[t]])
  \/ /\ t \notin listed
     /\ Request(c, [Asked("publish", t, "exists") EXCEPT !.size = n])

\* Reads the topic, and goes on to create it if it is not there.
EnsureTopicExists(c, t, n) ==
  \/ /\ Exists(t)
     /\ Request(c, [Asked("publish", t, "store") EXCEPT !.size = n, !.entity = record[t]])
  \/ /\ ~Exists(t)
     /\ Request(c, [Asked("publish", t, "exists") EXCEPT !.size = n])

Publish(c, t) == EnsureTopicExists(c, t, 1)

\* n of the messages are valid. Without any, an existing topic is only read.
PublishBatch(c, t, n) ==
  /\ n > 0 \/ ~Exists(t)
  /\ EnsureTopicExists(c, t, n)

CreateTopic(c, t, n) ==
  /\ ~Exists(t)
  /\ Request(c, [Asked("create", t, "set") EXCEPT !.entity = NewTopic(n)])

\* Mutant: starts from the cached copy.
UpdateFromCache(c, t, v) ==
  /\ active[t].partitions > 0
  /\ Request(c, [Asked("update", t, "save") EXCEPT !.entity = [active[t] EXCEPT !.config = v]])

\* Mutant: makes the topic anew, with the configuration asked for.
UpdateStartsOver(c, t, v) ==
  /\ Exists(t)
  /\ Request(c, [Asked("update", t, "save") EXCEPT
                    !.entity = [NewTopic(record[t].partitions) EXCEPT !.config = v]])

UpdateTopic(c, t, v) ==
  /\ Exists(t)
  /\ Request(c, [Asked("update", t, "save") EXCEPT !.entity = [record[t] EXCEPT !.config = v]])

DeleteTopic(c, t) ==
  /\ Exists(t)
  /\ Request(c, Asked("delete", t, "unlist"))

GetTopicStats(c, t) ==
  /\ stats[t] = NotCached
  /\ Request(c, Asked("stats", t, "read"))
-----------------------------------------------------------------------------
(* Publishing.                                                             *)

\* The publisher's CreateTopic: "already exists" ends the publish.
CheckMissing(c) ==
  /\ At(c, "exists")
  /\ Quietly(c, IF Exists(TopicOf(c)) THEN NoCall
                ELSE [Enter(c, "set") EXCEPT !.entity = NewTopic(DefaultPartitions),
                                             !.touched = FALSE])
  /\ UNCHANGED <<partitionVars, redis, caches, truth, counters>>

\* Topics created by a batch without a valid message stay.
GetAgain(c) ==
  /\ At(c, "reget")
  /\ Quietly(c, IF Exists(TopicOf(c)) /\ call[c].size > 0
                THEN [Enter(c, "store") EXCEPT !.entity = record[TopicOf(c)],
                                               !.touched = FALSE]
                ELSE NoCall)
  /\ UNCHANGED <<partitionVars, redis, caches, truth, counters>>

\* Mutant: the batch is counted once more.
StoreCountsTwice(c) ==
  /\ At(c, "store")
  /\ stored' = [stored EXCEPT ![TopicOf(c)] = @ + call[c].size]
  /\ truth' = [truth EXCEPT ![TopicOf(c)].count = @ + call[c].size]
  /\ Quietly(c, [Enter(c, "save") EXCEPT !.entity.count = @ + 2 * call[c].size])
  /\ UNCHANGED <<partitionVars, record, listed, caches, counters>>

\* The messages go into the index of the topic, their number is added to the
\* copy.
StoreMessages(c) ==
  /\ At(c, "store")
  /\ stored' = [stored EXCEPT ![TopicOf(c)] = @ + call[c].size]
  /\ truth' = [truth EXCEPT ![TopicOf(c)].count = @ + call[c].size]
  /\ Quietly(c, [Enter(c, "save") EXCEPT !.entity.count = @ + call[c].size])
  /\ UNCHANGED <<partitionVars, record, listed, caches, counters>>

\* The copy overwrites the record, whether it is still there or not.
SaveCount(c) ==
  /\ At(c, "save")
  /\ call[c].kind = "publish"
  /\ record' = [record EXCEPT ![TopicOf(c)] = call[c].entity]
  /\ Write(c, NoCall)
  /\ UNCHANGED <<partitionVars, listed, stored, caches, truth, counters>>
-----------------------------------------------------------------------------
(* The topic repository's Create, shared by both services, and the rest of *)
(* the topic service's CreateTopic.                                        *)

SetRecord(c) ==
  /\ At(c, "set")
  /\ record' = [record EXCEPT ![TopicOf(c)] = call[c].entity]
  /\ truth' = [truth EXCEPT ![TopicOf(c)] = call[c].entity]
  /\ Write(c, Enter(c, "list"))
  /\ UNCHANGED <<partitionVars, listed, stored, caches, counters>>

ListTopic(c) ==
  /\ At(c, "list")
  /\ listed' = listed \cup {TopicOf(c)}
  /\ Write(c, Enter(c, IF call[c].kind = "publish" THEN "reget" ELSE "init"))
  /\ UNCHANGED <<partitionVars, record, stored, caches, truth, counters>>

\* Mutant: off by one.
InitOneMorePartition(c) ==
  /\ At(c, "init")
  /\ InitializePartitions(TopicOf(c), call[c].entity.partitions + 1)
  /\ Write(c, Enter(c, "cache"))
  /\ UNCHANGED <<redis, caches, truth, counters>>

InitPartitions(c) ==
  /\ At(c, "init")
  /\ InitializePartitions(TopicOf(c), call[c].entity.partitions)
  /\ Write(c, Enter(c, "cache"))
  /\ UNCHANGED <<redis, caches, truth, counters>>

AddToActiveTopics(c) ==
  /\ At(c, "cache")
  /\ call[c].kind = "create"
  /\ active' = [active EXCEPT ![TopicOf(c)] = call[c].entity]
  /\ Write(c, NoCall)
  /\ UNCHANGED <<partitionVars, redis, stats, truth, counters>>
-----------------------------------------------------------------------------
(* The topic service's UpdateTopic, which answers with GetTopic.           *)

SaveUpdate(c) ==
  /\ At(c, "save")
  /\ call[c].kind = "update"
  /\ record' = [record EXCEPT ![TopicOf(c)] = call[c].entity]
  /\ truth' = [truth EXCEPT ![TopicOf(c)].config = call[c].entity.config]
  /\ Write(c, Enter(c, "cache"))
  /\ UNCHANGED <<partitionVars, listed, stored, caches, counters>>

UpdateActiveTopics(c) ==
  /\ At(c, "cache")
  /\ call[c].kind = "update"
  /\ active' = [active EXCEPT ![TopicOf(c)] =
                  IF @.partitions > 0 THEN call[c].entity ELSE @]
  /\ Write(c, IF stats[TopicOf(c)] = NotCached THEN Enter(c, "read") ELSE NoCall)
  /\ UNCHANGED <<partitionVars, redis, stats, truth, counters>>
-----------------------------------------------------------------------------
(* The topic service's DeleteTopic.                                        *)

UnlistTopic(c) ==
  /\ At(c, "unlist")
  /\ listed' = listed \ {TopicOf(c)}
  /\ Write(c, Enter(c, "drop"))
  /\ UNCHANGED <<partitionVars, record, stored, caches, truth, counters>>

\* The record goes; the pattern msg:<topic>:* names no message, the messages
\* and their index stay.
DropRecord(c) ==
  /\ At(c, "drop")
  /\ record' = [record EXCEPT ![TopicOf(c)] = NoTopic]
  /\ truth' = [truth EXCEPT ![TopicOf(c)] = NoTopic]
  /\ Write(c, Enter(c, "clean"))
  /\ UNCHANGED <<partitionVars, listed, stored, caches, counters>>

\* Mutant: the assignment of the deleted topic stays.
CleanNothing(c) ==
  /\ At(c, "clean")
  /\ Write(c, Enter(c, "uncache"))
  /\ UNCHANGED <<partitionVars, redis, caches, truth, counters>>

CleanPartitions(c) ==
  /\ At(c, "clean")
  /\ CleanupPartitions(TopicOf(c))
  /\ Write(c, Enter(c, "uncache"))
  /\ UNCHANGED <<redis, caches, truth, counters>>

RemoveFromActiveTopics(c) ==
  /\ At(c, "uncache")
  /\ active' = [active EXCEPT ![TopicOf(c)] = NoTopic]
  /\ Write(c, NoCall)
  /\ UNCHANGED <<partitionVars, redis, stats, truth, counters>>
-----------------------------------------------------------------------------
(* Statistics and the workers.                                             *)

ReadTopic(c) ==
  /\ At(c, "read")
  /\ Quietly(c, IF Exists(TopicOf(c))
                THEN [Enter(c, "collect") EXCEPT !.entity = record[TopicOf(c)]]
                ELSE NoCall)
  /\ UNCHANGED <<partitionVars, redis, caches, truth, counters>>

CollectTopicStats(c) ==
  /\ At(c, "collect")
  /\ stats' = [stats EXCEPT ![TopicOf(c)] = call[c].entity.count]
  /\ Quietly(c, NoCall)
  /\ UNCHANGED <<partitionVars, redis, active, truth, counters>>

\* A minute has passed, or the caches are cleared at midnight.
ExpireStats(t) ==
  /\ stats[t] # NotCached
  /\ stats' = [stats EXCEPT ![t] = NotCached]
  /\ UNCHANGED <<partitionVars, redis, active, call, truth, disturbed, counters>>

\* Every 30 seconds, from the cached copies.
CollectForActiveTopics(t) ==
  /\ Workers
  /\ active[t].partitions > 0
  /\ stats' = [stats EXCEPT ![t] = active[t].count]
  /\ UNCHANGED <<partitionVars, redis, active, call, truth, disturbed, counters>>

\* A topic nobody has updated for 24 hours leaves the cache.
PerformCleanupTasks(t) ==
  /\ Workers
  /\ active[t].partitions > 0
  /\ active' = [active EXCEPT ![t] = NoTopic]
  /\ UNCHANGED <<partitionVars, redis, stats, call, truth, disturbed, counters>>

\* Consumers come and go, and the partitions are redistributed.
ManagePartitions(t) ==
  /\ Manage(t)
  /\ UNCHANGED <<redis, caches, call, truth, disturbed, counters>>
-----------------------------------------------------------------------------
(* Failures.                                                               *)

Fault ==
  /\ faults < MaxFaults
  /\ faults' = faults + 1
  /\ UNCHANGED <<redis, truth, calls>>

\* What is done so far needs the rest.
HalfDone(k) ==
  \/ k.step \in {"list", "drop", "clean"}
  \/ k.step = "save" /\ k.kind = "publish"
  \/ k.step = "cache" /\ k.kind = "update"

\* A Redis command fails, or its answer is lost: then the call ends before what
\* would have come next. A publish whose count is not saved succeeds.
RedisError(c) ==
  /\ Fault
  /\ \/ call[c].step \in {"exists", "set", "list", "init", "reget", "store", "save",
                          "unlist", "drop", "clean", "read"}
     \/ At(c, "cache") /\ call[c].kind = "update"
  /\ call' = [call EXCEPT ![c] = NoCall]
  /\ disturbed' = [disturbed EXCEPT ![TopicOf(c)] = @ \/ HalfDone(call[c])]
  /\ UNCHANGED <<partitionVars, caches>>

\* ensureTopicExists takes any error of Get for a topic that is not there.
GetFails(c, t, n) ==
  /\ Fault
  /\ At(c, "idle")
  /\ Quietly(c, [Asked("publish", t, "exists") EXCEPT !.size = n, !.touched = TRUE])
  /\ UNCHANGED <<partitionVars, caches>>

\* The broker is restarted: only Redis remains, nothing is loaded from it.
Restart ==
  /\ Fault
  /\ LosePartitions
  /\ active' = [t \in Topics |-> NoTopic]
  /\ stats' = [t \in Topics |-> NotCached]
  /\ call' = [c \in Calls |-> NoCall]
  /\ disturbed' = [t \in Topics |-> disturbed[t] \/
                     \E c \in Calls : call[c].topic = t /\ HalfDone(call[c])]
-----------------------------------------------------------------------------
Proceed(c) ==
  \/ CheckMissing(c) \/ SetRecord(c) \/ ListTopic(c) \/ GetAgain(c)
  \/ StoreMessages(c) \/ SaveCount(c)
  \/ InitPartitions(c) \/ AddToActiveTopics(c)
  \/ SaveUpdate(c) \/ UpdateActiveTopics(c)
  \/ UnlistTopic(c) \/ DropRecord(c) \/ CleanPartitions(c) \/ RemoveFromActiveTopics(c)
  \/ ReadTopic(c) \/ CollectTopicStats(c)

\* POST /v1/publish/<topic> and its batch, and the WebSocket's publish.
AskPublisher(c, t) ==
  \/ Publish(c, t)
  \/ \E n \in BatchSizes : PublishBatch(c, t, n)
  \/ \E n \in BatchSizes \cup {1} : GetFails(c, t, n)

\* /v1/topics and /v1/topics/<topic>
AskTopicService(c, t) ==
  \/ \E n \in PartitionCounts : CreateTopic(c, t, n)
  \/ \E v \in Configs : UpdateTopic(c, t, v)
  \/ DeleteTopic(c, t)
  \/ GetTopicStats(c, t)

Next ==
  \/ \E c \in Calls, t \in Topics : AskPublisher(c, t) \/ AskTopicService(c, t)
  \/ \E c \in Calls : Proceed(c) \/ RedisError(c)
  \/ \E t \in Topics : ExpireStats(t)
  \/ \E t \in Topics : CollectForActiveTopics(t)
  \/ \E t \in Topics : PerformCleanupTasks(t)
  \/ \E t \in Topics : ManagePartitions(t)
  \/ Restart

Spec == Init /\ [][Next]_vars
-----------------------------------------------------------------------------
(* Properties.                                                             *)

\* The message count of a topic errs on one side only: whatever is lost,
\* overwritten, deleted or created again, neither the record nor a cache ever
\* claims more messages than are stored (Publish counts after Store).
CountIsBacked ==
  \A t \in Topics :
    /\ record[t].count <= stored[t]
    /\ active[t].count <= stored[t]
    /\ stats[t] <= stored[t]

Settled(t) ==
  /\ ~disturbed[t]
  /\ \A c \in Calls : call[c].topic = t => call[c].step \in {"idle", "read", "collect"}

\* Nothing is lost but by a race or a failure: when no call is at work on a topic
\* and none ever wrote after another one or was cut short, its record counts
\* every message published since it was created and has the configuration of the
\* last update.
RecordIsCurrent == \A t \in Topics : Settled(t) => record[t] = truth[t]

\* On the same terms the record, the list, the assignment and the cached copy of
\* a topic agree: what is listed has a record and conversely, what has partitions
\* has those of the record, and what activeTopics holds has an assignment, the
\* partitions and the configuration of the record and not more messages (it is not
\* told of a publish). The other two places say less: stored and stats outlive
\* the topic (DeleteTopic forgets neither), and a topic that a publish created is
\* neither cached nor has it partitions.
CatalogueAgrees ==
  \A t \in Topics : Settled(t) =>
    /\ t \in listed <=> Exists(t)
    /\ t \in managed => Exists(t) /\ size[t] = record[t].partitions
    /\ active[t].partitions > 0 =>
         /\ t \in managed
         /\ active[t].partitions = record[t].partitions
         /\ active[t].config = record[t].config
         /\ active[t].count <= record[t].count

\* What call c does to the record of its topic takes nothing back.
UndoesNothing(c) ==
  LET now == record[TopicOf(c)]  next == record'[TopicOf(c)] IN
  /\ now.partitions > 0 /\ next.partitions > 0 =>
       /\ next.partitions = now.partitions
       /\ next.count >= now.count
       /\ next.config # now.config => call[c].kind = "update"
  /\ now.partitions = 0 /\ next.partitions > 0 => At(c, "set")

\* Records are written back whole, as they were read. Still only a call that
\* another one has overtaken since it read the record can take back what others
\* did: lower the count, restore partitions or a configuration, or bring a deleted
\* topic back to life (SaveCount, SaveUpdate, SetRecord).
OnlyStaleCopiesUndo ==
  [][\A c \in Calls :
       call'[c].step # call[c].step /\ ~call[c].touched => UndoesNothing(c)]_vars

\* A publish that is refused because the topic exists, or because it does not
\* exist after all, has been overtaken by another call or a failed read
\* (ensureTopicExists).
OnlyARaceRefuses ==
  \A c \in Calls :
    /\ At(c, "exists") /\ Exists(TopicOf(c)) => call[c].touched
    /\ At(c, "reget") /\ ~Exists(TopicOf(c)) => call[c].touched
=============================================================================
