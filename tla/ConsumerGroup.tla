--------------------------- MODULE ConsumerGroup ---------------------------
(***************************************************************************)
(* A consumer group of the subscriber service: JoinConsumerGroup,          *)
(* LeaveConsumerGroup, PullWithConsumerGroup, the heartbeat worker and the *)
(* rebalance worker, over the Redis consumer group repository.             *)
(*                                                                         *)
(* A group lives twice. Redis has its record, whose Consumers map is read, *)
(* changed and written back, and the set of its members. The process has   *)
(* an activeConsumerGroup under groupsMutex, with the partitions of each   *)
(* consumer and the rebalancing flag; the heartbeat worker reads and flags *)
(* it outside the lock. One action is one Redis round trip or one critical *)
(* section. Scope: one group, one topic, one broker process.               *)
(*                                                                         *)
(* Abstractions: the record consumer:<group>:<id> is written together with *)
(* the membership, which alone leads to it; elapsed time is                *)
(* nondeterministic (a consumer may fall silent, a rebalance may wait).    *)
(***************************************************************************)
EXTENDS Integers, FiniteSets

CONSTANTS
  Consumers,   \* consumer ids
  NoConsumer,  \* no consumer
  NoGroup,     \* the group has no record in Redis
  Partitions,  \* how many partitions the topic has
  Calls,       \* requests that may be in progress at once
  heartbeat,   \* the goroutine of the heartbeat worker
  Requests,    \* the requests that are sent: "join", "pull", "leave"
  Polite,      \* a consumer waits for an answer before its next request
  StreamIsFed, \* something adds messages to stream:<topic>
  FaultKinds,  \* the faults that happen: "redis", "topic", "restart"
  MaxCalls,    \* bound: requests served
  MaxSilences, \* bound: consumers that fall silent
  MaxFaults    \* bound: faults

ASSUME GroupAssumption ==
  /\ IsFiniteSet(Consumers)
  /\ NoConsumer \notin Consumers
  /\ \A S \in SUBSET Consumers : S # NoGroup
  /\ Partitions \in Nat
  /\ heartbeat \notin Calls
  /\ Requests \subseteq {"join", "pull", "leave"}

VARIABLES
  group,        \* Redis: Consumers of the record consumergroup:<name>
  members,      \* Redis: consumergroup:<name>:consumers
  live,         \* the group is in service.consumerGroups
  active,       \* activeConsumerGroup.consumers
  assigned,     \* consumer.Partitions of each active consumer
  stale,        \* the consumers whose lastPull is over 60 seconds ago
  rebalancing,  \* activeConsumerGroup.rebalancing
  locked,       \* groupsMutex is held by the rebalance worker
  gaveUp,       \* history: the last rebalance could not read the topic
  guests,       \* history: members whom the process was never told of, or forgot
  strays,       \* history: consumers that fell silent since the process started
  call,         \* the goroutines of the requests and of the heartbeat worker
  calls, silences, faults  \* counters of the bounds

redis == <<group, members>>
memory == <<live, active, assigned, stale, rebalancing, locked, gaveUp>>
history == <<guests, strays>>
counters == <<calls, silences, faults>>
vars == <<redis, memory, call, history, counters>>
-----------------------------------------------------------------------------
Goroutines == Calls \cup {heartbeat}
PartitionIds == 0 .. (Partitions - 1)

Steps ==
  {"idle", "get", "create", "sadd", "readAdd", "writeAdd", "register",
   "trigger", "reply", "read", "beat",
   "srem", "readRemove", "writeRemove", "unregister", "flag"}

\* seen is the Consumers map the goroutine has read, rest the dead consumers
\* the heartbeat worker has still to remove.
Goroutine ==
  [step : Steps, kind : {"join", "pull", "leave", "dead"},
   id : Consumers \cup {NoConsumer},
   seen : SUBSET Consumers, rest : SUBSET Consumers]

Idle ==
  [step |-> "idle", kind |-> "join", id |-> NoConsumer, seen |-> {}, rest |-> {}]

TypeOK ==
  /\ group \in (SUBSET Consumers) \cup {NoGroup}
  /\ members \subseteq Consumers
  /\ live \in BOOLEAN
  /\ active \subseteq Consumers
  /\ assigned \in [Consumers -> SUBSET PartitionIds]
  /\ stale \subseteq active
  /\ rebalancing \in BOOLEAN
  /\ locked \in BOOLEAN
  /\ gaveUp \in BOOLEAN
  /\ guests \subseteq Consumers /\ strays \subseteq Consumers
  /\ call \in [Goroutines -> Goroutine]
  /\ calls \in Nat /\ silences \in Nat /\ faults \in Nat

Init ==
  /\ group = NoGroup
  /\ members = {}
  /\ live = FALSE
  /\ active = {}
  /\ assigned = [c \in Consumers |-> {}]
  /\ stale = {}
  /\ rebalancing = FALSE
  /\ locked = FALSE
  /\ gaveUp = FALSE
  /\ guests = {} /\ strays = {}
  /\ call = [k \in Goroutines |-> Idle]
  /\ calls = 0 /\ silences = 0 /\ faults = 0

At(k, step) == call[k].step = step
Goto(k, step) == call' = [call EXCEPT ![k].step = step]
Return(k) == call' = [call EXCEPT ![k] = Idle]
-----------------------------------------------------------------------------
(* Requests.                                                               *)

\* A join without an id gets a new one; any id may be given.
Request(k, kind, c) ==
  /\ At(k, "idle")
  /\ kind \in Requests
  /\ calls < MaxCalls
  /\ Polite => \A l \in Goroutines : call[l].id # c
  /\ calls' = calls + 1
  /\ call' = [call EXCEPT ![k] =
                [Idle EXCEPT !.step = IF kind = "leave" THEN "srem" ELSE "get",
                             !.kind = kind, !.id = c]]
  /\ UNCHANGED <<redis, memory, history, silences, faults>>

\* ensureConsumerInGroup: GetGroup, CreateGroup if that fails, AddConsumer.
GetGroup(k) ==
  /\ At(k, "get")
  /\ Goto(k, IF group = NoGroup THEN "create" ELSE "sadd")
  /\ UNCHANGED <<redis, memory, history, counters>>

CreateGroup(k) ==
  /\ At(k, "create")
  /\ group' = {}
  /\ Goto(k, "sadd")
  /\ UNCHANGED <<members, memory, history, counters>>

\* A pull of a consumer that never joined makes it a member all the same.
AddMember(k) ==
  /\ At(k, "sadd")
  /\ members' = members \cup {call[k].id}
  /\ guests' = guests \cup (IF call[k].kind = "pull" THEN {call[k].id} \ active ELSE {})
  /\ Goto(k, "readAdd")
  /\ UNCHANGED <<group, memory, strays, counters>>

\* The consumer is in Redis, or an error was logged.
Added(k) == IF call[k].kind = "join" THEN "register" ELSE "read"

ReadForAdd(k) ==
  /\ At(k, "readAdd")
  /\ \/ /\ group = NoGroup
        /\ Goto(k, Added(k))
     \/ /\ group # NoGroup
        /\ call' = [call EXCEPT ![k].step = "writeAdd", ![k].seen = group]
  /\ UNCHANGED <<redis, memory, history, counters>>

WriteAdded(k) ==
  /\ At(k, "writeAdd")
  /\ group' = call[k].seen \cup {call[k].id}
  /\ Goto(k, Added(k))
  /\ UNCHANGED <<members, memory, history, counters>>

\* Mutant: a consumer that comes back finds what it had.
RegisterAgain(k) ==
  /\ At(k, "register")
  /\ ~locked
  /\ live' = TRUE
  /\ active' = active \cup {call[k].id}
  /\ stale' = stale \ {call[k].id}
  /\ rebalancing' = (rebalancing \/ ~live)
  /\ Goto(k, "trigger")
  /\ guests' = guests \ {call[k].id}
  /\ UNCHANGED <<redis, assigned, locked, gaveUp, strays, counters>>

\* A new activeConsumer, without partitions, replaces the one of the same id.
Register(k) ==
  /\ At(k, "register")
  /\ ~locked
  /\ live' = TRUE
  /\ active' = active \cup {call[k].id}
  /\ assigned' = [assigned EXCEPT ![call[k].id] = {}]
  /\ stale' = stale \ {call[k].id}
  /\ rebalancing' = (rebalancing \/ ~live)
  /\ Goto(k, "trigger")
  /\ guests' = guests \ {call[k].id}
  /\ UNCHANGED <<redis, locked, gaveUp, strays, counters>>

\* Mutant: left to Register, which flags a new group only.
TriggerNothing(k) ==
  /\ At(k, "trigger")
  /\ ~locked
  /\ Goto(k, "reply")
  /\ UNCHANGED <<redis, memory, history, counters>>

TriggerRebalance(k) ==
  /\ At(k, "trigger")
  /\ ~locked
  /\ rebalancing' = (rebalancing \/ live)
  /\ Goto(k, "reply")
  /\ UNCHANGED <<redis, live, active, assigned, stale, locked, gaveUp, history, counters>>

\* The partitions are read outside the lock.
JoinReply(k) ==
  /\ At(k, "reply")
  /\ Return(k)
  /\ UNCHANGED <<redis, memory, history, counters>>

\* XREADGROUP without a time limit: it returns if the stream is fed.
ReadStream(k) ==
  /\ At(k, "read")
  /\ StreamIsFed
  /\ Goto(k, "beat")
  /\ UNCHANGED <<redis, memory, history, counters>>

UpdateHeartbeat(k) ==
  /\ At(k, "beat")
  /\ ~locked
  /\ stale' = stale \ {call[k].id}
  /\ Return(k)
  /\ UNCHANGED <<redis, live, active, assigned, rebalancing, locked, gaveUp, history,
                 counters>>
-----------------------------------------------------------------------------
(* Removal, by the consumer itself or by the heartbeat worker.             *)

\* Mutant: the set of members is left alone.
RemoveMemberNot(k) ==
  /\ At(k, "srem")
  /\ guests' = guests \ {call[k].id}
  /\ Goto(k, "readRemove")
  /\ UNCHANGED <<redis, memory, strays, counters>>

RemoveMember(k) ==
  /\ At(k, "srem")
  /\ members' = members \ {call[k].id}
  /\ guests' = guests \ {call[k].id}
  /\ Goto(k, "readRemove")
  /\ UNCHANGED <<group, memory, strays, counters>>

ReadForRemove(k) ==
  /\ At(k, "readRemove")
  /\ \/ /\ group = NoGroup
        /\ Goto(k, "unregister")
     \/ /\ group # NoGroup
        /\ call' = [call EXCEPT ![k].step = "writeRemove", ![k].seen = group]
  /\ UNCHANGED <<redis, memory, history, counters>>

WriteRemoved(k) ==
  /\ At(k, "writeRemove")
  /\ group' = call[k].seen \ {call[k].id}
  /\ Goto(k, "unregister")
  /\ UNCHANGED <<members, memory, history, counters>>

\* Mutant: the flag is left to the heartbeat worker.
UnregisterQuietly(k) ==
  /\ At(k, "unregister")
  /\ call[k].kind = "leave"
  /\ ~locked
  /\ active' = active \ {call[k].id}
  /\ stale' = stale \ {call[k].id}
  /\ Return(k)
  /\ UNCHANGED <<redis, live, assigned, rebalancing, locked, gaveUp, history, counters>>

\* Leave deletes the consumer and sets the flag in one critical section.
Unregister(k) ==
  /\ At(k, "unregister")
  /\ call[k].kind = "leave"
  /\ ~locked
  /\ active' = active \ {call[k].id}
  /\ stale' = stale \ {call[k].id}
  /\ rebalancing' = (rebalancing \/ live)
  /\ Return(k)
  /\ UNCHANGED <<redis, live, assigned, locked, gaveUp, history, counters>>

\* The heartbeat worker collects the dead consumers outside the lock. A request
\* that writes the map meanwhile may end the process (Go's fatal concurrent map
\* iteration and map write): that outcome is Restart.
CollectDead ==
  /\ At(heartbeat, "idle")
  /\ \E c \in stale :
       call' = [call EXCEPT ![heartbeat] =
                  [Idle EXCEPT !.step = "srem", !.kind = "dead", !.id = c,
                               !.rest = stale \ {c}]]
  /\ UNCHANGED <<redis, memory, history, counters>>

RemoveDead(k) ==
  /\ At(k, "unregister")
  /\ call[k].kind = "dead"
  /\ ~locked
  /\ active' = active \ {call[k].id}
  /\ stale' = stale \ {call[k].id}
  /\ \/ /\ call[k].rest = {}
        /\ Goto(k, "flag")
     \/ \E c \in call[k].rest :
          call' = [call EXCEPT ![k].step = "srem", ![k].id = c, ![k].rest = @ \ {c}]
  /\ UNCHANGED <<redis, live, assigned, rebalancing, locked, gaveUp, history, counters>>

\* The flag is set outside the lock.
FlagRebalance(k) ==
  /\ At(k, "flag")
  /\ rebalancing' = TRUE
  /\ Return(k)
  /\ UNCHANGED <<redis, live, active, assigned, stale, locked, gaveUp, history, counters>>
-----------------------------------------------------------------------------
(* The rebalance worker.                                                   *)

\* Mutant: off by one.
ShareTooLong(i, n) ==
  LET base == Partitions \div n
      extra == Partitions % n
      first == i * base + (IF i < extra THEN i ELSE extra)
  IN  first .. (first + base)

\* The partitions of the i-th of n consumers, from 0: ranges of equal length,
\* the first ones longer by one.
Share(i, n) ==
  LET base == Partitions \div n
      extra == Partitions % n
      first == i * base + (IF i < extra THEN i ELSE extra)
  IN  first .. (first + base - (IF i < extra THEN 0 ELSE 1))

\* The consumers in the order in which Go iterates over the map.
Orders == {pos \in [active -> 0 .. (Cardinality(active) - 1)] :
             \A c, d \in active : pos[c] = pos[d] => c = d}

Redistribute ==
  \E pos \in Orders :
    assigned' = [c \in Consumers |->
                   IF c \in active THEN Share(pos[c], Cardinality(active))
                                   ELSE assigned[c]]

\* Five seconds after the last rebalance, the worker takes the lock and asks
\* Redis for the topic.
StartRebalance ==
  /\ live
  /\ ~locked
  /\ rebalancing
  /\ locked' = TRUE
  /\ UNCHANGED <<redis, live, active, assigned, stale, rebalancing, gaveUp, call, history,
                 counters>>

FinishRebalance ==
  /\ locked
  /\ IF active = {} THEN UNCHANGED assigned ELSE Redistribute
  /\ rebalancing' = FALSE
  /\ locked' = FALSE
  /\ gaveUp' = FALSE
  /\ UNCHANGED <<redis, live, active, stale, call, history, counters>>
-----------------------------------------------------------------------------
(* Time and faults.                                                        *)

FallSilent(c) ==
  /\ c \in active \ stale
  /\ silences < MaxSilences
  /\ silences' = silences + 1
  /\ stale' = stale \cup {c}
  /\ strays' = strays \cup {c}
  /\ UNCHANGED <<redis, live, active, assigned, rebalancing, locked, gaveUp, guests, call,
                 calls, faults>>

Fault(kind) ==
  /\ kind \in FaultKinds
  /\ faults < MaxFaults
  /\ faults' = faults + 1
  /\ UNCHANGED <<calls, silences>>

\* A Redis command fails. ensureConsumerInGroup takes a failed read for a group
\* that does not exist; a failed creation may have written the record; errors
\* of AddConsumer and RemoveConsumer are logged.
RedisError(k) ==
  /\ Fault("redis")
  /\ \/ At(k, "get") /\ Goto(k, "create") /\ UNCHANGED group
     \/ At(k, "create") /\ Return(k) /\ group' \in {group, {}}
     \/ /\ call[k].step \in {"sadd", "readAdd", "writeAdd"}
        /\ Goto(k, Added(k))
        /\ UNCHANGED group
     \/ At(k, "read") /\ Return(k) /\ UNCHANGED group
     \/ /\ call[k].step \in {"srem", "readRemove", "writeRemove"}
        /\ Goto(k, "unregister")
        /\ UNCHANGED group
  /\ UNCHANGED <<members, memory, history>>

\* The rebalance worker cannot read the topic: it gives up, and the flag is
\* cleared all the same.
TopicError ==
  /\ Fault("topic")
  /\ locked
  /\ active # {}
  /\ rebalancing' = FALSE
  /\ locked' = FALSE
  /\ gaveUp' = TRUE
  /\ UNCHANGED <<redis, live, active, assigned, stale, history, call>>

\* The process is restarted: only Redis remains.
Restart ==
  /\ Fault("restart")
  /\ live' = FALSE
  /\ active' = {}
  /\ assigned' = [c \in Consumers |-> {}]
  /\ stale' = {}
  /\ rebalancing' = FALSE
  /\ locked' = FALSE
  /\ gaveUp' = FALSE
  /\ guests' = members
  /\ strays' = {}
  /\ call' = [k \in Goroutines |-> Idle]
  /\ UNCHANGED redis
-----------------------------------------------------------------------------
Proceed(k) ==
  \/ GetGroup(k) \/ CreateGroup(k) \/ AddMember(k) \/ ReadForAdd(k) \/ WriteAdded(k)
  \/ Register(k) \/ TriggerRebalance(k) \/ JoinReply(k)
  \/ ReadStream(k) \/ UpdateHeartbeat(k)
  \/ RemoveMember(k) \/ ReadForRemove(k) \/ WriteRemoved(k)
  \/ Unregister(k) \/ RemoveDead(k) \/ FlagRebalance(k)

Next ==
  \/ \E k \in Calls, c \in Consumers, kind \in Requests : Request(k, kind, c)
  \/ \E k \in Goroutines : Proceed(k) \/ RedisError(k)
  \/ CollectDead
  \/ StartRebalance
  \/ FinishRebalance
  \/ \E c \in Consumers : FallSilent(c)
  \/ TopicError
  \/ Restart

Spec == Init /\ [][Next]_vars

\* Goroutines run on, the tickers keep firing and the topic can be read; nobody
\* has to send a request, to fall silent or to fail.
Fairness ==
  /\ \A k \in Goroutines : WF_vars(Proceed(k))
  /\ WF_vars(CollectDead)
  /\ WF_vars(StartRebalance)
  /\ WF_vars(FinishRebalance)

FairSpec == Spec /\ Fairness
-----------------------------------------------------------------------------
(* Properties.                                                             *)

\* A partition is never assigned to two consumers of the group, whoever joins,
\* leaves or dies between two rebalances (rebalanceConsumerGroup).
NoSharedPartition ==
  \A c, d \in active : c # d => assigned[c] \cap assigned[d] = {}

Held == [c \in Consumers |-> IF c \in active THEN assigned[c] ELSE {}]

Ownership ==
  INSTANCE PartitionOwnership WITH
    Partitions <- PartitionIds, parts <- PartitionIds, members <- active, owns <- Held

\* A consumer gets and loses partitions as PartitionOwnership promises: by a
\* rebalance that gives every one to one active consumer, in even shares, or by
\* losing all it has when it leaves, dies or joins again, and never otherwise
\* (rebalanceConsumerGroup, JoinConsumerGroup, LeaveConsumerGroup).
OwnershipSpec == Ownership!Spec

Covered == UNION {assigned[c] : c \in active} = PartitionIds

\* While somebody is there to consume and a partition is nobody's, a rebalance
\* is flagged or a goroutine is on its way to flag it, although the flag is set
\* outside the lock that protects the consumers (processConsumerHeartbeats). The
\* exception: processRebalancing clears the flag of a rebalance that gave up.
RebalanceIsNotLost ==
  active # {} /\ ~Covered =>
    \/ rebalancing
    \/ gaveUp
    \/ \E k \in Goroutines : \/ At(k, "trigger")
                             \/ call[k].kind = "dead" /\ ~At(k, "idle")

\* A request of c, or the removal of c, is between its write to Redis and its
\* change of the process.
Changing(c) ==
  \E k \in Goroutines :
    /\ call[k].id = c
    /\ \/ call[k].kind = "join" /\ call[k].step \in {"readAdd", "writeAdd", "register"}
       \/ call[k].step \in {"readRemove", "writeRemove", "unregister"}

\* While no command fails, and however the requests of consumers that wait for
\* their answers interleave: every active consumer that did not fall silent is a
\* member in Redis, and the members that are not active are exactly the guests,
\* those that a restart left or that pulled without a join. A pull adds its
\* consumer to Redis only (PullWithConsumerGroup, ensureConsumerInGroup), so the
\* process never shares partitions with it nor misses its heartbeats.
MembersAgree ==
  \A c \in Consumers \ strays :
    ~Changing(c) => /\ c \in active => c \in members
                    /\ c \in members \ active <=> c \in guests

\* Partitions that are nobody's are assigned again, once the consumers stay and
\* unless the rebalance gave up ("Consumer groups with automatic rebalancing",
\* README.md:35).
PartitionsAreTaken ==
  (active # {} /\ ~Covered /\ ~gaveUp) ~> (Covered \/ active = {} \/ gaveUp)

\* "Add consumer to group's consumers map" (consumer_repository.go:203): when
\* nobody is at work on the group, its record lists its members.
RecordListsMembers ==
  (\A k \in Goroutines : At(k, "idle")) /\ group # NoGroup => group = members
=============================================================================
