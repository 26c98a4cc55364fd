-------------------------- MODULE PartitionManager --------------------------
(***************************************************************************)
(* The partition manager of the topic service: which consumer reads which  *)
(* partition of a topic.                                                   *)
(*                                                                         *)
(* It keeps, under one mutex, a PartitionAssignment per topic, which says  *)
(* the same thing twice: ConsumerMap gives the partitions of a consumer    *)
(* and each Partition lists its Consumers. AddConsumer and RemoveConsumer  *)
(* leave the redistribution to a goroutine that takes the mutex later and  *)
(* looks the topic up again by its name: by then the topic may be gone, or *)
(* another one with that name. One action is one critical section.         *)
(*                                                                         *)
(* Abstractions: the Rebalancing flag is set and cleared inside one        *)
(* critical section, so that nobody ever sees it set; message counts,      *)
(* sizes and dates of a partition are left out.                            *)
(***************************************************************************)
EXTENDS Integers, FiniteSets

CONSTANTS
  Topics,         \* topic names
  Consumers,      \* consumer ids
  MaxPartitions,  \* the most partitions a topic may have
  MaxPending      \* bound: goroutines waiting to redistribute a topic

ASSUME PartitionAssumption ==
  /\ IsFiniteSet(Consumers)
  /\ MaxPartitions \in Nat \ {0}

VARIABLES
  managed,  \* the keys of pm.assignments
  size,     \* len(assignment.Partitions), 0 when not managed
  members,  \* the keys of assignment.ConsumerMap
  owned,    \* assignment.ConsumerMap: the partitions of a consumer
  readers,  \* Partition.Consumers of each partition
  pending   \* goroutines started by AddConsumer and RemoveConsumer

partitionVars == <<managed, size, members, owned, readers, pending>>
-----------------------------------------------------------------------------
PartitionIds == 0 .. (MaxPartitions - 1)
PartitionsOf(t) == 0 .. (size[t] - 1)
NobodyOwns == [c \in Consumers |-> {}]
NobodyReads == [p \in PartitionIds |-> {}]

PartitionTypeOK ==
  /\ managed \subseteq Topics
  /\ size \in [Topics -> 0 .. MaxPartitions]
  /\ members \in [Topics -> SUBSET Consumers]
  /\ owned \in [Topics -> [Consumers -> SUBSET PartitionIds]]
  /\ readers \in [Topics -> [PartitionIds -> SUBSET Consumers]]
  /\ pending \in [Topics -> Nat]

PartitionInit ==
  /\ managed = {}
  /\ size = [t \in Topics |-> 0]
  /\ members = [t \in Topics |-> {}]
  /\ owned = [t \in Topics |-> NobodyOwns]
  /\ readers = [t \in Topics |-> NobodyReads]
  /\ pending = [t \in Topics |-> 0]

\* The assignment of topic t is the one of n partitions nobody reads.
Reset(t, n) ==
  /\ size' = [size EXCEPT ![t] = n]
  /\ members' = [members EXCEPT ![t] = {}]
  /\ owned' = [owned EXCEPT ![t] = NobodyOwns]
  /\ readers' = [readers EXCEPT ![t] = NobodyReads]
  /\ UNCHANGED pending
-----------------------------------------------------------------------------
\* A new assignment replaces the one the topic may have, with its consumers.
InitializePartitions(t, n) ==
  /\ managed' = managed \cup {t}
  /\ Reset(t, n)

CleanupPartitions(t) ==
  /\ managed' = managed \ {t}
  /\ Reset(t, 0)

\* An unknown topic is refused, a known consumer is left as it is.
AddConsumer(t, c) ==
  /\ t \in managed
  /\ c \notin members[t]
  /\ pending[t] < MaxPending
  /\ members' = [members EXCEPT ![t] = @ \cup {c}]
  /\ owned' = [owned EXCEPT ![t][c] = {}]
  /\ pending' = [pending EXCEPT ![t] = @ + 1]
  /\ UNCHANGED <<managed, size, readers>>

\* Mutant: the partitions still list the consumer.
RemoveFromMapOnly(t, c) ==
  /\ t \in managed
  /\ pending[t] < MaxPending
  /\ members' = [members EXCEPT ![t] = @ \ {c}]
  /\ owned' = [owned EXCEPT ![t][c] = {}]
  /\ pending' = [pending EXCEPT ![t] = IF members'[t] = {} THEN @ ELSE @ + 1]
  /\ UNCHANGED <<managed, size, readers>>

RemoveConsumer(t, c) ==
  /\ t \in managed
  /\ pending[t] < MaxPending
  /\ members' = [members EXCEPT ![t] = @ \ {c}]
  /\ owned' = [owned EXCEPT ![t][c] = {}]
  /\ readers' = [readers EXCEPT ![t] = [p \in PartitionIds |-> @[p] \ {c}]]
  /\ pending' = [pending EXCEPT ![t] = IF members'[t] = {} THEN @ ELSE @ + 1]
  /\ UNCHANGED <<managed, size>>
-----------------------------------------------------------------------------
\* The orders in which Go may iterate over the consumers C.
Orders(C) == {at \in [0 .. (Cardinality(C) - 1) -> C] :
                \A c \in C : \E i \in 0 .. (Cardinality(C) - 1) : at[i] = c}

\* Mutant: the last partition goes to the first consumer too.
RoundRobinWraps(n, C, at, c) ==
  {p \in 0 .. (n - 1) : at[p % Cardinality(C)] = c \/ (p = n - 1 /\ at[0] = c)}

\* Mutant: consecutive partitions, rounded up.
RoundRobinBlocks(n, C, at, c) ==
  LET block == (n + Cardinality(C) - 1) \div Cardinality(C)
  IN  {p \in 0 .. (n - 1) : at[p \div block] = c}

\* Partition p goes to the consumer at place p % len(consumers).
RoundRobin(n, C, at, c) == {p \in 0 .. (n - 1) : at[p % Cardinality(C)] = c}

\* Without consumers nothing changes. Every consumer gets its new partitions,
\* every partition its one consumer.
RebalancePartitions(t) ==
  /\ t \in managed
  /\ IF members[t] = {}
       THEN UNCHANGED <<owned, readers>>
       ELSE \E at \in Orders(members[t]) :
              LET share(c) == RoundRobin(size[t], members[t], at, c)
              IN  /\ owned' = [owned EXCEPT ![t] =
                       [c \in Consumers |->
                          IF c \in members[t] THEN share(c) ELSE @[c]]]
                  /\ readers' = [readers EXCEPT ![t] =
                       [p \in PartitionIds |->
                          IF p \in PartitionsOf(t)
                            THEN {c \in members[t] : p \in share(c)}
                            ELSE @[p]]]
  /\ UNCHANGED <<managed, size, members>>

\* Mutant: the goroutine gives up.
BackgroundGivesUp(t) ==
  /\ pending[t] > 0
  /\ pending' = [pending EXCEPT ![t] = @ - 1]
  /\ UNCHANGED <<managed, size, members, owned, readers>>

\* The goroutine of AddConsumer or RemoveConsumer: "topic not found" is logged.
BackgroundRebalance(t) ==
  /\ pending[t] > 0
  /\ pending' = [pending EXCEPT ![t] = @ - 1]
  /\ IF t \in managed THEN RebalancePartitions(t)
                      ELSE UNCHANGED <<managed, size, members, owned, readers>>

\* POST /v1/topics/<topic>/rebalance
RequestRebalance(t) ==
  /\ RebalancePartitions(t)
  /\ UNCHANGED pending

\* The process is restarted: nothing of this is stored.
LosePartitions ==
  /\ managed' = {}
  /\ size' = [t \in Topics |-> 0]
  /\ members' = [t \in Topics |-> {}]
  /\ owned' = [t \in Topics |-> NobodyOwns]
  /\ readers' = [t \in Topics |-> NobodyReads]
  /\ pending' = [t \in Topics |-> 0]
-----------------------------------------------------------------------------
Manage(t) ==
  \/ BackgroundRebalance(t)
  \/ RequestRebalance(t)
  \/ \E c \in Consumers : AddConsumer(t, c) \/ RemoveConsumer(t, c)

PartitionNext ==
  \/ \E t \in Topics : Manage(t)
  \/ \E t \in Topics, n \in 1 .. MaxPartitions : InitializePartitions(t, n)
  \/ \E t \in Topics : CleanupPartitions(t)
  \/ LosePartitions

PartitionSpec == PartitionInit /\ [][PartitionNext]_partitionVars

\* Goroutines run on. Nobody has to add or remove a consumer or a topic.
PartitionFairness == \A t \in Topics : WF_partitionVars(BackgroundRebalance(t))

PartitionFairSpec == PartitionSpec /\ PartitionFairness
-----------------------------------------------------------------------------
(* Properties.                                                             *)

\* Two consumers never own the same partition, and a partition has at most one
\* reader (RebalancePartitions moves partitions one consumer at a time).
OneOwner ==
  \A t \in Topics :
    /\ \A c, d \in members[t] : c # d => owned[t][c] \cap owned[t][d] = {}
    /\ \A p \in PartitionIds : \A c, d \in readers[t][p] : c = d

\* GetPartitionInfo, which counts Partition.Consumers, and GetConsumerPartitions,
\* which reads ConsumerMap, tell the same story at any moment.
ReadersMatchMap ==
  \A t \in Topics, c \in Consumers, p \in PartitionIds :
    c \in readers[t][p] <=> c \in members[t] /\ p \in owned[t][c]

Ownership(t) ==
  INSTANCE PartitionOwnership WITH
    Partitions <- PartitionIds,
    parts <- PartitionsOf(t),
    members <- members[t],
    owns <- owned[t]

\* The partitions of every topic are shared out as PartitionOwnership promises,
\* whatever happens to other topics: only a redistribution, one a request asks
\* for or one a goroutine left over from an earlier assignment runs, moves them
\* (InitializePartitions, AddConsumer, RemoveConsumer, RebalancePartitions).
OwnershipSpec ==
  /\ \A t \in Topics : Ownership(t)!Init
  /\ [][\A t \in Topics : [Ownership(t)!Next]_(Ownership(t)!vars)]_partitionVars

Gap(t) == members[t] # {} /\ \E p \in PartitionsOf(t) : readers[t][p] = {}

\* A partition that nobody reads although the topic has consumers is waited for
\* by a goroutine: none is lost, whatever happens to the topic in between.
GapIsPending == \A t \in Topics : Gap(t) => pending[t] > 0

\* When no redistribution is pending, no consumer owns two partitions more than
\* another ("automatic partition rebalancing" of RebalancePartitions).
SettledIsBalanced ==
  \A t \in Topics : pending[t] = 0 =>
    \A c, d \in members[t] :
      Cardinality(owned[t][c]) <= Cardinality(owned[t][d]) + 1

\* A consumer of a topic with enough partitions gets one, unless it leaves, too
\* many others come, or the topic is reset.
ConsumerIsServed ==
  \A t \in Topics, c \in Consumers :
    LET waits == /\ c \in members[t]
                 /\ Cardinality(members[t]) <= size[t]
                 /\ owned[t][c] = {}
    IN  waits ~> ~waits
=============================================================================
