----------------------- MODULE PartitionManagerProofs -----------------------
(* Proofs about PartitionManager: whatever consumers and topics come and go,  *)
(* the map and the partitions agree, a partition has one owner, and a         *)
(* goroutine waits for every gap.                                             *)
EXTENDS PartitionManager, FiniteSetTheorems, TLAPS

\* One assignment: mem the consumers, own their partitions, rd the readers of
\* each partition, n the number of partitions.
Consistent(mem, own, rd, n) ==
  /\ \A c \in Consumers, p \in PartitionIds : c \in rd[p] <=> c \in mem /\ p \in own[c]
  /\ \A p \in PartitionIds : \A c, d \in rd[p] : c = d
  /\ \A p \in PartitionIds : p >= n => rd[p] = {}

Covered(mem, rd, n) == mem = {} \/ \A p \in 0 .. (n - 1) : rd[p] # {}

PartitionInv ==
  /\ PartitionTypeOK
  /\ \A t \in Topics :
       /\ Consistent(members[t], owned[t], readers[t], size[t])
       /\ pending[t] = 0 => Covered(members[t], readers[t], size[t])
       /\ t \notin managed => members[t] = {}

\* Modulo stays in range (calculateOptimalAssignment indexes consumers with it).
LEMMA ModuloInRange ==
  ASSUME NEW p \in Nat, NEW k \in Nat \ {0}
  PROVE  p % k \in 0 .. (k - 1)
  OBVIOUS

\* A set of consumers that is not empty has a positive number of them.
LEMMA SomeConsumers ==
  ASSUME NEW C \in SUBSET Consumers, C # {}
  PROVE  Cardinality(C) \in Nat \ {0}
<1>1. IsFiniteSet(C)
  BY FS_Subset, PartitionAssumption
<1> QED BY <1>1, FS_CardinalityType, FS_EmptySet

\* Redistributing over a non-empty set of consumers gives every partition
\* exactly one reader, and the map says so too (RebalancePartitions).
LEMMA RedistributionIsConsistent ==
  ASSUME NEW mem \in SUBSET Consumers, mem # {}, NEW n \in 0 .. MaxPartitions,
         NEW own \in [Consumers -> SUBSET PartitionIds],
         NEW rd \in [PartitionIds -> SUBSET Consumers],
         NEW at \in Orders(mem),
         Consistent(mem, own, rd, n),
         NEW own2, own2 = [c \in Consumers |->
           IF c \in mem THEN RoundRobin(n, mem, at, c) ELSE own[c]],
         NEW rd2, rd2 = [p \in PartitionIds |->
           IF p \in 0 .. (n - 1) THEN {c \in mem : p \in RoundRobin(n, mem, at, c)}
                                 ELSE rd[p]]
  PROVE  /\ own2 \in [Consumers -> SUBSET PartitionIds]
         /\ rd2 \in [PartitionIds -> SUBSET Consumers]
         /\ Consistent(mem, own2, rd2, n)
         /\ Covered(mem, rd2, n)
<1> DEFINE k == Cardinality(mem)
<1>1. k \in Nat \ {0}
  BY SomeConsumers
<1>2. at \in [0 .. (k - 1) -> mem]
  BY DEF Orders
<1> HIDE DEF k
<1>3. \A p \in 0 .. (n - 1) : p \in PartitionIds
  BY PartitionAssumption DEF PartitionIds
<1>4. \A p \in 0 .. (n - 1) : p % k \in 0 .. (k - 1)
  BY <1>1, ModuloInRange
<1>5. \A p \in 0 .. (n - 1) : at[p % k] \in mem
  BY <1>2, <1>4
<1>6. \A c \in mem : RoundRobin(n, mem, at, c) = {p \in 0 .. (n - 1) : at[p % k] = c}
  BY DEF RoundRobin, k
<1>7. \A p \in 0 .. (n - 1) : rd2[p] = {at[p % k]}
  BY <1>3, <1>5, <1>6
<1>8. \A p \in PartitionIds : p >= n => rd2[p] = {}
  BY DEF Consistent, PartitionIds
<1>9. \A p \in PartitionIds : p \in 0 .. (n - 1) \/ p >= n
  BY DEF PartitionIds
<1>10. \A c \in Consumers, p \in PartitionIds : c \in rd2[p] <=> c \in mem /\ p \in own2[c]
  <2> SUFFICES ASSUME NEW c \in Consumers, NEW p \in PartitionIds
               PROVE  c \in rd2[p] <=> c \in mem /\ p \in own2[c]
    OBVIOUS
  <2>1. ASSUME c \notin mem PROVE c \notin rd2[p]
    BY <2>1, <1>5, <1>7, <1>8, <1>9
  <2>2. ASSUME c \in mem PROVE c \in rd2[p] <=> p \in own2[c]
    <3>1. own2[c] = {q \in 0 .. (n - 1) : at[q % k] = c}
      BY <2>2, <1>6
    <3>2. CASE p \in 0 .. (n - 1)
      BY <3>1, <3>2, <1>7
    <3>3. CASE p >= n
      BY <3>1, <3>3, <1>8 DEF PartitionIds
    <3> QED BY <3>2, <3>3, <1>9
  <2> QED BY <2>1, <2>2
<1>11. \A c \in Consumers : own2[c] \in SUBSET PartitionIds
  BY <1>3, <1>6
<1>12. \A p \in PartitionIds : rd2[p] \in SUBSET Consumers
  OBVIOUS
<1>13. \A p \in PartitionIds : \A c, d \in rd2[p] : c = d
  BY <1>7, <1>8, <1>9
<1>14. Consistent(mem, own2, rd2, n)
  BY <1>8, <1>10, <1>13 DEF Consistent
<1>15. Covered(mem, rd2, n)
  BY <1>7 DEF Covered
<1> QED BY <1>11, <1>12, <1>14, <1>15
-----------------------------------------------------------------------------
LEMMA InitialPartitions == PartitionInit => PartitionInv
<1> SUFFICES ASSUME PartitionInit PROVE PartitionInv
  OBVIOUS
<1>1. PartitionTypeOK
  BY PartitionAssumption DEF PartitionInit, PartitionTypeOK, NobodyOwns, NobodyReads
<1>2. ASSUME NEW t \in Topics
      PROVE  /\ Consistent(members[t], owned[t], readers[t], size[t])
             /\ Covered(members[t], readers[t], size[t])
             /\ members[t] = {}
  BY DEF PartitionInit, NobodyOwns, NobodyReads, Consistent, Covered
<1> QED BY <1>1, <1>2 DEF PartitionInv

\* A fresh assignment, as InitializePartitions and CleanupPartitions leave it.
LEMMA ResetKeepsInv ==
  ASSUME PartitionInv, NEW t \in Topics, NEW n \in 0 .. MaxPartitions, Reset(t, n),
         managed' \subseteq Topics, managed \ {t} = managed' \ {t}
  PROVE  PartitionInv'
<1>1. PartitionTypeOK'
  BY DEF PartitionInv, PartitionTypeOK, Reset, NobodyOwns, NobodyReads
<1>2. ASSUME NEW u \in Topics
      PROVE  /\ Consistent(members'[u], owned'[u], readers'[u], size'[u])
             /\ pending'[u] = 0 => Covered(members'[u], readers'[u], size'[u])
             /\ u \notin managed' => members'[u] = {}
  <2>1. CASE u = t
    <3>1. /\ members'[u] = {} /\ owned'[u] = NobodyOwns /\ readers'[u] = NobodyReads
      BY <2>1 DEF PartitionInv, PartitionTypeOK, Reset
    <3> QED BY <3>1 DEF NobodyOwns, NobodyReads, Consistent, Covered
  <2>2. CASE u # t
    <3>1. /\ members'[u] = members[u] /\ owned'[u] = owned[u] /\ readers'[u] = readers[u]
          /\ size'[u] = size[u] /\ pending'[u] = pending[u]
          /\ u \in managed' <=> u \in managed
      BY <2>2 DEF PartitionInv, PartitionTypeOK, Reset
    <3> QED BY <3>1 DEF PartitionInv
  <2> QED BY <2>1, <2>2
<1> QED BY <1>1, <1>2 DEF PartitionInv

LEMMA AddConsumerKeepsInv ==
  ASSUME PartitionInv, NEW t \in Topics, NEW c \in Consumers, AddConsumer(t, c)
  PROVE  PartitionInv'
<1>1. PartitionTypeOK'
  BY DEF PartitionInv, PartitionTypeOK, AddConsumer
<1>2. ASSUME NEW u \in Topics
      PROVE  /\ Consistent(members'[u], owned'[u], readers'[u], size'[u])
             /\ pending'[u] = 0 => Covered(members'[u], readers'[u], size'[u])
             /\ u \notin managed' => members'[u] = {}
  <2>1. CASE u = t
    <3>1. /\ members'[u] = members[u] \cup {c}
          /\ owned'[u] = [owned[u] EXCEPT ![c] = {}]
          /\ readers'[u] = readers[u] /\ size'[u] = size[u]
          /\ c \notin members[u] /\ u \in managed'
          /\ owned[u] \in [Consumers -> SUBSET PartitionIds]
      BY <2>1 DEF PartitionInv, PartitionTypeOK, AddConsumer
    <3>2. pending'[u] # 0
      BY <2>1 DEF PartitionInv, PartitionTypeOK, AddConsumer
    <3>3. Consistent(members[u], owned[u], readers[u], size[u])
      BY DEF PartitionInv
    <3>4. Consistent(members'[u], owned'[u], readers'[u], size'[u])
      BY <3>1, <3>3 DEF Consistent
    <3> QED BY <3>1, <3>2, <3>4
  <2>2. CASE u # t
    <3>1. /\ members'[u] = members[u] /\ owned'[u] = owned[u] /\ readers'[u] = readers[u]
          /\ size'[u] = size[u] /\ pending'[u] = pending[u] /\ managed' = managed
      BY <2>2 DEF PartitionInv, PartitionTypeOK, AddConsumer
    <3> QED BY <3>1 DEF PartitionInv
  <2> QED BY <2>1, <2>2
<1> QED BY <1>1, <1>2 DEF PartitionInv

LEMMA RemoveConsumerKeepsInv ==
  ASSUME PartitionInv, NEW t \in Topics, NEW c \in Consumers, RemoveConsumer(t, c)
  PROVE  PartitionInv'
<1>1. PartitionTypeOK'
  BY DEF PartitionInv, PartitionTypeOK, RemoveConsumer
<1>2. ASSUME NEW u \in Topics
      PROVE  /\ Consistent(members'[u], owned'[u], readers'[u], size'[u])
             /\ pending'[u] = 0 => Covered(members'[u], readers'[u], size'[u])
             /\ u \notin managed' => members'[u] = {}
  <2>1. CASE u = t
    <3>1. /\ members'[u] = members[u] \ {c}
          /\ owned'[u] = [owned[u] EXCEPT ![c] = {}]
          /\ readers'[u] = [p \in PartitionIds |-> readers[u][p] \ {c}]
          /\ size'[u] = size[u] /\ u \in managed'
          /\ owned[u] \in [Consumers -> SUBSET PartitionIds]
      BY <2>1 DEF PartitionInv, PartitionTypeOK, RemoveConsumer
    <3>2. pending'[u] = 0 => members'[u] = {}
      BY <2>1 DEF PartitionInv, PartitionTypeOK, RemoveConsumer
    <3>3. Consistent(members[u], owned[u], readers[u], size[u])
      BY DEF PartitionInv
    <3>4. Consistent(members'[u], owned'[u], readers'[u], size'[u])
      BY <3>1, <3>3 DEF Consistent
    <3> QED BY <3>1, <3>2, <3>4 DEF Covered
  <2>2. CASE u # t
    <3>1. /\ members'[u] = members[u] /\ owned'[u] = owned[u] /\ readers'[u] = readers[u]
          /\ size'[u] = size[u] /\ pending'[u] = pending[u] /\ managed' = managed
      BY <2>2 DEF PartitionInv, PartitionTypeOK, RemoveConsumer
    <3> QED BY <3>1 DEF PartitionInv
  <2> QED BY <2>1, <2>2
<1> QED BY <1>1, <1>2 DEF PartitionInv

\* A redistribution, whoever asked for it: afterwards the topic has no gap.
LEMMA RebalanceKeepsInv ==
  ASSUME PartitionInv, NEW t \in Topics, RebalancePartitions(t),
         pending' \in [Topics -> Nat],
         \A u \in Topics \ {t} : pending'[u] = pending[u]
  PROVE  PartitionInv'
<1>1. /\ members' = members /\ size' = size /\ managed' = managed
      /\ \A u \in Topics \ {t} : owned'[u] = owned[u] /\ readers'[u] = readers[u]
  BY DEF PartitionInv, PartitionTypeOK, RebalancePartitions
<1>2. /\ owned' \in [Topics -> [Consumers -> SUBSET PartitionIds]]
      /\ readers' \in [Topics -> [PartitionIds -> SUBSET Consumers]]
      /\ Consistent(members[t], owned'[t], readers'[t], size[t])
      /\ Covered(members[t], readers'[t], size[t])
  <2>1. CASE members[t] = {}
    BY <2>1 DEF PartitionInv, PartitionTypeOK, RebalancePartitions, Covered
  <2>2. CASE members[t] # {}
    <3>1. PICK at \in Orders(members[t]) :
            /\ owned' = [owned EXCEPT ![t] = [c \in Consumers |->
                 IF c \in members[t] THEN RoundRobin(size[t], members[t], at, c)
                                     ELSE owned[t][c]]]
            /\ readers' = [readers EXCEPT ![t] = [p \in PartitionIds |->
                 IF p \in PartitionsOf(t)
                   THEN {c \in members[t] : p \in RoundRobin(size[t], members[t], at, c)}
                   ELSE readers[t][p]]]
      BY <2>2 DEF PartitionInv, PartitionTypeOK, RebalancePartitions
    <3>2. /\ owned'[t] = [c \in Consumers |->
               IF c \in members[t] THEN RoundRobin(size[t], members[t], at, c)
                                   ELSE owned[t][c]]
          /\ readers'[t] = [p \in PartitionIds |->
               IF p \in 0 .. (size[t] - 1)
                 THEN {c \in members[t] : p \in RoundRobin(size[t], members[t], at, c)}
                 ELSE readers[t][p]]
      BY <3>1 DEF PartitionInv, PartitionTypeOK, PartitionsOf
    <3>3. /\ members[t] \in SUBSET Consumers /\ size[t] \in 0 .. MaxPartitions
          /\ owned[t] \in [Consumers -> SUBSET PartitionIds]
          /\ readers[t] \in [PartitionIds -> SUBSET Consumers]
          /\ Consistent(members[t], owned[t], readers[t], size[t])
      BY DEF PartitionInv, PartitionTypeOK
    <3>4. /\ owned'[t] \in [Consumers -> SUBSET PartitionIds]
          /\ readers'[t] \in [PartitionIds -> SUBSET Consumers]
          /\ Consistent(members[t], owned'[t], readers'[t], size[t])
          /\ Covered(members[t], readers'[t], size[t])
      BY <2>2, <3>2, <3>3, RedistributionIsConsistent
    <3>5. /\ owned' \in [Topics -> [Consumers -> SUBSET PartitionIds]]
          /\ readers' \in [Topics -> [PartitionIds -> SUBSET Consumers]]
      BY <3>1, <3>2, <3>4 DEF PartitionInv, PartitionTypeOK
    <3> QED BY <3>4, <3>5
  <2> QED BY <2>1, <2>2
<1>3. PartitionTypeOK'
  BY <1>1, <1>2 DEF PartitionInv, PartitionTypeOK
<1>4. ASSUME NEW u \in Topics
      PROVE  /\ Consistent(members'[u], owned'[u], readers'[u], size'[u])
             /\ pending'[u] = 0 => Covered(members'[u], readers'[u], size'[u])
             /\ u \notin managed' => members'[u] = {}
  <2>1. CASE u = t
    BY <2>1, <1>1, <1>2 DEF PartitionInv
  <2>2. CASE u # t
    BY <2>2, <1>1 DEF PartitionInv
  <2> QED BY <2>1, <2>2
<1> QED BY <1>3, <1>4 DEF PartitionInv

LEMMA BackgroundKeepsInv ==
  ASSUME PartitionInv, NEW t \in Topics, BackgroundRebalance(t)
  PROVE  PartitionInv'
<1>1. /\ pending' \in [Topics -> Nat]
      /\ \A u \in Topics \ {t} : pending'[u] = pending[u]
  BY DEF PartitionInv, PartitionTypeOK, BackgroundRebalance
<1>2. CASE t \in managed
  BY <1>1, <1>2, RebalanceKeepsInv DEF BackgroundRebalance
<1>3. CASE t \notin managed
  <2>1. UNCHANGED <<managed, size, members, owned, readers>>
    BY <1>3 DEF BackgroundRebalance
  <2>2. members[t] = {}
    BY <1>3 DEF PartitionInv
  <2>3. PartitionTypeOK'
    BY <2>1, <1>1 DEF PartitionInv, PartitionTypeOK
  <2>4. ASSUME NEW u \in Topics
        PROVE  /\ Consistent(members'[u], owned'[u], readers'[u], size'[u])
               /\ pending'[u] = 0 => Covered(members'[u], readers'[u], size'[u])
               /\ u \notin managed' => members'[u] = {}
    BY <2>1, <2>2, <1>1 DEF PartitionInv, Covered
  <2> QED BY <2>3, <2>4 DEF PartitionInv
<1> QED BY <1>2, <1>3

LEMMA LoseKeepsInv ==
  ASSUME LosePartitions
  PROVE  PartitionInv'
<1>1. PartitionTypeOK'
  BY PartitionAssumption DEF LosePartitions, PartitionTypeOK, NobodyOwns, NobodyReads
<1>2. ASSUME NEW t \in Topics
      PROVE  /\ Consistent(members'[t], owned'[t], readers'[t], size'[t])
             /\ Covered(members'[t], readers'[t], size'[t])
             /\ members'[t] = {}
  BY DEF LosePartitions, NobodyOwns, NobodyReads, Consistent, Covered
<1> QED BY <1>1, <1>2 DEF PartitionInv

LEMMA PartitionStep == PartitionInv /\ [PartitionNext]_partitionVars => PartitionInv'
<1> SUFFICES ASSUME PartitionInv, [PartitionNext]_partitionVars PROVE PartitionInv'
  OBVIOUS
<1>1. ASSUME NEW t \in Topics, NEW n \in 1 .. MaxPartitions, InitializePartitions(t, n)
      PROVE  PartitionInv'
  <2>1. n \in 0 .. MaxPartitions
    BY PartitionAssumption
  <2>2. /\ Reset(t, n)
        /\ managed' \subseteq Topics /\ managed \ {t} = managed' \ {t}
    BY <1>1 DEF InitializePartitions, PartitionInv, PartitionTypeOK
  <2> QED BY <2>1, <2>2, ResetKeepsInv
<1>2. ASSUME NEW t \in Topics, CleanupPartitions(t)
      PROVE  PartitionInv'
  <2>1. 0 \in 0 .. MaxPartitions
    BY PartitionAssumption
  <2>2. /\ Reset(t, 0)
        /\ managed' \subseteq Topics /\ managed \ {t} = managed' \ {t}
    BY <1>2 DEF CleanupPartitions, PartitionInv, PartitionTypeOK
  <2> QED BY <2>1, <2>2, ResetKeepsInv
<1>3. ASSUME NEW t \in Topics, RequestRebalance(t)
      PROVE  PartitionInv'
  <2>1. pending' \in [Topics -> Nat] /\ pending' = pending
    BY <1>3 DEF RequestRebalance, PartitionInv, PartitionTypeOK
  <2> QED BY <1>3, <2>1, RebalanceKeepsInv DEF RequestRebalance
<1>4. CASE UNCHANGED partitionVars
  BY <1>4 DEF partitionVars, PartitionInv, PartitionTypeOK
<1> QED
  BY <1>1, <1>2, <1>3, <1>4, AddConsumerKeepsInv, RemoveConsumerKeepsInv,
     BackgroundKeepsInv, LoseKeepsInv DEF PartitionNext, Manage
-----------------------------------------------------------------------------
(* Even shares.                                                            *)

LEMMA QuotientIsUnique ==
  ASSUME NEW k \in Nat \ {0}, NEW q \in Int, NEW r \in Int,
         NEW i \in 0 .. (k - 1), NEW j \in 0 .. (k - 1), k * q + i = k * r + j
  PROVE  q = r /\ i = j
<1>1. k * (q - r) = j - i
  OBVIOUS
<1>2. q - r < 1
  <2> SUFFICES ASSUME q - r >= 1 PROVE FALSE
    OBVIOUS
  <2>1. k * (q - r) >= k
    BY SMT
  <2> QED BY <1>1, <2>1
<1>3. r - q < 1
  <2> SUFFICES ASSUME r - q >= 1 PROVE FALSE
    OBVIOUS
  <2>1. k * (r - q) >= k
    BY SMT
  <2>2. k * (r - q) = i - j
    OBVIOUS
  <2> QED BY <2>1, <2>2
<1> QED BY <1>2, <1>3

LEMMA DivisionWithRest ==
  ASSUME NEW p \in Nat, NEW k \in Nat \ {0}
  PROVE  /\ p % k \in 0 .. (k - 1)
         /\ p \div k \in Nat
         /\ p = k * (p \div k) + (p % k)
  OBVIOUS

\* The same quotient with another rest.
LEMMA RestOfSum ==
  ASSUME NEW k \in Nat \ {0}, NEW q \in Nat, NEW j \in 0 .. (k - 1)
  PROVE  (k * q + j) % k = j
<1> DEFINE p == k * q + j
<1>1. p \in Nat
  OBVIOUS
<1>2. /\ p % k \in 0 .. (k - 1)
      /\ p \div k \in Nat
      /\ p = k * (p \div k) + (p % k)
  BY <1>1, DivisionWithRest
<1>3. p \div k \in Int /\ q \in Int /\ k * (p \div k) + (p % k) = k * q + j
  BY <1>2
<1> HIDE DEF p
<1>4. p % k = j
  BY <1>2, <1>3, QuotientIsUnique
<1> QED BY <1>4 DEF p

\* The consumers of an order are all different (calculateOptimalAssignment
\* ranges over a map).
LEMMA OrderIsInjective ==
  ASSUME NEW C \in SUBSET Consumers, NEW at \in Orders(C),
         NEW i \in 0 .. (Cardinality(C) - 1), NEW j \in 0 .. (Cardinality(C) - 1),
         at[i] = at[j]
  PROVE  i = j
<1> DEFINE k == Cardinality(C)
<1>1. IsFiniteSet(C) /\ k \in Nat
  BY FS_Subset, FS_CardinalityType, PartitionAssumption
<1>2. IsFiniteSet(0 .. (k - 1)) /\ Cardinality(0 .. (k - 1)) = k
  BY <1>1, FS_Interval
<1>3. at \in Surjection(0 .. (k - 1), C)
  BY DEF Orders, Surjection
<1>4. at \in Injection(0 .. (k - 1), C)
  BY <1>2, <1>3, FS_SurjSameCardinalityImpliesInj
<1> QED BY <1>4 DEF Injection, IsInjective

\* A consumer gets at most one partition more than another: moving a partition
\* from the one's place in the order to the other's stays inside the topic, but
\* for the last.
LEMMA SharesAreEven ==
  ASSUME NEW C \in SUBSET Consumers, NEW n \in Nat, NEW at \in Orders(C),
         NEW c \in C, NEW d \in C
  PROVE  Cardinality(RoundRobin(n, C, at, c)) <= Cardinality(RoundRobin(n, C, at, d)) + 1
<1> DEFINE k == Cardinality(C)
           Rc == RoundRobin(n, C, at, c)
           Rd == RoundRobin(n, C, at, d)
<1>1. k \in Nat \ {0}
  BY SomeConsumers
<1>2. PICK i \in 0 .. (k - 1), j \in 0 .. (k - 1) : at[i] = c /\ at[j] = d
  BY DEF Orders
<1>3. \A p \in 0 .. (n - 1) : /\ p % k \in 0 .. (k - 1)
                              /\ p \div k \in Nat
                              /\ p = k * (p \div k) + (p % k)
  <2> HIDE DEF k
  <2>1. \A p \in 0 .. (n - 1) : p \in Nat
    OBVIOUS
  <2> QED BY <1>1, <2>1, DivisionWithRest
<1>4. Rc = {p \in 0 .. (n - 1) : p % k = i} /\ Rd = {p \in 0 .. (n - 1) : p % k = j}
  BY <1>2, <1>3, OrderIsInjective DEF RoundRobin
<1> HIDE DEF k, Rc, Rd
<1> DEFINE f == [p \in Rc |-> IF p - i + j < n THEN p - i + j ELSE n]
<1>5. ASSUME NEW p \in Rc
      PROVE  p - i + j \in Nat /\ (p - i + j) % k = j
  <2>1. p \in Nat /\ p = k * (p \div k) + i /\ p \div k \in Nat
    BY <1>3, <1>4
  <2>2. p - i + j = k * (p \div k) + j
    BY <2>1, <1>1
  <2>3. k * (p \div k) + j \in Nat
    BY <2>1, <1>1
  <2> QED BY <1>1, <2>1, <2>2, <2>3, RestOfSum
<1>6. f \in [Rc -> Rd \cup {n}]
  BY <1>4, <1>5
<1>7. ASSUME NEW p \in Rc, NEW q \in Rc, p < q
      PROVE  f[p] # f[q]
  <2>1. /\ p \in 0 .. (n - 1) /\ p = k * (p \div k) + i /\ p \div k \in Nat
        /\ q \in 0 .. (n - 1) /\ q = k * (q \div k) + i /\ q \div k \in Nat
    BY <1>3, <1>4
  <2>2. q >= p + k
    <3> DEFINE a == p \div k  b == q \div k
    <3>1. a \in Nat /\ b \in Nat /\ k * a < k * b
      BY <2>1, <1>1, <1>7
    <3> HIDE DEF a, b
    <3>2. b >= a + 1
      <4> SUFFICES ASSUME b <= a PROVE FALSE
        BY <3>1
      <4>1. k * b <= k * a
        BY <3>1, <1>1
      <4> QED BY <3>1, <4>1, <1>1
    <3>3. k * b >= k * (a + 1)
      BY <3>1, <3>2, <1>1
    <3>4. k * (a + 1) = k * a + k
      BY <3>1, <1>1
    <3> QED BY <2>1, <3>1, <3>3, <3>4, <1>1 DEF a, b
  <2>3. p - i + j < n
    BY <2>1, <2>2, <1>1
  <2> QED BY <2>1, <2>2, <2>3, <1>1
<1>8. f \in Injection(Rc, Rd \cup {n})
  <2>1. \A p, q \in Rc : p < q \/ q < p \/ p = q
    BY <1>4
  <2> QED BY <1>6, <1>7, <2>1 DEF Injection, IsInjective
<1>9. IsFiniteSet(Rd) /\ Cardinality(Rd) \in Nat /\ n \notin Rd
  <2>1. IsFiniteSet(0 .. (n - 1))
    BY FS_Interval
  <2>2. Rd \in SUBSET (0 .. (n - 1)) /\ n \notin Rd
    BY <1>4
  <2> QED BY <2>1, <2>2, FS_Subset, FS_CardinalityType
<1>10. IsFiniteSet(Rd \cup {n}) /\ Cardinality(Rd \cup {n}) = Cardinality(Rd) + 1
  BY <1>9, FS_AddElement
<1> QED BY <1>8, <1>10, FS_Injection DEF Rc, Rd

\* Nothing that is not a redistribution settles a topic with consumers.
Even(mem, own) ==
  \A c, d \in mem : Cardinality(own[c]) <= Cardinality(own[d]) + 1

LEMMA RebalanceIsEven ==
  ASSUME PartitionInv, NEW t \in Topics, RebalancePartitions(t)
  PROVE  Even(members[t], owned'[t])
<1>1. CASE members[t] = {}
  BY <1>1 DEF Even
<1>2. CASE members[t] # {}
  <2>1. /\ members[t] \in SUBSET Consumers /\ size[t] \in Nat
        /\ t \in DOMAIN owned
    BY DEF PartitionInv, PartitionTypeOK
  <2>2. PICK at \in Orders(members[t]) :
          owned'[t] = [c \in Consumers |->
            IF c \in members[t] THEN RoundRobin(size[t], members[t], at, c)
                                ELSE owned[t][c]]
    BY <1>2, <2>1 DEF RebalancePartitions
  <2>3. \A c \in members[t] : owned'[t][c] = RoundRobin(size[t], members[t], at, c)
    BY <2>1, <2>2
  <2> QED BY <2>1, <2>3, SharesAreEven DEF Even
<1> QED BY <1>1, <1>2

LEMMA BalanceStep ==
  ASSUME PartitionInv, SettledIsBalanced, [PartitionNext]_partitionVars
  PROVE  SettledIsBalanced'
<1> SUFFICES ASSUME NEW u \in Topics, pending'[u] = 0
             PROVE  Even(members'[u], owned'[u])
  BY DEF SettledIsBalanced, Even
<1>1. pending[u] = 0 => Even(members[u], owned[u])
  BY DEF SettledIsBalanced, Even
<1>2. CASE members'[u] = {}
  BY <1>2 DEF Even
<1>3. CASE UNCHANGED <<members[u], owned[u], pending[u]>>
  BY <1>1, <1>3
<1>4. ASSUME NEW t \in Topics, NEW n \in Nat, Reset(t, n)
      PROVE  Even(members'[u], owned'[u])
  BY <1>4, <1>2, <1>3 DEF Reset, PartitionInv, PartitionTypeOK
<1>5. ASSUME NEW t \in Topics, NEW c \in Consumers,
             AddConsumer(t, c) \/ RemoveConsumer(t, c)
      PROVE  Even(members'[u], owned'[u])
  <2>1. CASE u = t
    BY <1>5, <1>2, <2>1 DEF AddConsumer, RemoveConsumer, PartitionInv, PartitionTypeOK
  <2>2. CASE u # t
    BY <1>5, <1>3, <2>2 DEF AddConsumer, RemoveConsumer, PartitionInv, PartitionTypeOK
  <2> QED BY <2>1, <2>2
<1>6. ASSUME NEW t \in Topics, RebalancePartitions(t), u # t => pending'[u] = pending[u]
      PROVE  Even(members'[u], owned'[u])
  <2>1. CASE u = t
    <3>1. members' = members
      BY <1>6 DEF RebalancePartitions
    <3> QED BY <1>6, <2>1, <3>1, RebalanceIsEven
  <2>2. CASE u # t
    BY <1>6, <1>3, <2>2 DEF RebalancePartitions, PartitionInv, PartitionTypeOK
  <2> QED BY <2>1, <2>2
<1>7. ASSUME NEW t \in Topics, BackgroundRebalance(t)
      PROVE  Even(members'[u], owned'[u])
  <2>1. u # t => pending'[u] = pending[u]
    BY <1>7 DEF BackgroundRebalance, PartitionInv, PartitionTypeOK
  <2>2. CASE t \in managed
    BY <1>6, <1>7, <2>1, <2>2 DEF BackgroundRebalance
  <2>3. CASE t \notin managed
    <3>1. members' = members /\ owned' = owned /\ members[t] = {}
      BY <1>7, <2>3 DEF BackgroundRebalance, PartitionInv
    <3> QED BY <1>2, <1>3, <2>1, <3>1
  <2> QED BY <2>2, <2>3
<1>8. ASSUME NEW t \in Topics, RequestRebalance(t)
      PROVE  Even(members'[u], owned'[u])
  BY <1>6, <1>8 DEF RequestRebalance
<1>9. ASSUME NEW t \in Topics, NEW n \in 1 .. MaxPartitions, InitializePartitions(t, n)
      PROVE  Even(members'[u], owned'[u])
  BY <1>4, <1>9, PartitionAssumption DEF InitializePartitions
<1>10. ASSUME NEW t \in Topics, CleanupPartitions(t)
       PROVE  Even(members'[u], owned'[u])
  BY <1>4, <1>10 DEF CleanupPartitions
<1>11. CASE LosePartitions
  BY <1>2, <1>11 DEF LosePartitions
<1>12. CASE UNCHANGED partitionVars
  BY <1>3, <1>12 DEF partitionVars
<1> QED
  BY <1>5, <1>7, <1>8, <1>9, <1>10, <1>11, <1>12 DEF PartitionNext, Manage
-----------------------------------------------------------------------------
\* The inductive invariant of the partition manager.
THEOREM PartitionInvariant == PartitionSpec => []PartitionInv
  BY InitialPartitions, PartitionStep, PTL DEF PartitionSpec

\* Type correctness of the partition manager.
THEOREM PartitionTypeCorrect == PartitionSpec => []PartitionTypeOK
<1>1. PartitionInv => PartitionTypeOK
  BY DEF PartitionInv
<1> QED BY <1>1, PartitionInvariant, PTL

\* Two consumers never own the same partition (RebalancePartitions).
THEOREM OneOwnerOnly == PartitionSpec => []OneOwner
<1>1. PartitionInv => OneOwner
  <2> SUFFICES ASSUME PartitionInv, NEW t \in Topics
               PROVE  /\ \A c, d \in members[t] : c # d => owned[t][c] \cap owned[t][d] = {}
                      /\ \A p \in PartitionIds : \A c, d \in readers[t][p] : c = d
    BY DEF OneOwner
  <2>1. /\ members[t] \subseteq Consumers
        /\ owned[t] \in [Consumers -> SUBSET PartitionIds]
        /\ Consistent(members[t], owned[t], readers[t], size[t])
    BY DEF PartitionInv, PartitionTypeOK
  <2> QED BY <2>1 DEF Consistent
<1> QED BY <1>1, PartitionInvariant, PTL

\* The two sides of an assignment agree (GetPartitionInfo, GetConsumerPartitions).
THEOREM ReadersMatch == PartitionSpec => []ReadersMatchMap
<1>1. PartitionInv => ReadersMatchMap
  BY DEF PartitionInv, Consistent, ReadersMatchMap
<1> QED BY <1>1, PartitionInvariant, PTL

\* A goroutine waits for every gap, whatever becomes of the topic.
THEOREM NoGapForgotten == PartitionSpec => []GapIsPending
<1>1. PartitionInv => GapIsPending
  <2> SUFFICES ASSUME PartitionInv, NEW t \in Topics, Gap(t)
               PROVE  pending[t] > 0
    BY DEF GapIsPending
  <2>1. pending[t] \in Nat /\ (pending[t] = 0 => Covered(members[t], readers[t], size[t]))
    BY DEF PartitionInv, PartitionTypeOK
  <2> QED BY <2>1 DEF Gap, Covered, PartitionsOf
<1> QED BY <1>1, PartitionInvariant, PTL

\* Once no redistribution is pending the shares are even, for any number of
\* consumers and partitions (calculateOptimalAssignment).
THEOREM SettledBalanced == PartitionSpec => []SettledIsBalanced
<1>1. PartitionInit => SettledIsBalanced
  BY DEF PartitionInit, SettledIsBalanced
<1>2. PartitionInv /\ SettledIsBalanced /\ [PartitionNext]_partitionVars => SettledIsBalanced'
  BY BalanceStep
<1> QED BY <1>1, <1>2, PartitionInvariant, PTL DEF PartitionSpec
-----------------------------------------------------------------------------
(* Each topic is shared out as PartitionOwnership promises.                *)

OutsidersOwnNothing(t) == \A c \in Consumers \ members[t] : owned[t][c] = {}

OwnershipInv == PartitionInv /\ \A t \in Topics : OutsidersOwnNothing(t)

\* A redistribution over consumers is a deal.
LEMMA RebalanceIsDeal ==
  ASSUME PartitionInv, NEW t \in Topics, OutsidersOwnNothing(t),
         RebalancePartitions(t), members[t] # {}
  PROVE  owned'[t] \in Ownership(t)!Deals(PartitionsOf(t), members[t])
<1>1. \A S : Ownership(t)!Cardinality(S) = Cardinality(S)
  BY DEF Ownership!Cardinality, Cardinality
<1>2. /\ members[t] \in SUBSET Consumers /\ size[t] \in 0 .. MaxPartitions
      /\ owned \in [Topics -> [Consumers -> SUBSET PartitionIds]]
      /\ readers \in [Topics -> [PartitionIds -> SUBSET Consumers]]
      /\ Consistent(members[t], owned[t], readers[t], size[t])
  BY DEF PartitionInv, PartitionTypeOK
<1>3. PICK at \in Orders(members[t]) :
        /\ owned' = [owned EXCEPT ![t] =
             [c \in Consumers |->
                IF c \in members[t] THEN RoundRobin(size[t], members[t], at, c)
                                    ELSE @[c]]]
        /\ readers' = [readers EXCEPT ![t] =
             [p \in PartitionIds |->
                IF p \in PartitionsOf(t)
                  THEN {c \in members[t] : p \in RoundRobin(size[t], members[t], at, c)}
                  ELSE @[p]]]
  BY DEF RebalancePartitions
<1>4. /\ owned'[t] = [c \in Consumers |->
             IF c \in members[t] THEN RoundRobin(size[t], members[t], at, c)
                                 ELSE owned[t][c]]
      /\ readers'[t] = [p \in PartitionIds |->
             IF p \in 0 .. (size[t] - 1)
               THEN {c \in members[t] : p \in RoundRobin(size[t], members[t], at, c)}
               ELSE readers[t][p]]
  BY <1>2, <1>3 DEF PartitionsOf
<1>5. /\ Consistent(members[t], owned'[t], readers'[t], size[t])
      /\ Covered(members[t], readers'[t], size[t])
      /\ readers'[t] \in [PartitionIds -> SUBSET Consumers]
  <2>1. /\ members[t] \in SUBSET Consumers /\ size[t] \in 0 .. MaxPartitions
        /\ owned[t] \in [Consumers -> SUBSET PartitionIds]
        /\ readers[t] \in [PartitionIds -> SUBSET Consumers]
        /\ Consistent(members[t], owned[t], readers[t], size[t])
    BY <1>2
  <2>2. /\ Consistent(members[t], owned'[t], readers'[t], size[t])
        /\ Covered(members[t], readers'[t], size[t])
        /\ readers'[t] \in [PartitionIds -> SUBSET Consumers]
        /\ owned'[t] \in [Consumers -> SUBSET PartitionIds]
    BY <1>4, <2>1, RedistributionIsConsistent
  <2> QED BY <2>2
<1>6. /\ \A c \in members[t] : owned'[t][c] = RoundRobin(size[t], members[t], at, c)
      /\ \A c \in Consumers \ members[t] : owned'[t][c] = {}
  BY <1>2, <1>4 DEF OutsidersOwnNothing
<1>7. owned'[t] \in [Consumers -> SUBSET PartitionsOf(t)]
  BY <1>4, <1>6 DEF RoundRobin, PartitionsOf
<1>8. \A p \in PartitionsOf(t) : p \in PartitionIds
  BY <1>2, PartitionAssumption DEF PartitionsOf, PartitionIds
<1>9. \A p \in PartitionsOf(t) : \E c \in members[t] : p \in owned'[t][c]
  <2> SUFFICES ASSUME NEW p \in PartitionsOf(t)
               PROVE  \E c \in members[t] : p \in owned'[t][c]
    OBVIOUS
  <2>1. p \in PartitionIds /\ readers'[t][p] # {}
    BY <1>5, <1>8 DEF Covered, PartitionsOf
  <2>2. PICK c \in Consumers : c \in readers'[t][p]
    BY <1>5, <2>1
  <2> QED BY <1>5, <2>1, <2>2 DEF Consistent
<1>10. \A c, d \in members[t] : c # d => owned'[t][c] \cap owned'[t][d] = {}
  <2> SUFFICES ASSUME NEW c \in members[t], NEW d \in members[t],
                      NEW p \in owned'[t][c], p \in owned'[t][d]
               PROVE  c = d
    OBVIOUS
  <2>1. p \in PartitionIds /\ c \in Consumers /\ d \in Consumers
    BY <1>2, <1>7, <1>8
  <2>2. c \in readers'[t][p] /\ d \in readers'[t][p]
    BY <1>5, <2>1 DEF Consistent
  <2> QED BY <1>5, <2>1, <2>2 DEF Consistent
<1>11. \A c, d \in members[t] : Cardinality(owned'[t][c]) <= Cardinality(owned'[t][d]) + 1
  BY RebalanceIsEven DEF Even
<1> QED BY <1>1, <1>6, <1>7, <1>9, <1>10, <1>11 DEF Ownership!Deals

\* What happens to other topics is not seen.
LEMMA OthersAreNotSeen ==
  ASSUME NEW u \in Topics, UNCHANGED <<size[u], members[u], owned[u]>>
  PROVE  UNCHANGED Ownership(u)!vars
BY DEF Ownership!vars, PartitionsOf

LEMMA ResetIsOwnershipStep ==
  ASSUME PartitionInv, NEW t \in Topics, NEW n \in 0 .. MaxPartitions, Reset(t, n),
         NEW u \in Topics
  PROVE  [Ownership(u)!Next]_(Ownership(u)!vars)
<1>1. CASE u = t
  <2>1. /\ size'[t] = n /\ members'[t] = {} /\ owned'[t] = NobodyOwns
    BY DEF Reset, PartitionInv, PartitionTypeOK
  <2>2. PartitionsOf(t)' \in SUBSET PartitionIds
    BY <2>1, PartitionAssumption DEF PartitionsOf, PartitionIds
  <2>3. Ownership(t)!Reset
    BY <2>1, <2>2 DEF Ownership!Reset, Ownership!NobodyOwns, NobodyOwns
  <2> QED BY <1>1, <2>3 DEF Ownership!Next
<1>2. CASE u # t
  <2>1. UNCHANGED <<size[u], members[u], owned[u]>>
    BY <1>2 DEF Reset, PartitionInv, PartitionTypeOK
  <2> QED BY <2>1, OthersAreNotSeen
<1> QED BY <1>1, <1>2

LEMMA ConsumerIsOwnershipStep ==
  ASSUME PartitionInv, NEW t \in Topics, NEW c \in Consumers,
         AddConsumer(t, c) \/ RemoveConsumer(t, c), NEW u \in Topics
  PROVE  [Ownership(u)!Next]_(Ownership(u)!vars)
<1>1. CASE u = t
  <2>1. /\ owned'[t] = [owned[t] EXCEPT ![c] = {}]
        /\ PartitionsOf(t)' = PartitionsOf(t)
    BY DEF AddConsumer, RemoveConsumer, PartitionInv, PartitionTypeOK, PartitionsOf
  <2>2. CASE AddConsumer(t, c)
    <3>1. members'[t] = members[t] \cup {c}
      BY <2>2 DEF AddConsumer, PartitionInv, PartitionTypeOK
    <3>2. Ownership(t)!Join(c)
      BY <2>1, <3>1 DEF Ownership!Join
    <3> QED BY <1>1, <3>2 DEF Ownership!Next
  <2>3. CASE RemoveConsumer(t, c)
    <3>1. members'[t] = members[t] \ {c}
      BY <2>3 DEF RemoveConsumer, PartitionInv, PartitionTypeOK
    <3>2. Ownership(t)!Leave(c)
      BY <2>1, <3>1 DEF Ownership!Leave
    <3> QED BY <1>1, <3>2 DEF Ownership!Next
  <2> QED BY <2>2, <2>3
<1>2. CASE u # t
  <2>1. UNCHANGED <<size[u], members[u], owned[u]>>
    BY <1>2 DEF AddConsumer, RemoveConsumer, PartitionInv, PartitionTypeOK
  <2> QED BY <2>1, OthersAreNotSeen
<1> QED BY <1>1, <1>2

LEMMA RebalanceIsOwnershipStep ==
  ASSUME OwnershipInv, NEW t \in Topics, RebalancePartitions(t), NEW u \in Topics
  PROVE  [Ownership(u)!Next]_(Ownership(u)!vars)
<1>1. CASE u = t /\ members[t] # {}
  <2>1. owned'[t] \in Ownership(t)!Deals(PartitionsOf(t), members[t])
    BY <1>1, RebalanceIsDeal DEF OwnershipInv
  <2>2. Ownership(t)!Deal
    BY <1>1, <2>1 DEF RebalancePartitions, Ownership!Deal, PartitionsOf
  <2> QED BY <1>1, <2>2 DEF Ownership!Next
<1>2. CASE u # t \/ members[t] = {}
  <2>1. UNCHANGED <<size[u], members[u], owned[u]>>
    BY <1>2 DEF RebalancePartitions, OwnershipInv, PartitionInv, PartitionTypeOK
  <2> QED BY <2>1, OthersAreNotSeen
<1> QED BY <1>1, <1>2

LEMMA OwnershipStep ==
  ASSUME OwnershipInv, [PartitionNext]_partitionVars, NEW u \in Topics
  PROVE  [Ownership(u)!Next]_(Ownership(u)!vars)
<1>0. PartitionInv
  BY DEF OwnershipInv
<1>1. ASSUME NEW t \in Topics, NEW n \in 1 .. MaxPartitions, InitializePartitions(t, n)
      PROVE  [Ownership(u)!Next]_(Ownership(u)!vars)
  <2>1. n \in 0 .. MaxPartitions
    BY PartitionAssumption
  <2> QED BY <1>0, <1>1, <2>1, ResetIsOwnershipStep DEF InitializePartitions
<1>2. ASSUME NEW t \in Topics, CleanupPartitions(t)
      PROVE  [Ownership(u)!Next]_(Ownership(u)!vars)
  <2>1. 0 \in 0 .. MaxPartitions
    BY PartitionAssumption
  <2> QED BY <1>0, <1>2, <2>1, ResetIsOwnershipStep DEF CleanupPartitions
<1>3. ASSUME NEW t \in Topics, NEW c \in Consumers, AddConsumer(t, c) \/ RemoveConsumer(t, c)
      PROVE  [Ownership(u)!Next]_(Ownership(u)!vars)
  BY <1>0, <1>3, ConsumerIsOwnershipStep
<1>4. ASSUME NEW t \in Topics, BackgroundRebalance(t) \/ RequestRebalance(t)
      PROVE  [Ownership(u)!Next]_(Ownership(u)!vars)
  <2>1. CASE RebalancePartitions(t)
    BY <2>1, RebalanceIsOwnershipStep
  <2>2. CASE UNCHANGED <<managed, size, members, owned, readers>>
    BY <2>2, OthersAreNotSeen
  <2> QED BY <1>4, <2>1, <2>2 DEF BackgroundRebalance, RequestRebalance
<1>5. CASE LosePartitions
  <2>1. /\ members'[u] = {} /\ owned'[u] = NobodyOwns /\ size'[u] = 0
    BY <1>5 DEF LosePartitions
  <2>2. PartitionsOf(u)' \in SUBSET PartitionIds
    BY <2>1 DEF PartitionsOf
  <2>3. Ownership(u)!Reset
    BY <2>1, <2>2 DEF Ownership!Reset, Ownership!NobodyOwns, NobodyOwns
  <2> QED BY <2>3 DEF Ownership!Next
<1>6. CASE UNCHANGED partitionVars
  BY <1>6, OthersAreNotSeen DEF partitionVars
<1> QED BY <1>1, <1>2, <1>3, <1>4, <1>5, <1>6 DEF PartitionNext, Manage

\* No step of PartitionOwnership gives a partition to a consumer that is no member.
LEMMA OutsidersGainNothing ==
  ASSUME NEW u \in Topics, OutsidersOwnNothing(u),
         members[u] \in SUBSET Consumers, owned[u] \in [Consumers -> SUBSET PartitionIds],
         [Ownership(u)!Next]_(Ownership(u)!vars)
  PROVE  OutsidersOwnNothing(u)'
<1>1. CASE Ownership(u)!Reset
  BY <1>1 DEF Ownership!Reset, Ownership!NobodyOwns, OutsidersOwnNothing
<1>2. ASSUME NEW c \in Consumers, Ownership(u)!Join(c) \/ Ownership(u)!Leave(c)
      PROVE  OutsidersOwnNothing(u)'
  BY <1>2 DEF Ownership!Join, Ownership!Leave, OutsidersOwnNothing
<1>3. CASE Ownership(u)!Deal
  BY <1>3 DEF Ownership!Deal, Ownership!Deals, OutsidersOwnNothing
<1>4. CASE UNCHANGED Ownership(u)!vars
  BY <1>4 DEF Ownership!vars, OutsidersOwnNothing
<1> QED BY <1>1, <1>2, <1>3, <1>4 DEF Ownership!Next

LEMMA OwnershipInvariant == PartitionSpec => []OwnershipInv
<1>1. PartitionInit => OwnershipInv
  BY InitialPartitions DEF PartitionInit, OwnershipInv, OutsidersOwnNothing, NobodyOwns
<1>2. OwnershipInv /\ [PartitionNext]_partitionVars => OwnershipInv'
  <2> SUFFICES ASSUME OwnershipInv, [PartitionNext]_partitionVars
               PROVE  OwnershipInv'
    OBVIOUS
  <2>1. PartitionInv'
    BY PartitionStep DEF OwnershipInv
  <2>2. ASSUME NEW u \in Topics PROVE OutsidersOwnNothing(u)'
    <3>1. /\ members[u] \in SUBSET Consumers
          /\ owned[u] \in [Consumers -> SUBSET PartitionIds]
          /\ OutsidersOwnNothing(u)
      BY DEF OwnershipInv, PartitionInv, PartitionTypeOK
    <3> QED BY <3>1, OwnershipStep, OutsidersGainNothing
  <2> QED BY <2>1, <2>2 DEF OwnershipInv
<1> QED BY <1>1, <1>2, PTL DEF PartitionSpec

LEMMA OwnershipInit ==
  ASSUME PartitionInit, NEW t \in Topics
  PROVE  Ownership(t)!Init
<1>1. PartitionsOf(t) \in SUBSET PartitionIds
  BY DEF PartitionInit, PartitionsOf
<1> QED BY <1>1 DEF PartitionInit, Ownership!Init, Ownership!NobodyOwns, NobodyOwns

\* The partitions of each topic are shared out as the specification of a fair
\* deal says, whatever happens to the other topics and however late the
\* redistributions run (InitializePartitions, CleanupPartitions, AddConsumer,
\* RemoveConsumer, RebalancePartitions).
THEOREM ImplementsOwnership == PartitionSpec => OwnershipSpec
<1>1. PartitionInit => \A t \in Topics : Ownership(t)!Init
  BY OwnershipInit
<1>2. OwnershipInv /\ [PartitionNext]_partitionVars =>
        [\A t \in Topics : [Ownership(t)!Next]_(Ownership(t)!vars)]_partitionVars
  BY OwnershipStep
<1> QED BY <1>1, <1>2, OwnershipInvariant, PTL DEF PartitionSpec, OwnershipSpec

\* The same for one topic, in the words of PartitionOwnership.
THEOREM TopicImplementsOwnership ==
  ASSUME NEW t \in Topics
  PROVE  PartitionSpec => Ownership(t)!Spec
<1>1. PartitionInit => Ownership(t)!Init
  BY OwnershipInit
<1>2. OwnershipInv /\ [PartitionNext]_partitionVars =>
        [Ownership(t)!Next]_(Ownership(t)!vars)
  BY OwnershipStep
<1> QED BY <1>1, <1>2, OwnershipInvariant, PTL DEF PartitionSpec, Ownership!Spec
=============================================================================
