------------------------ MODULE ConsumerGroupProofs ------------------------
(***************************************************************************)
(* Proofs about ConsumerGroup, for any set of consumers, any number of     *)
(* requests in progress and any number of partitions.                      *)
(***************************************************************************)
EXTENDS ConsumerGroup, FiniteSetTheorems, TLAPS

-----------------------------------------------------------------------------
(* The shares of a rebalance.                                              *)

\* Where the share of the i-th consumer starts, with b partitions for each and
\* e more to give out.
Start(i, b, e) == i * b + (IF i < e THEN i ELSE e)

LEMMA Division ==
  ASSUME NEW n \in Nat \ {0}, NEW m \in Nat
  PROVE  /\ m \div n \in Nat /\ m % n \in Nat
         /\ m % n < n
         /\ m = n * (m \div n) + (m % n)
  OBVIOUS

LEMMA ShareIsRange ==
  ASSUME NEW n \in Nat \ {0}, NEW i \in 0 .. (n - 1)
  PROVE  Share(i, n) = Start(i, Partitions \div n, Partitions % n) ..
                       (Start(i + 1, Partitions \div n, Partitions % n) - 1)
<1> DEFINE b == Partitions \div n
           e == Partitions % n
<1>1. b \in Nat /\ e \in Nat
  BY Division, GroupAssumption
<1>2. (i + 1) * b = i * b + b /\ i * b \in Nat
  BY <1>1
<1>3. ASSUME NEW c \in Nat, NEW d \in Nat, NEW ib \in Nat, NEW jb \in Nat, jb = ib + c
      PROVE (ib + (IF i < d THEN i ELSE d)) + c - (IF i < d THEN 0 ELSE 1)
              = (jb + (IF i + 1 < d THEN i + 1 ELSE d)) - 1
  BY <1>3
<1>4. (i + 1) * b \in Nat
  BY <1>1, <1>2
<1>5. (i * b + (IF i < e THEN i ELSE e)) + b - (IF i < e THEN 0 ELSE 1)
        = ((i + 1) * b + (IF i + 1 < e THEN i + 1 ELSE e)) - 1
  <2> HIDE DEF b, e
  <2> QED BY <1>1, <1>2, <1>3, <1>4
<1> QED BY <1>5 DEF Share, Start

LEMMA StartType ==
  ASSUME NEW b \in Nat, NEW e \in Nat, NEW i \in Nat
  PROVE  Start(i, b, e) \in Nat
<1>1. i * b \in Nat
  OBVIOUS
<1> QED BY <1>1 DEF Start

LEMMA StartGrows ==
  ASSUME NEW b \in Nat, NEW e \in Nat, NEW i \in Nat, NEW j \in Nat, i <= j
  PROVE  Start(i, b, e) <= Start(j, b, e)
<1>1. i * b \in Nat /\ j * b \in Nat
  OBVIOUS
<1>2. (j - i) * b >= 0 /\ (j - i) * b = j * b - i * b
  OBVIOUS
<1>3. ASSUME NEW ib \in Nat, NEW jb \in Nat, jb - ib >= 0
      PROVE  ib + (IF i < e THEN i ELSE e) <= jb + (IF j < e THEN j ELSE e)
  BY <1>3
<1> QED BY <1>1, <1>2, <1>3 DEF Start

LEMMA ShareIsBounded ==
  ASSUME NEW n \in Nat \ {0}, NEW i \in 0 .. (n - 1)
  PROVE  Share(i, n) \subseteq PartitionIds
<1> DEFINE b == Partitions \div n
           e == Partitions % n
<1>1. b \in Nat /\ e \in Nat /\ e < n /\ Partitions = n * b + e
  BY Division, GroupAssumption
<1> SUFFICES Start(i, b, e) .. (Start(i + 1, b, e) - 1) \subseteq PartitionIds
  BY ShareIsRange
<1> HIDE DEF b, e
<1>2. i \in Nat /\ i + 1 \in Nat /\ n \in Nat /\ i + 1 <= n
  OBVIOUS
<1>3. Start(n, b, e) = Partitions
  BY <1>1, <1>2 DEF Start
<1>4. Start(i + 1, b, e) <= Start(n, b, e)
  BY <1>1, <1>2, StartGrows
<1>5. Start(i, b, e) \in Nat /\ Start(i + 1, b, e) \in Nat
  BY <1>1, <1>2, StartType
<1> QED BY <1>3, <1>4, <1>5, GroupAssumption DEF PartitionIds

\* No partition is in two shares.
LEMMA SharesAreDisjoint ==
  ASSUME NEW n \in Nat \ {0}, NEW i \in 0 .. (n - 1), NEW j \in 0 .. (n - 1), i # j
  PROVE  Share(i, n) \cap Share(j, n) = {}
<1>1. ASSUME NEW k \in 0 .. (n - 1), NEW l \in 0 .. (n - 1), k < l
      PROVE Share(k, n) \cap Share(l, n) = {}
  <2> DEFINE b == Partitions \div n
             e == Partitions % n
  <2>1. b \in Nat /\ e \in Nat
    BY Division, GroupAssumption
  <2> SUFFICES (Start(k, b, e) .. (Start(k + 1, b, e) - 1))
                 \cap (Start(l, b, e) .. (Start(l + 1, b, e) - 1)) = {}
    BY ShareIsRange
  <2> HIDE DEF b, e
  <2>0. k \in Nat /\ l \in Nat /\ k + 1 \in Nat /\ l + 1 \in Nat /\ k + 1 <= l
    BY <1>1
  <2>2. Start(k + 1, b, e) <= Start(l, b, e)
    BY <2>0, <2>1, StartGrows
  <2>3. /\ Start(k, b, e) \in Nat /\ Start(k + 1, b, e) \in Nat
        /\ Start(l, b, e) \in Nat /\ Start(l + 1, b, e) \in Nat
    BY <2>0, <2>1, StartType
  <2> QED BY <2>2, <2>3
<1> QED BY <1>1

\* Every partition is in a share.
LEMMA SharesCover ==
  ASSUME NEW n \in Nat \ {0}, NEW p \in PartitionIds
  PROVE  \E i \in 0 .. (n - 1) : p \in Share(i, n)
<1> DEFINE b == Partitions \div n
           e == Partitions % n
<1>1. b \in Nat /\ e \in Nat /\ e < n /\ Partitions = n * b + e
  BY Division, GroupAssumption
<1>2. p \in Nat /\ p < Partitions
  BY GroupAssumption DEF PartitionIds
<1>3. SUFFICES \E i \in 0 .. (n - 1) : Start(i, b, e) <= p /\ p < Start(i + 1, b, e)
  <2>1. PICK i \in 0 .. (n - 1) : Start(i, b, e) <= p /\ p < Start(i + 1, b, e)
    BY <1>3
  <2>2. Share(i, n) = Start(i, b, e) .. (Start(i + 1, b, e) - 1)
    BY ShareIsRange
  <2> HIDE DEF b, e
  <2>3. i \in Nat /\ i + 1 \in Nat
    OBVIOUS
  <2>4. Start(i, b, e) \in Nat /\ Start(i + 1, b, e) \in Nat
    BY <1>1, <2>3, StartType
  <2> QED BY <1>2, <2>1, <2>2, <2>4
<1>4. CASE p < e * (b + 1)
  <2> DEFINE i == p \div (b + 1)
             r == p % (b + 1)
  <2>1. i \in Nat /\ r \in Nat /\ r < b + 1 /\ p = (b + 1) * i + r
    <3> HIDE DEF b
    <3>1. b + 1 \in Nat \ {0}
      BY <1>1
    <3> QED BY <1>2, <3>1, Division
  <2> HIDE DEF i, r, b, e
  <2>2. (b + 1) * i < (b + 1) * e
    BY <1>1, <1>4, <2>1
  <2>3. i < e
    BY <1>1, <2>1, <2>2
  <2>4. Start(i, b, e) = (b + 1) * i
    BY <1>1, <2>1, <2>3 DEF Start
  <2>5. Start(i + 1, b, e) = (b + 1) * i + b + 1
    <3>1. (i + 1) * b = i * b + b
      BY <1>1, <2>1
    <3>2. (IF i + 1 < e THEN i + 1 ELSE e) = i + 1
      BY <1>1, <2>1, <2>3
    <3> QED BY <1>1, <2>1, <3>1, <3>2 DEF Start
  <2> QED BY <1>1, <2>1, <2>3, <2>4, <2>5
<1>5. CASE ~(p < e * (b + 1))
  <2> DEFINE m == p - e * (b + 1)
             q == m \div b
             r == m % b
  <2>1. m \in Nat
    BY <1>1, <1>2, <1>5
  <2>2. b # 0
    <3> SUFFICES ASSUME b = 0 PROVE FALSE
      OBVIOUS
    <3> HIDE DEF b, e
    <3>1. n * b = 0 /\ e * (b + 1) = e
      BY <1>1
    <3> QED BY <1>1, <1>2, <1>5, <3>1
  <2>3. q \in Nat /\ r \in Nat /\ r < b /\ m = b * q + r
    BY <1>1, <2>1, <2>2, Division
  <2> HIDE DEF q, r, b, e
  <2>4. m < b * (n - e)
    <3>1. e * (b + 1) = e * b + e /\ b * (n - e) = n * b - e * b
      BY <1>1
    <3> QED BY <1>1, <1>2, <3>1
  <2>5. b * q < b * (n - e)
    <3> HIDE DEF m
    <3> QED BY <1>1, <2>1, <2>3, <2>4
  <2>6. q < n - e
    BY <1>1, <2>2, <2>3, <2>5
  <2>7. Start(e + q, b, e) = e * (b + 1) + b * q
    <3>1. (e + q) * b = e * b + b * q /\ e * (b + 1) = e * b + e
      BY <1>1, <2>3
    <3>2. (IF e + q < e THEN e + q ELSE e) = e
      BY <1>1, <2>3
    <3> QED BY <1>1, <2>3, <3>1, <3>2 DEF Start
  <2>8. Start(e + q + 1, b, e) = e * (b + 1) + b * q + b
    <3>1. (e + q + 1) * b = e * b + b * q + b /\ e * (b + 1) = e * b + e
      BY <1>1, <2>3
    <3>2. (IF e + q + 1 < e THEN e + q + 1 ELSE e) = e
      BY <1>1, <2>3
    <3> QED BY <1>1, <2>3, <3>1, <3>2 DEF Start
  <2>9. e + q \in 0 .. (n - 1)
    BY <1>1, <2>3, <2>6
  <2>10. e * (b + 1) \in Nat /\ b * q \in Nat
    BY <1>1, <2>3
  <2> QED BY <1>1, <1>2, <2>3, <2>7, <2>8, <2>9, <2>10
<1> QED BY <1>4, <1>5

\* The shares have the same size, the first ones one partition more.
LEMMA ShareSize ==
  ASSUME NEW n \in Nat \ {0}, NEW i \in 0 .. (n - 1)
  PROVE  Cardinality(Share(i, n))
           = (Partitions \div n) + (IF i < Partitions % n THEN 1 ELSE 0)
<1> DEFINE b == Partitions \div n
           e == Partitions % n
<1>1. b \in Nat /\ e \in Nat
  BY Division, GroupAssumption
<1>2. Share(i, n) = Start(i, b, e) .. (Start(i + 1, b, e) - 1)
  BY ShareIsRange
<1> HIDE DEF b, e
<1>0. i \in Nat /\ i + 1 \in Nat
  OBVIOUS
<1>3. Start(i, b, e) \in Nat /\ Start(i + 1, b, e) \in Nat
  BY <1>0, <1>1, StartType
<1>4. Start(i + 1, b, e) = Start(i, b, e) + b + (IF i < e THEN 1 ELSE 0)
  <2>1. (i + 1) * b = i * b + b /\ i * b \in Nat
    BY <1>1
  <2>2. ASSUME NEW ib \in Nat, NEW jb \in Nat, jb = ib + b
        PROVE  jb + (IF i + 1 < e THEN i + 1 ELSE e)
                 = ib + (IF i < e THEN i ELSE e) + b + (IF i < e THEN 1 ELSE 0)
    BY <1>1, <2>2
  <2> QED BY <1>1, <2>1, <2>2 DEF Start
<1>5. Cardinality(Start(i, b, e) .. (Start(i + 1, b, e) - 1))
        = Start(i + 1, b, e) - Start(i, b, e)
  <2>1. ASSUME NEW x \in Nat, NEW y \in Nat, x <= y
        PROVE  Cardinality(x .. (y - 1)) = y - x
    <3> DEFINE z == y - 1
    <3>1. z \in Int /\ x \in Int
      OBVIOUS
    <3> HIDE DEF z
    <3>2. Cardinality(x .. z) = IF x > z THEN 0 ELSE z - x + 1
      BY <3>1, FS_Interval
    <3> QED BY <2>1, <3>2 DEF z
  <2>2. Start(i, b, e) <= Start(i + 1, b, e)
    BY <1>1, <1>3, <1>4
  <2> QED BY <1>3, <2>1, <2>2
<1>6. Cardinality(Share(i, n)) = b + (IF i < e THEN 1 ELSE 0)
  BY <1>1, <1>2, <1>3, <1>4, <1>5
<1> QED BY <1>6 DEF b, e
-----------------------------------------------------------------------------
(* The positions a rebalance gives to the consumers.                       *)

LEMMA OrderIsBijection ==
  ASSUME NEW S, IsFiniteSet(S), NEW f \in [S -> 0 .. (Cardinality(S) - 1)],
         \A c, d \in S : f[c] = f[d] => c = d
  PROVE  \A i \in 0 .. (Cardinality(S) - 1) : \E c \in S : f[c] = i
<1> DEFINE n == Cardinality(S)
           T == 0 .. (n - 1)
<1>1. n \in Nat
  BY FS_CardinalityType
<1>2. IsFiniteSet(T) /\ Cardinality(T) = n
  <2> HIDE DEF n
  <2> QED BY <1>1, FS_Interval
<1>3. f \in Injection(S, T)
  BY DEF Injection, IsInjective
<1>4. f \in Surjection(S, T)
  <2> HIDE DEF T, n
  <2>1. Cardinality(S) = Cardinality(T)
    BY <1>2 DEF n
  <2> QED BY <1>2, <1>3, <2>1, FS_Injection
<1> QED BY <1>4 DEF Surjection

\* A rebalance of the consumers A: nobody shares a partition, and all are given.
LEMMA RebalanceIsFair ==
  ASSUME NEW A \in SUBSET Consumers, A # {},
         NEW pos \in [A -> 0 .. (Cardinality(A) - 1)],
         \A c, d \in A : pos[c] = pos[d] => c = d
  PROVE  /\ \A c, d \in A : c # d =>
              Share(pos[c], Cardinality(A)) \cap Share(pos[d], Cardinality(A)) = {}
         /\ UNION {Share(pos[c], Cardinality(A)) : c \in A} = PartitionIds
<1> DEFINE n == Cardinality(A)
<1>1. IsFiniteSet(A) /\ n \in Nat \ {0}
  BY GroupAssumption, FS_Subset, FS_CardinalityType, FS_EmptySet
<1>2. \A c \in A : pos[c] \in 0 .. (n - 1)
  OBVIOUS
<1>3. \A i \in 0 .. (n - 1) : \E c \in A : pos[c] = i
  BY <1>1, OrderIsBijection
<1> HIDE DEF n
<1>4. \A c, d \in A : c # d => Share(pos[c], n) \cap Share(pos[d], n) = {}
  BY <1>1, <1>2, SharesAreDisjoint
<1>5. ASSUME NEW p \in PartitionIds PROVE \E c \in A : p \in Share(pos[c], n)
  <2>1. PICK i \in 0 .. (n - 1) : p \in Share(i, n)
    BY <1>1, SharesCover
  <2> QED BY <1>3, <2>1
<1>6. ASSUME NEW c \in A PROVE Share(pos[c], n) \subseteq PartitionIds
  BY <1>1, <1>2, ShareIsBounded
<1> QED BY <1>4, <1>5, <1>6 DEF n
-----------------------------------------------------------------------------
(* The inductive invariant: what a goroutine is at work on, that only a    *)
(* live group has active consumers, and the assignment itself.             *)

Removal == {"srem", "readRemove", "writeRemove", "unregister", "flag"}

GoroutineOK(g) ==
  g.step # "idle" =>
    /\ g.id \in Consumers
    /\ g.kind = "dead" => g.step \in Removal
    /\ g.step = "flag" => g.kind = "dead"

CallsOK ==
  /\ call \in [Goroutines -> Goroutine]
  /\ \A k \in Goroutines : GoroutineOK(call[k])

IInv ==
  /\ TypeOK
  /\ CallsOK
  /\ active # {} => live
  /\ NoSharedPartition

LEMMA InitIInv == Init => IInv
<1> SUFFICES ASSUME Init PROVE IInv
  OBVIOUS
<1>1. Idle \in Goroutine /\ Idle.step = "idle"
  BY DEF Idle, Goroutine, Steps
<1>2. CallsOK
  BY <1>1 DEF Init, CallsOK, GoroutineOK
<1>3. TypeOK
  BY <1>2 DEF Init, TypeOK, CallsOK
<1> QED BY <1>2, <1>3 DEF Init, IInv, NoSharedPartition
-----------------------------------------------------------------------------
(* Steps of a goroutine.                                                   *)

LEMMA CallMoves ==
  ASSUME CallsOK, NEW k \in Goroutines, NEW g \in Goroutine, GoroutineOK(g),
         call' = [call EXCEPT ![k] = g]
  PROVE  CallsOK'
  BY DEF CallsOK

LEMMA GotoMoves ==
  ASSUME CallsOK, NEW k \in Goroutines, NEW step \in Steps, Goto(k, step),
         call[k].step # "idle",
         call[k].kind = "dead" => step \in Removal,
         step = "flag" => call[k].kind = "dead"
  PROVE  CallsOK'
<1> DEFINE g == [call[k] EXCEPT !.step = step]
<1>1. call[k] \in Goroutine /\ GoroutineOK(call[k])
  BY DEF CallsOK
<1>2. g \in Goroutine
  BY <1>1 DEF Goroutine
<1>3. /\ g.step = step /\ g.id = call[k].id /\ g.kind = call[k].kind
  BY <1>1 DEF Goroutine
<1>4. GoroutineOK(g)
  BY <1>1, <1>3 DEF GoroutineOK
<1>5. call' = [call EXCEPT ![k] = g]
  BY <1>1 DEF Goto, CallsOK
<1> QED BY <1>2, <1>4, <1>5, CallMoves

LEMMA ReturnMoves ==
  ASSUME CallsOK, NEW k \in Goroutines, Return(k)
  PROVE  CallsOK'
<1>1. Idle \in Goroutine /\ GoroutineOK(Idle)
  BY DEF Idle, Goroutine, Steps, GoroutineOK
<1> QED BY <1>1, CallMoves DEF Return

\* A goroutine reads the group's record and goes on.
LEMMA SeenMoves ==
  ASSUME CallsOK, NEW k \in Goroutines, NEW step \in Steps, NEW S \in SUBSET Consumers,
         call' = [call EXCEPT ![k].step = step, ![k].seen = S],
         call[k].step # "idle", step # "flag",
         call[k].kind = "dead" => step \in Removal
  PROVE  CallsOK'
<1> DEFINE g == [call[k] EXCEPT !.step = step, !.seen = S]
<1>1. call[k] \in Goroutine /\ GoroutineOK(call[k])
  BY DEF CallsOK
<1>2. g \in Goroutine
  BY <1>1 DEF Goroutine
<1>3. /\ g.step = step /\ g.id = call[k].id /\ g.kind = call[k].kind
  BY <1>1 DEF Goroutine
<1>4. GoroutineOK(g)
  BY <1>1, <1>3 DEF GoroutineOK
<1>5. call' = [call EXCEPT ![k] = g]
  BY <1>1 DEF CallsOK
<1> QED BY <1>2, <1>4, <1>5, CallMoves

\* A step that leaves the memory of the process alone.
LEMMA MemoryUntouched ==
  ASSUME IInv, UNCHANGED memory, CallsOK',
         group' \in (SUBSET Consumers) \cup {NoGroup}, members' \subseteq Consumers,
         guests' \subseteq Consumers, strays' \subseteq Consumers,
         calls' \in Nat, silences' \in Nat, faults' \in Nat
  PROVE  IInv'
  BY DEF IInv, TypeOK, CallsOK, memory, NoSharedPartition

LEMMA ProceedKeeps ==
  ASSUME IInv, NEW k \in Goroutines, Proceed(k)
  PROVE  IInv'
<1>1. CallsOK /\ call[k] \in Goroutine /\ GoroutineOK(call[k])
  BY DEF IInv, CallsOK
<1>2. call[k].step # "idle" /\ call[k].id \in Consumers
  BY <1>1 DEF Proceed, At, GoroutineOK, GetGroup, CreateGroup, AddMember, ReadForAdd,
     WriteAdded, Register, TriggerRebalance, JoinReply, ReadStream, UpdateHeartbeat,
     RemoveMember, ReadForRemove, WriteRemoved, Unregister, RemoveDead, FlagRebalance
<1>3. call[k].kind = "dead" => call[k].step \in Removal
  BY <1>1, <1>2 DEF GoroutineOK
<1>4. \A step \in Steps :
        /\ Goto(k, step)
        /\ call[k].kind = "dead" => step \in Removal
        /\ step = "flag" => call[k].kind = "dead"
        => CallsOK'
  BY <1>1, <1>2, GotoMoves
<1>5. Return(k) => CallsOK'
  BY <1>1, ReturnMoves
<1>6. /\ group \in (SUBSET Consumers) \cup {NoGroup} /\ members \subseteq Consumers
      /\ guests \subseteq Consumers /\ strays \subseteq Consumers
      /\ calls \in Nat /\ silences \in Nat /\ faults \in Nat
      /\ call[k].seen \subseteq Consumers /\ call[k].rest \subseteq Consumers
  BY <1>1 DEF IInv, TypeOK, Goroutine
<1>10. CASE GetGroup(k)
  <2>1. CallsOK'
    BY <1>3, <1>4, <1>10 DEF GetGroup, At, Steps, Removal
  <2> QED BY <1>6, <1>10, <2>1, MemoryUntouched DEF GetGroup, redis, history, counters
<1>11. CASE CreateGroup(k)
  <2>1. CallsOK'
    BY <1>3, <1>4, <1>11 DEF CreateGroup, At, Steps, Removal
  <2> QED BY <1>6, <1>11, <2>1, MemoryUntouched DEF CreateGroup, history, counters
<1>12. CASE AddMember(k)
  <2>1. CallsOK'
    BY <1>3, <1>4, <1>12 DEF AddMember, At, Steps, Removal
  <2>2. members' \subseteq Consumers /\ guests' \subseteq Consumers
    BY <1>2, <1>6, <1>12 DEF AddMember
  <2> QED BY <1>6, <1>12, <2>1, <2>2, MemoryUntouched DEF AddMember, counters
<1>13. CASE ReadForAdd(k)
  <2>1. call[k].kind # "dead"
    BY <1>3, <1>13 DEF ReadForAdd, At, Removal
  <2>2. ASSUME Goto(k, Added(k)) PROVE CallsOK'
    BY <1>4, <2>1, <2>2 DEF Added, Steps
  <2>3. ASSUME group # NoGroup,
               call' = [call EXCEPT ![k].step = "writeAdd", ![k].seen = group]
        PROVE CallsOK'
    <3>1. PICK S \in SUBSET Consumers : S = group
      BY <1>6, <2>3
    <3> QED BY <1>1, <1>2, <2>1, <2>3, <3>1, SeenMoves DEF Steps
  <2>4. CallsOK'
    BY <1>13, <2>2, <2>3 DEF ReadForAdd
  <2> QED BY <1>6, <1>13, <2>4, MemoryUntouched DEF ReadForAdd, redis, history, counters
<1>14. CASE WriteAdded(k)
  <2>1. call[k].kind # "dead"
    BY <1>3, <1>14 DEF WriteAdded, At, Removal
  <2>2. CallsOK'
    BY <1>4, <1>14, <2>1 DEF WriteAdded, Added, Steps
  <2>3. group' \in SUBSET Consumers
    BY <1>2, <1>6, <1>14 DEF WriteAdded
  <2> QED BY <1>6, <1>14, <2>2, <2>3, MemoryUntouched DEF WriteAdded, history, counters
<1>15. CASE Register(k)
  <2>1. CallsOK'
    BY <1>3, <1>4, <1>15 DEF Register, At, Steps, Removal
  <2>2. assigned' \in [Consumers -> SUBSET PartitionIds]
    BY <1>2, <1>15 DEF Register, IInv, TypeOK
  <2>3. TypeOK'
    BY <1>2, <1>6, <1>15, <2>1, <2>2
       DEF Register, IInv, TypeOK, CallsOK, redis, history, counters
  <2>4. \A c \in Consumers : assigned'[c] = IF c = call[k].id THEN {} ELSE assigned[c]
    BY <1>2, <1>15 DEF Register, IInv, TypeOK
  <2>5. active' \subseteq Consumers
    BY <2>3 DEF TypeOK
  <2>6. NoSharedPartition'
    BY <1>15, <2>4, <2>5 DEF Register, IInv, NoSharedPartition
  <2> QED BY <1>15, <2>1, <2>3, <2>6 DEF Register, IInv
<1>16. CASE TriggerRebalance(k)
  <2>1. CallsOK'
    BY <1>3, <1>4, <1>16 DEF TriggerRebalance, At, Steps, Removal
  <2> QED BY <1>6, <1>16, <2>1
       DEF TriggerRebalance, IInv, TypeOK, CallsOK, NoSharedPartition, redis, history,
           counters
<1>17. CASE JoinReply(k)
  BY <1>5, <1>6, <1>17, MemoryUntouched DEF JoinReply, redis, history, counters
<1>18. CASE ReadStream(k)
  <2>1. CallsOK'
    BY <1>3, <1>4, <1>18 DEF ReadStream, At, Steps, Removal
  <2> QED BY <1>6, <1>18, <2>1, MemoryUntouched DEF ReadStream, redis, history, counters
<1>19. CASE UpdateHeartbeat(k)
  BY <1>5, <1>6, <1>19
     DEF UpdateHeartbeat, IInv, TypeOK, CallsOK, NoSharedPartition, redis, history,
         counters
<1>20. CASE RemoveMember(k)
  <2>1. CallsOK'
    BY <1>4, <1>20 DEF RemoveMember, Steps, Removal
  <2> QED BY <1>6, <1>20, <2>1, MemoryUntouched DEF RemoveMember, counters
<1>21. CASE ReadForRemove(k)
  <2>1. ASSUME Goto(k, "unregister") PROVE CallsOK'
    BY <1>4, <2>1 DEF Steps, Removal
  <2>2. ASSUME group # NoGroup,
               call' = [call EXCEPT ![k].step = "writeRemove", ![k].seen = group]
        PROVE CallsOK'
    <3>1. PICK S \in SUBSET Consumers : S = group
      BY <1>6, <2>2
    <3> QED BY <1>1, <1>2, <2>2, <3>1, SeenMoves DEF Steps, Removal
  <2>3. CallsOK'
    BY <1>21, <2>1, <2>2 DEF ReadForRemove
  <2> QED BY <1>6, <1>21, <2>3, MemoryUntouched DEF ReadForRemove, redis, history, counters
<1>22. CASE WriteRemoved(k)
  <2>1. CallsOK'
    BY <1>4, <1>22 DEF WriteRemoved, Steps, Removal
  <2>2. group' \in SUBSET Consumers
    BY <1>6, <1>22 DEF WriteRemoved
  <2> QED BY <1>6, <1>22, <2>1, <2>2, MemoryUntouched DEF WriteRemoved, history, counters
<1>23. CASE Unregister(k)
  BY <1>5, <1>6, <1>23
     DEF Unregister, IInv, TypeOK, CallsOK, NoSharedPartition, redis, history, counters
<1>24. CASE RemoveDead(k)
  <2>1. ASSUME Goto(k, "flag") PROVE CallsOK'
    BY <1>4, <1>24, <2>1 DEF RemoveDead, Steps, Removal
  <2>2. ASSUME NEW c \in call[k].rest,
               call' = [call EXCEPT ![k].step = "srem", ![k].id = c, ![k].rest = @ \ {c}]
        PROVE CallsOK'
    <3> DEFINE g == [call[k] EXCEPT !.step = "srem", !.id = c, !.rest = @ \ {c}]
    <3>1. g \in Goroutine /\ g.step = "srem" /\ g.id \in Consumers
      BY <1>1, <1>6 DEF Goroutine, Steps
    <3>2. GoroutineOK(g)
      BY <3>1 DEF GoroutineOK, Removal
    <3>3. call' = [call EXCEPT ![k] = g]
      BY <1>1, <2>2 DEF CallsOK
    <3> QED BY <1>1, <3>1, <3>2, <3>3, CallMoves
  <2>3. CallsOK'
    BY <1>24, <2>1, <2>2 DEF RemoveDead
  <2> QED BY <1>6, <1>24, <2>3
       DEF RemoveDead, IInv, TypeOK, CallsOK, NoSharedPartition, redis, history, counters
<1>25. CASE FlagRebalance(k)
  BY <1>5, <1>6, <1>25
     DEF FlagRebalance, IInv, TypeOK, CallsOK, NoSharedPartition, redis, history, counters
<1> QED BY <1>10, <1>11, <1>12, <1>13, <1>14, <1>15, <1>16, <1>17, <1>18, <1>19,
           <1>20, <1>21, <1>22, <1>23, <1>24, <1>25 DEF Proceed

LEMMA RedisErrorKeeps ==
  ASSUME IInv, NEW k \in Goroutines, RedisError(k)
  PROVE  IInv'
<1>1. CallsOK /\ call[k] \in Goroutine /\ GoroutineOK(call[k])
  BY DEF IInv, CallsOK
<1>2. \A step \in Steps :
        /\ Goto(k, step)
        /\ call[k].step # "idle"
        /\ call[k].kind = "dead" => step \in Removal
        /\ step # "flag"
        => CallsOK'
  BY <1>1, GotoMoves
<1>3. call[k].step # "idle" /\ call[k].step \notin Removal => call[k].kind # "dead"
  BY <1>1 DEF GoroutineOK
<1>4. CallsOK'
  <2>1. ASSUME At(k, "get"), Goto(k, "create") PROVE CallsOK'
    BY <1>2, <1>3, <2>1 DEF At, Steps, Removal
  <2>2. ASSUME Return(k) PROVE CallsOK'
    BY <1>1, <2>2, ReturnMoves
  <2>3. ASSUME call[k].step \in {"sadd", "readAdd", "writeAdd"}, Goto(k, Added(k))
        PROVE CallsOK'
    BY <1>2, <1>3, <2>3 DEF Added, Steps, Removal
  <2>4. ASSUME call[k].step \in {"srem", "readRemove", "writeRemove"},
               Goto(k, "unregister")
        PROVE CallsOK'
    BY <1>2, <2>4 DEF Steps, Removal
  <2> QED BY <2>1, <2>2, <2>3, <2>4 DEF RedisError
<1>5. /\ group \in (SUBSET Consumers) \cup {NoGroup} /\ members \subseteq Consumers
      /\ guests \subseteq Consumers /\ strays \subseteq Consumers
      /\ calls \in Nat /\ silences \in Nat /\ faults \in Nat
  BY DEF IInv, TypeOK
<1>6. group' \in (SUBSET Consumers) \cup {NoGroup}
  BY <1>5 DEF RedisError
<1> QED BY <1>4, <1>5, <1>6, MemoryUntouched DEF RedisError, Fault, history
-----------------------------------------------------------------------------
(* The other steps.                                                        *)

LEMMA RequestKeeps ==
  ASSUME IInv, NEW k \in Calls, NEW c \in Consumers, NEW kind \in Requests,
         Request(k, kind, c)
  PROVE  IInv'
<1> DEFINE g == [Idle EXCEPT !.step = IF kind = "leave" THEN "srem" ELSE "get",
                             !.kind = kind, !.id = c]
<1>1. g \in Goroutine /\ GoroutineOK(g) /\ k \in Goroutines
  BY GroupAssumption DEF Idle, Goroutine, Goroutines, Steps, GoroutineOK
<1>2. CallsOK'
  BY <1>1, CallMoves DEF Request, IInv
<1> QED BY <1>2, MemoryUntouched DEF Request, redis, history, IInv, TypeOK

LEMMA CollectDeadKeeps == IInv /\ CollectDead => IInv'
<1> SUFFICES ASSUME IInv, CollectDead PROVE IInv'
  OBVIOUS
<1>1. stale \subseteq Consumers
  BY DEF IInv, TypeOK
<1>2. PICK c \in Consumers, R \in SUBSET Consumers :
        call' = [call EXCEPT ![heartbeat] =
                   [Idle EXCEPT !.step = "srem", !.kind = "dead", !.id = c, !.rest = R]]
  BY <1>1 DEF CollectDead
<1> DEFINE g == [Idle EXCEPT !.step = "srem", !.kind = "dead", !.id = c, !.rest = R]
<1>3. g \in Goroutine /\ GoroutineOK(g) /\ heartbeat \in Goroutines
  BY DEF Idle, Goroutine, Goroutines, Steps, GoroutineOK, Removal
<1>4. CallsOK'
  BY <1>2, <1>3, CallMoves DEF IInv
<1> QED BY <1>4, MemoryUntouched DEF CollectDead, redis, history, counters, IInv, TypeOK

\* After a rebalance the active consumers have everything, and nothing twice.
LEMMA RedistributeResult ==
  ASSUME TypeOK, active # {}, Redistribute, UNCHANGED active
  PROVE  /\ assigned' \in [Consumers -> SUBSET PartitionIds]
         /\ NoSharedPartition'
         /\ Covered'
<1>1. PICK A \in SUBSET Consumers : A = active
  BY DEF TypeOK
<1>2. PICK pos \in [A -> 0 .. (Cardinality(A) - 1)] :
        /\ \A c, d \in A : pos[c] = pos[d] => c = d
        /\ assigned' = [c \in Consumers |->
                          IF c \in A THEN Share(pos[c], Cardinality(A)) ELSE assigned[c]]
  BY <1>1 DEF Redistribute, Orders
<1>3. A # {}
  BY <1>1
<1>4. /\ \A c, d \in A : c # d =>
           Share(pos[c], Cardinality(A)) \cap Share(pos[d], Cardinality(A)) = {}
      /\ UNION {Share(pos[c], Cardinality(A)) : c \in A} = PartitionIds
  BY <1>2, <1>3, RebalanceIsFair
<1>5. \A c \in A : assigned'[c] = Share(pos[c], Cardinality(A))
  BY <1>2
<1>6. active' = A
  BY <1>1
<1>7. assigned' \in [Consumers -> SUBSET PartitionIds]
  <2>1. \A c \in Consumers : assigned[c] \in SUBSET PartitionIds
    BY DEF TypeOK
  <2>2. \A c \in A : Share(pos[c], Cardinality(A)) \in SUBSET PartitionIds
    BY <1>4
  <2> QED BY <1>2, <2>1, <2>2
<1>8. NoSharedPartition'
  BY <1>4, <1>5, <1>6 DEF NoSharedPartition
<1>9. {assigned'[c] : c \in A} = {Share(pos[c], Cardinality(A)) : c \in A}
  BY <1>5
<1>10. Covered'
  BY <1>4, <1>6, <1>9 DEF Covered, PartitionIds
<1> QED BY <1>7, <1>8, <1>10

LEMMA WorkerKeeps ==
  ASSUME IInv, StartRebalance \/ FinishRebalance \/ TopicError \/ Restart
               \/ \E c \in Consumers : FallSilent(c)
  PROVE  IInv'
<1>1. CASE StartRebalance
  BY <1>1 DEF StartRebalance, IInv, TypeOK, CallsOK, NoSharedPartition, redis, history,
              counters
<1>2. CASE FinishRebalance
  <2>1. assigned' \in [Consumers -> SUBSET PartitionIds] /\ NoSharedPartition'
    <3>1. CASE active = {}
      BY <1>2, <3>1 DEF FinishRebalance, IInv, TypeOK, NoSharedPartition
    <3>2. CASE active # {}
      BY <1>2, <3>2, RedistributeResult DEF FinishRebalance, IInv
    <3> QED BY <3>1, <3>2
  <2> QED BY <1>2, <2>1 DEF FinishRebalance, IInv, TypeOK, CallsOK, redis, history, counters
<1>3. CASE TopicError
  <2>1. calls' \in Nat /\ silences' \in Nat /\ faults' \in Nat
    BY <1>3 DEF TopicError, Fault, IInv, TypeOK
  <2> QED BY <1>3, <2>1
       DEF TopicError, IInv, TypeOK, CallsOK, NoSharedPartition, redis, history
<1>4. CASE Restart
  <2>1. Idle \in Goroutine /\ Idle.step = "idle"
    BY DEF Idle, Goroutine, Steps
  <2>2. CallsOK'
    BY <1>4, <2>1 DEF Restart, CallsOK, GoroutineOK
  <2>3. calls' \in Nat /\ silences' \in Nat /\ faults' \in Nat
    BY <1>4 DEF Restart, Fault, IInv, TypeOK
  <2> QED BY <1>4, <2>2, <2>3
       DEF Restart, IInv, TypeOK, CallsOK, NoSharedPartition, redis
<1>5. CASE \E c \in Consumers : FallSilent(c)
  BY <1>5 DEF FallSilent, IInv, TypeOK, CallsOK, NoSharedPartition, redis
<1> QED BY <1>1, <1>2, <1>3, <1>4, <1>5

LEMMA NextKeepsIInv == IInv /\ [Next]_vars => IInv'
<1> SUFFICES ASSUME IInv, [Next]_vars PROVE IInv'
  OBVIOUS
<1>1. CASE UNCHANGED vars
  BY <1>1
     DEF vars, redis, memory, history, counters, IInv, TypeOK, CallsOK, NoSharedPartition
<1>2. ASSUME NEW k \in Calls, NEW c \in Consumers, NEW kind \in Requests,
             Request(k, kind, c)
      PROVE IInv'
  BY <1>2, RequestKeeps
<1>3. ASSUME NEW k \in Goroutines, Proceed(k) \/ RedisError(k) PROVE IInv'
  BY <1>3, ProceedKeeps, RedisErrorKeeps
<1>4. CASE CollectDead
  BY <1>4, CollectDeadKeeps
<1>5. CASE StartRebalance \/ FinishRebalance \/ TopicError \/ Restart
           \/ \E c \in Consumers : FallSilent(c)
  BY <1>5, WorkerKeeps
<1> QED BY <1>1, <1>2, <1>3, <1>4, <1>5 DEF Next

\* The inductive invariant holds (JoinConsumerGroup, LeaveConsumerGroup,
\* PullWithConsumerGroup and the heartbeat and rebalance workers).
THEOREM Invariant == Spec => []IInv
<1>1. Init => IInv
  BY InitIInv
<1>2. IInv /\ [Next]_vars => IInv'
  BY NextKeepsIInv
<1> QED BY <1>1, <1>2, PTL DEF Spec

\* Type correctness of the consumer group.
THEOREM TypeCorrect == Spec => []TypeOK
<1>1. IInv => TypeOK
  BY DEF IInv
<1> QED BY <1>1, Invariant, PTL

\* The rebalance worker gives no partition to two consumers, however many there
\* are, and no join, leave or death in between changes that
\* (rebalanceConsumerGroup).
THEOREM PartitionsAreNotShared == Spec => []NoSharedPartition
<1>1. IInv => NoSharedPartition
  BY DEF IInv
<1> QED BY <1>1, Invariant, PTL
-----------------------------------------------------------------------------
(* The group shares out its partitions as PartitionOwnership promises.     *)

\* A rebalance is a deal.
LEMMA RedistributeIsDeal ==
  ASSUME TypeOK, active # {}, Redistribute, UNCHANGED active
  PROVE  Held' \in Ownership!Deals(PartitionIds, active)
<1>0. \A S : Ownership!Cardinality(S) = Cardinality(S)
  BY DEF Ownership!Cardinality, Cardinality
<1>1. /\ assigned' \in [Consumers -> SUBSET PartitionIds]
      /\ NoSharedPartition'
      /\ Covered'
  BY RedistributeResult
<1>2. PICK A \in SUBSET Consumers : A = active
  BY DEF TypeOK
<1>3. PICK pos \in [A -> 0 .. (Cardinality(A) - 1)] :
        assigned' = [c \in Consumers |->
                       IF c \in A THEN Share(pos[c], Cardinality(A)) ELSE assigned[c]]
  BY <1>2 DEF Redistribute, Orders
<1>4. Cardinality(A) \in Nat \ {0}
  BY <1>2, GroupAssumption, FS_Subset, FS_CardinalityType, FS_EmptySet
<1>5. ASSUME NEW c \in A, NEW d \in A
      PROVE  Cardinality(assigned'[c]) <= Cardinality(assigned'[d]) + 1
  <2>1. /\ Cardinality(Share(pos[c], Cardinality(A)))
             = (Partitions \div Cardinality(A))
                 + (IF pos[c] < Partitions % Cardinality(A) THEN 1 ELSE 0)
        /\ Cardinality(Share(pos[d], Cardinality(A)))
             = (Partitions \div Cardinality(A))
                 + (IF pos[d] < Partitions % Cardinality(A) THEN 1 ELSE 0)
    BY <1>3, <1>4, ShareSize
  <2>2. Partitions \div Cardinality(A) \in Nat
    BY <1>4, Division, GroupAssumption
  <2>3. /\ assigned'[c] = Share(pos[c], Cardinality(A))
        /\ assigned'[d] = Share(pos[d], Cardinality(A))
    BY <1>3
  <2> QED BY <2>1, <2>2, <2>3
<1>6. \A c \in Consumers : Held'[c] = IF c \in A THEN assigned'[c] ELSE {}
  BY <1>2 DEF Held
<1>7. Held' \in [Consumers -> SUBSET PartitionIds]
  BY <1>1, <1>2 DEF Held
<1>8. \A p \in PartitionIds : \E c \in A : p \in Held'[c]
  BY <1>1, <1>2, <1>6 DEF Covered, PartitionIds
<1>9. \A c, d \in A : c # d => Held'[c] \cap Held'[d] = {}
  BY <1>1, <1>2, <1>6 DEF NoSharedPartition
<1>10. \A c, d \in A : Cardinality(Held'[c]) <= Cardinality(Held'[d]) + 1
  BY <1>5, <1>6
<1>11. \A c \in Consumers \ A : Held'[c] = {}
  BY <1>6
<1> QED BY <1>0, <1>2, <1>7, <1>8, <1>9, <1>10, <1>11 DEF Ownership!Deals

LEMMA OwnershipInit == Init => Ownership!Init
BY DEF Init, Ownership!Init, Ownership!NobodyOwns, Held

\* What changes neither the consumers nor their partitions is not seen.
LEMMA OwnershipStutters ==
  ASSUME UNCHANGED <<active, assigned>>
  PROVE  UNCHANGED Ownership!vars
BY DEF Ownership!vars, Held, PartitionIds

LEMMA ProceedIsOwnershipStep ==
  ASSUME IInv, NEW k \in Goroutines, Proceed(k)
  PROVE  [Ownership!Next]_(Ownership!vars)
<1> USE DEF IInv, TypeOK, At
<1>1. call[k].step # "idle" => call[k].id \in Consumers
  BY DEF CallsOK, GoroutineOK
<1>2. CASE Register(k)
  <2>1. call[k].id \in Consumers
    BY <1>1, <1>2 DEF Register
  <2>2. Held' = [Held EXCEPT ![call[k].id] = {}]
    BY <1>2, <2>1 DEF Register, Held
  <2>3. Ownership!Join(call[k].id)
    BY <1>2, <2>2 DEF Register, Ownership!Join, PartitionIds
  <2> QED BY <2>1, <2>3 DEF Ownership!Next
<1>3. CASE Unregister(k) \/ RemoveDead(k)
  <2>1. call[k].id \in Consumers
    BY <1>1, <1>3 DEF Unregister, RemoveDead
  <2>2. active' = active \ {call[k].id} /\ assigned' = assigned
    BY <1>3 DEF Unregister, RemoveDead
  <2>3. Held' = [Held EXCEPT ![call[k].id] = {}]
    BY <2>1, <2>2 DEF Held
  <2>4. Ownership!Leave(call[k].id)
    BY <2>2, <2>3 DEF Ownership!Leave, PartitionIds
  <2> QED BY <2>1, <2>4 DEF Ownership!Next
<1>4. CASE \/ GetGroup(k) \/ CreateGroup(k) \/ AddMember(k) \/ ReadForAdd(k)
           \/ WriteAdded(k) \/ TriggerRebalance(k) \/ JoinReply(k) \/ ReadStream(k)
           \/ UpdateHeartbeat(k) \/ RemoveMember(k) \/ ReadForRemove(k)
           \/ WriteRemoved(k) \/ FlagRebalance(k)
  <2>1. UNCHANGED <<active, assigned>>
    BY <1>4 DEF GetGroup, CreateGroup, AddMember, ReadForAdd, WriteAdded,
      TriggerRebalance, JoinReply, ReadStream, UpdateHeartbeat, RemoveMember,
      ReadForRemove, WriteRemoved, FlagRebalance, memory
  <2> QED BY <2>1, OwnershipStutters
<1> QED BY <1>2, <1>3, <1>4 DEF Proceed

LEMMA OwnershipStep == IInv /\ [Next]_vars => [Ownership!Next]_(Ownership!vars)
<1> SUFFICES ASSUME IInv, [Next]_vars PROVE [Ownership!Next]_(Ownership!vars)
  OBVIOUS
<1>1. ASSUME NEW k \in Goroutines, Proceed(k) PROVE [Ownership!Next]_(Ownership!vars)
  BY <1>1, ProceedIsOwnershipStep
<1>2. CASE FinishRebalance
  <2>1. CASE active = {}
    BY <1>2, <2>1, OwnershipStutters DEF FinishRebalance
  <2>2. CASE active # {}
    <3>1. Held' \in Ownership!Deals(PartitionIds, active)
      BY <1>2, <2>2, RedistributeIsDeal DEF FinishRebalance, IInv
    <3>2. Ownership!Deal
      BY <1>2, <2>2, <3>1 DEF FinishRebalance, Ownership!Deal, PartitionIds
    <3> QED BY <3>2 DEF Ownership!Next
  <2> QED BY <2>1, <2>2
<1>3. CASE Restart
  <2>1. Held' = Ownership!NobodyOwns
    BY <1>3 DEF Restart, Held, Ownership!NobodyOwns
  <2>2. Ownership!Reset
    BY <1>3, <2>1 DEF Restart, Ownership!Reset, PartitionIds
  <2> QED BY <2>2 DEF Ownership!Next
<1>4. CASE \/ UNCHANGED vars
           \/ \E k \in Calls, c \in Consumers, kind \in Requests : Request(k, kind, c)
           \/ \E k \in Goroutines : RedisError(k)
           \/ CollectDead
           \/ StartRebalance
           \/ \E c \in Consumers : FallSilent(c)
           \/ TopicError
  <2>1. UNCHANGED <<active, assigned>>
    BY <1>4 DEF vars, Request, RedisError, CollectDead, StartRebalance, FallSilent,
      TopicError, memory
  <2> QED BY <2>1, OwnershipStutters
<1> QED BY <1>1, <1>2, <1>3, <1>4 DEF Next

\* Consumers get and lose partitions as the specification of a fair deal says,
\* however requests, deaths, rebalances, failures and restarts interleave
\* (rebalanceConsumerGroup, JoinConsumerGroup, LeaveConsumerGroup).
THEOREM ImplementsOwnership == Spec => OwnershipSpec
BY OwnershipInit, OwnershipStep, Invariant, PTL DEF Spec, OwnershipSpec, Ownership!Spec
-----------------------------------------------------------------------------
(* A rebalance that is needed is flagged: where the flag is cleared, all   *)
(* partitions are covered; elsewhere a goroutine that is on its way to     *)
(* flag it goes on, or has flagged it.                                     *)

Flagging(g) == g.step = "trigger" \/ (g.kind = "dead" /\ g.step # "idle")

LEMMA FlaggingGoesOn ==
  ASSUME IInv, RebalanceIsNotLost, NEW k \in Goroutines, NEW g,
         UNCHANGED <<active, assigned, rebalancing, gaveUp>>,
         call' = [call EXCEPT ![k] = g],
         Flagging(call[k]) => Flagging(g)
  PROVE  RebalanceIsNotLost'
<1>1. /\ call'[k] = g
      /\ \A l \in Goroutines : l # k => call'[l] = call[l]
  BY DEF IInv, CallsOK
<1>2. SUFFICES ASSUME active # {}, ~Covered
               PROVE  rebalancing \/ gaveUp \/ \E l \in Goroutines : Flagging(call'[l])
  BY DEF RebalanceIsNotLost, Covered, PartitionIds, Flagging, At
<1>3. rebalancing \/ gaveUp \/ \E l \in Goroutines : Flagging(call[l])
  BY <1>2 DEF RebalanceIsNotLost, Flagging, At
<1> QED BY <1>1, <1>3

\* A step after which a goroutine is on its way, or the flag is set.
LEMMA Flagged ==
  ASSUME rebalancing' \/ gaveUp' \/ \E k \in Goroutines : Flagging(call'[k])
  PROVE  RebalanceIsNotLost'
  BY DEF RebalanceIsNotLost, Flagging, At

LEMMA NobodyActive == active' = {} => RebalanceIsNotLost'
  BY DEF RebalanceIsNotLost

LEMMA ProceedIsNotLost ==
  ASSUME IInv, RebalanceIsNotLost, NEW k \in Goroutines, Proceed(k)
  PROVE  RebalanceIsNotLost'
<1>1. CallsOK /\ call[k] \in Goroutine /\ GoroutineOK(call[k])
  BY DEF IInv, CallsOK
<1>2. call[k].step \notin Removal => (Flagging(call[k]) <=> call[k].step = "trigger")
  BY <1>1 DEF GoroutineOK, Flagging
<1>3. \A step \in Steps :
        /\ Goto(k, step) 
        /\ UNCHANGED <<active, assigned, rebalancing, gaveUp>>
        /\ step # "idle"
        /\ call[k].step # "trigger" /\ call[k].step # "idle"
        => RebalanceIsNotLost'
  <2> SUFFICES ASSUME NEW step \in Steps,
                      Goto(k, step), UNCHANGED <<active, assigned, rebalancing, gaveUp>>,
                      step # "idle", call[k].step # "trigger", call[k].step # "idle"
               PROVE  RebalanceIsNotLost'
    OBVIOUS
  <2> DEFINE g == [call[k] EXCEPT !.step = step]
  <2>1. call' = [call EXCEPT ![k] = g]
    BY <1>1 DEF Goto, CallsOK
  <2>2. Flagging(call[k]) => Flagging(g)
    BY <1>1 DEF Flagging, Goroutine
  <2> QED BY <2>1, <2>2, FlaggingGoesOn
<1>4. Return(k) /\ ~Flagging(call[k]) /\ UNCHANGED <<active, assigned, rebalancing, gaveUp>>
        => RebalanceIsNotLost'
  BY FlaggingGoesOn DEF Return
<1>5. ASSUME NEW step \in Steps \ {"idle"},
             NEW S, call' = [call EXCEPT ![k].step = step, ![k].seen = S],
             UNCHANGED <<active, assigned, rebalancing, gaveUp>>, call[k].step # "trigger"
      PROVE RebalanceIsNotLost'
  <2> DEFINE g == [call[k] EXCEPT !.step = step, !.seen = S]
  <2>1. call' = [call EXCEPT ![k] = g]
    BY <1>1, <1>5 DEF CallsOK
  <2>2. Flagging(call[k]) => Flagging(g)
    BY <1>1, <1>5 DEF Flagging, Goroutine
  <2> QED BY <1>5, <2>1, <2>2, FlaggingGoesOn
<1>6. ~live => active = {}
  BY DEF IInv
<1>10. CASE GetGroup(k)
  BY <1>3, <1>10 DEF GetGroup, At, Steps, memory
<1>11. CASE CreateGroup(k)
  BY <1>3, <1>11 DEF CreateGroup, At, Steps, memory
<1>12. CASE AddMember(k)
  BY <1>3, <1>12 DEF AddMember, At, Steps, memory
<1>13. CASE ReadForAdd(k)
  <2>1. ASSUME Goto(k, Added(k)) PROVE RebalanceIsNotLost'
    BY <1>3, <1>13, <2>1 DEF ReadForAdd, Added, At, Steps, memory
  <2>2. ASSUME call' = [call EXCEPT ![k].step = "writeAdd", ![k].seen = group]
        PROVE RebalanceIsNotLost'
    <3>1. PICK S : S = group
      OBVIOUS
    <3> QED BY <1>5, <1>13, <2>2, <3>1 DEF ReadForAdd, At, Steps, memory
  <2> QED BY <1>13, <2>1, <2>2 DEF ReadForAdd
<1>14. CASE WriteAdded(k)
  BY <1>3, <1>14 DEF WriteAdded, Added, At, Steps, memory
<1>15. CASE Register(k)
  <2>1. call'[k].step = "trigger"
    BY <1>1, <1>15 DEF Register, Goto, CallsOK, Goroutine
  <2> QED BY <2>1, Flagged DEF Flagging
<1>16. CASE TriggerRebalance(k)
  <2>1. CASE live
    BY <1>16, <2>1, Flagged DEF TriggerRebalance
  <2>2. CASE ~live
    BY <1>6, <1>16, <2>2, NobodyActive DEF TriggerRebalance
  <2> QED BY <2>1, <2>2
<1>17. CASE JoinReply(k)
  BY <1>2, <1>4, <1>17 DEF JoinReply, At, Removal, memory
<1>18. CASE ReadStream(k)
  BY <1>3, <1>18 DEF ReadStream, At, Steps, memory
<1>19. CASE UpdateHeartbeat(k)
  BY <1>2, <1>4, <1>19 DEF UpdateHeartbeat, At, Removal
<1>20. CASE RemoveMember(k)
  BY <1>3, <1>20 DEF RemoveMember, At, Steps, memory
<1>21. CASE ReadForRemove(k)
  <2>1. ASSUME Goto(k, "unregister") PROVE RebalanceIsNotLost'
    BY <1>3, <1>21, <2>1 DEF ReadForRemove, At, Steps, memory
  <2>2. ASSUME call' = [call EXCEPT ![k].step = "writeRemove", ![k].seen = group]
        PROVE RebalanceIsNotLost'
    <3>1. PICK S : S = group
      OBVIOUS
    <3> QED BY <1>5, <1>21, <2>2, <3>1 DEF ReadForRemove, At, Steps, memory
  <2> QED BY <1>21, <2>1, <2>2 DEF ReadForRemove
<1>22. CASE WriteRemoved(k)
  BY <1>3, <1>22 DEF WriteRemoved, At, Steps, memory
<1>23. CASE Unregister(k)
  <2>1. CASE live
    BY <1>23, <2>1, Flagged DEF Unregister
  <2>2. CASE ~live
    BY <1>6, <1>23, <2>2, NobodyActive DEF Unregister
  <2> QED BY <2>1, <2>2
<1>24. CASE RemoveDead(k)
  <2>1. call[k].kind = "dead"
    BY <1>24 DEF RemoveDead
  <2>2. ASSUME Goto(k, "flag") PROVE RebalanceIsNotLost'
    <3>1. call'[k].kind = "dead" /\ call'[k].step = "flag"
      BY <1>1, <2>1, <2>2 DEF Goto, CallsOK, Goroutine
    <3> QED BY <3>1, Flagged DEF Flagging
  <2>3. ASSUME NEW c \in call[k].rest,
               call' = [call EXCEPT ![k].step = "srem", ![k].id = c, ![k].rest = @ \ {c}]
        PROVE RebalanceIsNotLost'
    <3> DEFINE g == [call[k] EXCEPT !.step = "srem", !.id = c, !.rest = @ \ {c}]
    <3>1. g.kind = "dead" /\ g.step = "srem"
      BY <1>1, <2>1 DEF Goroutine
    <3>2. call'[k] = g
      BY <1>1, <2>3 DEF CallsOK
    <3> QED BY <3>1, <3>2, Flagged DEF Flagging
  <2> QED BY <1>24, <2>2, <2>3 DEF RemoveDead
<1>25. CASE FlagRebalance(k)
  BY <1>25, Flagged DEF FlagRebalance
<1> QED BY <1>10, <1>11, <1>12, <1>13, <1>14, <1>15, <1>16, <1>17, <1>18, <1>19,
           <1>20, <1>21, <1>22, <1>23, <1>24, <1>25 DEF Proceed

LEMMA RedisErrorIsNotLost ==
  ASSUME IInv, RebalanceIsNotLost, NEW k \in Goroutines, RedisError(k)
  PROVE  RebalanceIsNotLost'
<1>1. CallsOK /\ call[k] \in Goroutine /\ GoroutineOK(call[k])
  BY DEF IInv, CallsOK
<1>2. UNCHANGED <<active, assigned, rebalancing, gaveUp>>
  BY DEF RedisError, memory
<1>3. ASSUME NEW step \in Steps \ {"idle"}, Goto(k, step),
             call[k].step # "trigger"
      PROVE  RebalanceIsNotLost'
  <2> DEFINE g == [call[k] EXCEPT !.step = step]
  <2>1. call' = [call EXCEPT ![k] = g]
    BY <1>1, <1>3 DEF Goto, CallsOK
  <2>2. Flagging(call[k]) => Flagging(g)
    BY <1>1, <1>3 DEF Flagging, Goroutine
  <2> QED BY <1>2, <2>1, <2>2, FlaggingGoesOn
<1>4. ASSUME At(k, "get"), Goto(k, "create") PROVE RebalanceIsNotLost'
  BY <1>3, <1>4 DEF At, Steps
<1>5. ASSUME At(k, "create") \/ At(k, "read"), Return(k) PROVE RebalanceIsNotLost'
  <2>1. ~Flagging(call[k])
    BY <1>1, <1>5 DEF At, GoroutineOK, Removal, Flagging
  <2> QED BY <1>2, <1>5, <2>1, FlaggingGoesOn DEF Return
<1>6. ASSUME call[k].step \in {"sadd", "readAdd", "writeAdd"}, Goto(k, Added(k))
      PROVE RebalanceIsNotLost'
  <2>1. \/ Added(k) = "register" /\ Goto(k, "register")
        \/ Added(k) = "read" /\ Goto(k, "read")
    BY <1>6 DEF Added
  <2>2. "register" \in Steps \ {"idle"} /\ "read" \in Steps \ {"idle"}
    BY DEF Steps
  <2>3. call[k].step # "trigger"
    BY <1>6
  <2> QED BY <1>3, <2>1, <2>2, <2>3
<1>7. ASSUME call[k].step \in {"srem", "readRemove", "writeRemove"},
             Goto(k, "unregister")
      PROVE RebalanceIsNotLost'
  BY <1>3, <1>7 DEF Steps
<1> QED BY <1>4, <1>5, <1>6, <1>7 DEF RedisError

LEMMA OthersAreNotLost ==
  ASSUME IInv, RebalanceIsNotLost,
         \/ \E k \in Calls, c \in Consumers, kind \in Requests : Request(k, kind, c)
         \/ CollectDead \/ StartRebalance \/ FinishRebalance \/ TopicError \/ Restart
         \/ \E c \in Consumers : FallSilent(c)
  PROVE  RebalanceIsNotLost'
<1>1. CallsOK
  BY DEF IInv
<1>2. ASSUME NEW k \in Calls, NEW c \in Consumers, NEW kind \in Requests,
             Request(k, kind, c)
      PROVE RebalanceIsNotLost'
  <2>1. k \in Goroutines /\ call[k].step = "idle"
    BY <1>2 DEF Goroutines, Request, At
  <2>2. ~Flagging(call[k])
    BY <2>1 DEF Flagging
  <2> QED BY <1>2, <2>1, <2>2, FlaggingGoesOn DEF Request, memory
<1>3. CASE CollectDead
  <2>1. heartbeat \in Goroutines
    BY DEF Goroutines
  <2>2. PICK c, R : call' = [call EXCEPT ![heartbeat] =
           [Idle EXCEPT !.step = "srem", !.kind = "dead", !.id = c, !.rest = R]]
    BY <1>3 DEF CollectDead
  <2>3. call'[heartbeat].kind = "dead" /\ call'[heartbeat].step = "srem"
    BY <1>1, <2>1, <2>2 DEF CallsOK, Idle
  <2> QED BY <2>1, <2>3, Flagged DEF Flagging
<1>4. CASE StartRebalance
  BY <1>4 DEF StartRebalance, RebalanceIsNotLost, Covered, PartitionIds, At
<1>5. CASE FinishRebalance
  <2>1. CASE active = {}
    BY <1>5, <2>1, NobodyActive DEF FinishRebalance
  <2>2. CASE active # {}
    <3>1. Covered'
      BY <1>5, <2>2, RedistributeResult DEF FinishRebalance, IInv
    <3> QED BY <3>1 DEF RebalanceIsNotLost
  <2> QED BY <2>1, <2>2
<1>6. CASE Restart
  BY <1>6, NobodyActive DEF Restart
<1>7. CASE \E c \in Consumers : FallSilent(c)
  BY <1>7 DEF FallSilent, RebalanceIsNotLost, Covered, PartitionIds, At
<1>8. CASE TopicError
  BY <1>8, Flagged DEF TopicError
<1> QED BY <1>2, <1>3, <1>4, <1>5, <1>6, <1>7, <1>8

\* No needed rebalance is forgotten, although the heartbeat worker sets the flag
\* outside the lock, except when the rebalance worker gave up
\* (processConsumerHeartbeats, processRebalancing).
THEOREM RebalancesAreNotLost == Spec => []RebalanceIsNotLost
<1>1. Init => RebalanceIsNotLost
  BY DEF Init, RebalanceIsNotLost
<1>2. IInv /\ RebalanceIsNotLost /\ [Next]_vars => RebalanceIsNotLost'
  <2> SUFFICES ASSUME IInv, RebalanceIsNotLost, [Next]_vars PROVE RebalanceIsNotLost'
    OBVIOUS
  <2>1. CASE UNCHANGED vars
    BY <2>1 DEF vars, memory, RebalanceIsNotLost, Covered, PartitionIds, At
  <2>2. ASSUME NEW k \in Goroutines, Proceed(k) \/ RedisError(k)
        PROVE RebalanceIsNotLost'
    BY <2>2, ProceedIsNotLost, RedisErrorIsNotLost
  <2> QED BY <2>1, <2>2, OthersAreNotLost DEF Next
<1> QED BY <1>1, <1>2, Invariant, PTL DEF Spec
-----------------------------------------------------------------------------
(* The members in Redis and in the process: between two requests of a      *)
(* consumer that is not a stray they agree, and within one the step tells  *)
(* which side is ahead.                                                    *)

Agrees(c, mem, act, gst) ==
  /\ c \in act => c \in mem
  /\ c \in mem \ act <=> c \in gst

Settled(g, mem, act, gst) ==
  g.step # "idle" =>
    \/ /\ g.kind = "join"
       /\ \/ g.step \in {"get", "create", "sadd", "trigger", "reply"}
             /\ Agrees(g.id, mem, act, gst)
          \/ g.step \in {"readAdd", "writeAdd", "register"} /\ g.id \in mem
    \/ /\ g.kind = "pull"
       /\ g.step \in {"get", "create", "sadd", "readAdd", "writeAdd", "read", "beat"}
       /\ Agrees(g.id, mem, act, gst)
    \/ /\ g.kind = "leave"
       /\ \/ g.step = "srem" /\ Agrees(g.id, mem, act, gst)
          \/ /\ g.step \in {"readRemove", "writeRemove", "unregister"}
             /\ g.id \notin mem /\ g.id \notin gst

\* The heartbeat worker is at work on consumers that fell silent only, and every
\* other consumer has one request at a time.
MembersInv ==
  /\ stale \subseteq strays
  /\ \A k \in Goroutines :
       /\ call[k].step = "idle" => call[k].id = NoConsumer
       /\ call[k].kind = "dead" /\ call[k].step # "idle" =>
            call[k].id \in strays /\ call[k].rest \subseteq strays
       /\ call[k].id \notin strays => Settled(call[k], members, active, guests)
  /\ \A k, l \in Goroutines :
       call[k].id = call[l].id /\ call[k].id \in Consumers \ strays => k = l
  /\ \A c \in Consumers \ strays :
       (\A k \in Goroutines : call[k].id # c) => Agrees(c, members, active, guests)

\* A step of goroutine k that goes on to g, or ends, and changes at most what
\* concerns its own consumer.
LEMMA OneMoves ==
  ASSUME IInv, MembersInv, stale' \subseteq stale, UNCHANGED strays,
         NEW k \in Goroutines, call[k].id \in Consumers,
         NEW g, call' = [call EXCEPT ![k] = g],
         \A d \in Consumers \ {call[k].id} :
           /\ (d \in members' <=> d \in members) /\ (d \in active' <=> d \in active)
           /\ d \in guests' <=> d \in guests,
         \/ /\ g.id = call[k].id /\ g.kind = call[k].kind /\ g.rest = call[k].rest
            /\ g.step # "idle"
            /\ g.id \notin strays => Settled(g, members', active', guests')
         \/ /\ g = Idle
            /\ call[k].id \notin strays => Agrees(call[k].id, members', active', guests')
  PROVE  MembersInv'
<1>1. call'[k] = g /\ \A l \in Goroutines \ {k} : call'[l] = call[l]
  BY DEF IInv, CallsOK
<1>2. Idle.step = "idle" /\ Idle.id = NoConsumer /\ Idle.kind # "dead"
  BY DEF Idle
<1>3. call[k].step # "idle"
  BY GroupAssumption DEF MembersInv
<1>4. \A l \in Goroutines :
        /\ call'[l].id \in {call[l].id, NoConsumer}
        /\ call'[l].step = "idle" => call'[l].id = NoConsumer
        /\ call'[l].kind = "dead" /\ call'[l].step # "idle" =>
             call'[l].id \in strays /\ call'[l].rest \subseteq strays
  BY <1>1, <1>2, <1>3 DEF MembersInv
<1>5. \A l, m \in Goroutines :
        call'[l].id = call'[m].id /\ call'[l].id \in Consumers \ strays => l = m
  BY <1>4, GroupAssumption DEF MembersInv
<1>6. ASSUME NEW l \in Goroutines, call'[l].id \notin strays
      PROVE  Settled(call'[l], members', active', guests')
  <2>1. CASE l = k
    BY <1>1, <1>2, <1>6, <2>1 DEF Settled
  <2>2. CASE l # k
    <3>1. Settled(call[l], members, active, guests) /\ call'[l] = call[l]
      BY <1>1, <1>6, <2>2 DEF MembersInv
    <3>2. call[l].step # "idle" => call[l].id \in Consumers
      BY DEF IInv, CallsOK, GoroutineOK
    <3>3. call[l].step # "idle" => call[l].id # call[k].id
      BY <1>6, <2>2, <3>1, <3>2 DEF MembersInv
    <3> QED BY <3>1, <3>2, <3>3 DEF Settled, Agrees
  <2> QED BY <2>1, <2>2
<1>7. ASSUME NEW c \in Consumers \ strays, \A l \in Goroutines : call'[l].id # c
      PROVE  Agrees(c, members', active', guests')
  <2>1. CASE c = call[k].id
    BY <1>1, <1>7, <2>1
  <2>2. CASE c # call[k].id
    <3>1. \A l \in Goroutines : call[l].id # c
      BY <1>1, <1>7, <2>2
    <3> QED BY <2>2, <3>1 DEF MembersInv, Agrees
  <2> QED BY <2>1, <2>2
<1>8. stale' \subseteq strays'
  BY DEF MembersInv
<1> QED BY <1>4, <1>5, <1>6, <1>7, <1>8 DEF MembersInv

\* The partitions may have changed, but no goroutine and no member.
LEMMA MembersUntouched ==
  ASSUME MembersInv, UNCHANGED <<members, active, stale, call, history>>
  PROVE  MembersInv'
  BY DEF MembersInv, history

LEMMA RequestAgrees ==
  ASSUME IInv, MembersInv, Polite,
         NEW k \in Calls, NEW c \in Consumers, NEW kind \in Requests, Request(k, kind, c)
  PROVE  MembersInv'
<1> DEFINE g == [Idle EXCEPT !.step = IF kind = "leave" THEN "srem" ELSE "get",
                             !.kind = kind, !.id = c]
<1>1. /\ g.id = c /\ g.kind = kind /\ kind \in {"join", "pull", "leave"}
      /\ g.step = IF kind = "leave" THEN "srem" ELSE "get"
  BY GroupAssumption DEF Idle
<1>2. k \in Goroutines /\ call[k].id = NoConsumer
  BY DEF Request, At, Goroutines, MembersInv
<1>3. /\ call'[k] = g
      /\ \A l \in Goroutines \ {k} : call'[l] = call[l]
      /\ \A l \in Goroutines : call[l].id # c
  BY <1>2 DEF Request, IInv, CallsOK
<1>4. UNCHANGED <<members, active, stale, guests, strays>>
  BY DEF Request, redis, memory, history
<1> HIDE DEF g
<1>5. c \notin strays => Agrees(c, members, active, guests)
  BY <1>3 DEF MembersInv
<1>6. \A l \in Goroutines :
        /\ call'[l].step = "idle" => call'[l].id = NoConsumer
        /\ call'[l].kind = "dead" /\ call'[l].step # "idle" =>
             call'[l].id \in strays' /\ call'[l].rest \subseteq strays'
        /\ call'[l].id \notin strays' => Settled(call'[l], members', active', guests')
  BY <1>1, <1>3, <1>4, <1>5 DEF Settled, MembersInv
<1>7. \A l, m \in Goroutines :
        call'[l].id = call'[m].id /\ call'[l].id \in Consumers \ strays' => l = m
  BY <1>1, <1>3, <1>4 DEF MembersInv
<1>8. \A d \in Consumers \ strays' :
        (\A l \in Goroutines : call'[l].id # d) => Agrees(d, members', active', guests')
  <2> SUFFICES ASSUME NEW d \in Consumers \ strays, \A l \in Goroutines : call'[l].id # d
               PROVE  Agrees(d, members, active, guests)
    BY <1>4
  <2>1. \A l \in Goroutines : call[l].id # d
    BY <1>2, <1>3, GroupAssumption
  <2> QED BY <2>1 DEF MembersInv
<1> QED BY <1>4, <1>6, <1>7, <1>8 DEF MembersInv

\* The heartbeat worker goes on to the next dead consumer: all are strays.
LEMMA NextDead ==
  ASSUME IInv, MembersInv, NEW k \in Goroutines, NEW d \in call[k].rest,
         call[k] \in Goroutine, call[k].kind = "dead", call[k].id \in strays,
         call[k].rest \subseteq strays,
         call' = [call EXCEPT ![k].step = "srem", ![k].id = d, ![k].rest = @ \ {d}],
         UNCHANGED <<members, guests, strays>>,
         stale' \subseteq stale, active' = active \ {call[k].id}
  PROVE  MembersInv'
<1>1. /\ call'[k].id = d /\ call'[k].kind = "dead" /\ call'[k].step = "srem"
      /\ call'[k].rest \subseteq strays
      /\ \A l \in Goroutines \ {k} : call'[l] = call[l]
  BY DEF IInv, CallsOK, Goroutine
<1>2. \A l \in Goroutines :
        /\ call'[l].step = "idle" => call'[l].id = NoConsumer
        /\ call'[l].kind = "dead" /\ call'[l].step # "idle" =>
             call'[l].id \in strays /\ call'[l].rest \subseteq strays
  BY <1>1 DEF MembersInv
<1>3. ASSUME NEW l \in Goroutines, call'[l].id \notin strays
      PROVE  Settled(call'[l], members', active', guests')
  <2>1. call'[l] = call[l] /\ Settled(call[l], members, active, guests)
    BY <1>1, <1>3 DEF MembersInv
  <2> QED BY <1>3, <2>1 DEF Settled, Agrees
<1>4. ASSUME NEW l \in Goroutines, NEW m \in Goroutines,
             call'[l].id = call'[m].id, call'[l].id \in Consumers \ strays
      PROVE  l = m
  <2>1. l # k /\ m # k
    BY <1>1, <1>4
  <2> QED BY <1>1, <1>4, <2>1 DEF MembersInv
<1>5. ASSUME NEW e \in Consumers \ strays, \A l \in Goroutines : call'[l].id # e
      PROVE  Agrees(e, members', active', guests')
  <2>1. \A l \in Goroutines : call[l].id # e
    BY <1>1, <1>5
  <2> QED BY <1>5, <2>1 DEF MembersInv, Agrees
<1>6. stale' \subseteq strays'
  BY DEF MembersInv
<1> QED BY <1>2, <1>3, <1>4, <1>5, <1>6 DEF MembersInv

LEMMA CollectDeadAgrees == IInv /\ MembersInv /\ CollectDead => MembersInv'
<1> SUFFICES ASSUME IInv, MembersInv, CollectDead PROVE MembersInv'
  OBVIOUS
<1>1. heartbeat \in Goroutines /\ call[heartbeat].id = NoConsumer
  BY DEF Goroutines, CollectDead, At, MembersInv
<1>2. PICK d \in stale :
        call' = [call EXCEPT ![heartbeat] =
                   [Idle EXCEPT !.step = "srem", !.kind = "dead", !.id = d,
                                !.rest = stale \ {d}]]
  BY DEF CollectDead
<1>3. /\ call'[heartbeat].id = d /\ call'[heartbeat].kind = "dead"
      /\ call'[heartbeat].step = "srem"
      /\ call'[heartbeat].rest = stale \ {d}
      /\ \A l \in Goroutines \ {heartbeat} : call'[l] = call[l]
  BY <1>1, <1>2 DEF IInv, CallsOK, Idle
<1>4. d \in strays /\ stale \subseteq strays
  BY DEF MembersInv
<1>5. UNCHANGED <<members, active, stale, guests, strays>>
  BY DEF CollectDead, redis, memory, history
<1>6. \A l \in Goroutines :
        /\ call'[l].step = "idle" => call'[l].id = NoConsumer
        /\ call'[l].kind = "dead" /\ call'[l].step # "idle" =>
             call'[l].id \in strays /\ call'[l].rest \subseteq strays
        /\ call'[l].id \notin strays => Settled(call'[l], members, active, guests)
  BY <1>3, <1>4 DEF MembersInv
<1>7. \A l, m \in Goroutines :
        call'[l].id = call'[m].id /\ call'[l].id \in Consumers \ strays => l = m
  BY <1>3, <1>4 DEF MembersInv
<1>8. ASSUME NEW e \in Consumers \ strays, \A l \in Goroutines : call'[l].id # e
      PROVE  Agrees(e, members, active, guests)
  <2>1. \A l \in Goroutines : call[l].id # e
    BY <1>1, <1>3, <1>8, GroupAssumption
  <2> QED BY <2>1 DEF MembersInv
<1> QED BY <1>5, <1>6, <1>7, <1>8 DEF MembersInv

LEMMA ProceedAgrees ==
  ASSUME IInv, MembersInv, NEW k \in Goroutines, Proceed(k)
  PROVE  MembersInv'
<1> DEFINE c == call[k].id
<1>1. CallsOK /\ call[k] \in Goroutine /\ GoroutineOK(call[k])
  BY DEF IInv, CallsOK
<1>2. call[k].step # "idle" /\ c \in Consumers
  BY <1>1 DEF Proceed, At, GoroutineOK, GetGroup, CreateGroup, AddMember, ReadForAdd,
     WriteAdded, Register, TriggerRebalance, JoinReply, ReadStream, UpdateHeartbeat,
     RemoveMember, ReadForRemove, WriteRemoved, Unregister, RemoveDead, FlagRebalance
<1>3. /\ c \notin strays => Settled(call[k], members, active, guests)
      /\ call[k].kind = "dead" => c \in strays /\ call[k].rest \subseteq strays
  BY <1>2 DEF MembersInv
<1>4. ASSUME NEW step \in Steps \ {"idle"}, NEW S, stale' \subseteq stale, UNCHANGED strays,
             \/ Goto(k, step)
             \/ call' = [call EXCEPT ![k].step = step, ![k].seen = S],
             \A d \in Consumers \ {c} :
               /\ (d \in members' <=> d \in members) /\ (d \in active' <=> d \in active)
               /\ d \in guests' <=> d \in guests,
             \A g : /\ g.step = step /\ g.id = c /\ g.kind = call[k].kind
                    /\ c \notin strays
                    => Settled(g, members', active', guests')
      PROVE  MembersInv'
  <2>1. PICK g \in {[call[k] EXCEPT !.step = step],
                    [call[k] EXCEPT !.step = step, !.seen = S]} :
          call' = [call EXCEPT ![k] = g]
    BY <1>1, <1>4 DEF Goto, CallsOK
  <2>2. g.id = c /\ g.kind = call[k].kind /\ g.rest = call[k].rest /\ g.step = step
    BY <1>1, <1>4 DEF Goroutine
  <2> HIDE DEF c
  <2>3. g.id \notin strays => Settled(g, members', active', guests')
    BY <1>4, <2>2
  <2> QED BY <1>2, <1>4, <2>1, <2>2, <2>3, OneMoves DEF c
<1>5. ASSUME Return(k), stale' \subseteq stale, UNCHANGED strays,
             \A d \in Consumers \ {c} :
               /\ (d \in members' <=> d \in members) /\ (d \in active' <=> d \in active)
               /\ d \in guests' <=> d \in guests,
             c \notin strays => Agrees(c, members', active', guests')
      PROVE  MembersInv'
  BY <1>2, <1>5, OneMoves DEF Return
<1> HIDE DEF c
<1>9. CASE GetGroup(k)
  <2>1. UNCHANGED <<members, active, stale, guests, strays>>
    BY <1>9 DEF GetGroup, redis, memory, history
  <2>2. ASSUME NEW step \in {"create", "sadd"}, Goto(k, step) PROVE MembersInv'
    BY <1>3, <1>4, <1>9, <2>1, <2>2 DEF GetGroup, At, Settled, Steps, c
  <2> QED BY <1>9, <2>2 DEF GetGroup
<1>10. CASE CreateGroup(k)
  <2>1. UNCHANGED <<members, active, stale, guests, strays>>
    BY <1>10 DEF CreateGroup, memory, history
  <2> QED BY <1>3, <1>4, <1>10, <2>1 DEF CreateGroup, At, Settled, Steps, c
<1>11. CASE AddMember(k)
  <2>1. /\ members' = members \cup {c} /\ UNCHANGED <<active, stale, strays>>
        /\ guests' = guests \cup (IF call[k].kind = "pull" THEN {c} \ active ELSE {})
        /\ At(k, "sadd") /\ Goto(k, "readAdd")
    BY <1>11 DEF AddMember, memory, c
  <2>2. c \notin strays =>
          /\ call[k].kind \in {"join", "pull"}
          /\ call[k].kind = "pull" => Agrees(c, members', active', guests')
    BY <1>3, <2>1 DEF At, Settled, Agrees, c
  <2>3. \A g : /\ g.step = "readAdd" /\ g.id = c /\ g.kind = call[k].kind /\ c \notin strays
               => Settled(g, members', active', guests')
    BY <2>1, <2>2 DEF Settled
  <2> QED BY <1>4, <2>1, <2>3 DEF Steps
<1>12. CASE ReadForAdd(k)
  <2>1. UNCHANGED <<members, active, stale, guests, strays>>
    BY <1>12 DEF ReadForAdd, redis, memory, history
  <2>2. c \notin strays => \/ call[k].kind = "join" /\ c \in members
                           \/ call[k].kind = "pull" /\ Agrees(c, members, active, guests)
    BY <1>3, <1>12 DEF ReadForAdd, At, Settled, c
  <2>3. \A g : /\ g.step \in {"writeAdd", Added(k)} /\ g.id = c /\ g.kind = call[k].kind
               /\ c \notin strays
               => Settled(g, members', active', guests')
    BY <2>1, <2>2 DEF Settled, Added
  <2>4. Added(k) \in Steps \ {"idle"} /\ "writeAdd" \in Steps \ {"idle"}
    BY DEF Added, Steps
  <2>5. PICK S : S = group
    OBVIOUS
  <2>6. CASE Goto(k, Added(k))
    BY <1>4, <2>1, <2>3, <2>4, <2>6
  <2>7. CASE call' = [call EXCEPT ![k].step = "writeAdd", ![k].seen = group]
    BY <1>4, <2>1, <2>3, <2>4, <2>5, <2>7
  <2> QED BY <1>12, <2>6, <2>7 DEF ReadForAdd
<1>13. CASE WriteAdded(k)
  <2>1. UNCHANGED <<members, active, stale, guests, strays>>
    BY <1>13 DEF WriteAdded, memory, history
  <2>2. c \notin strays => \/ call[k].kind = "join" /\ c \in members
                           \/ call[k].kind = "pull" /\ Agrees(c, members, active, guests)
    BY <1>3, <1>13 DEF WriteAdded, At, Settled, c
  <2>3. \A g : g.step = Added(k) /\ g.id = c /\ g.kind = call[k].kind /\ c \notin strays
               => Settled(g, members', active', guests')
    BY <2>1, <2>2 DEF Settled, Added
  <2>4. Added(k) \in Steps \ {"idle"}
    BY DEF Added, Steps
  <2> QED BY <1>4, <1>13, <2>1, <2>3, <2>4 DEF WriteAdded
<1>14. CASE Register(k)
  <2>1. /\ UNCHANGED <<members, strays>> /\ active' = active \cup {c}
        /\ guests' = guests \ {c} /\ stale' \subseteq stale /\ Goto(k, "trigger")
    BY <1>14 DEF Register, redis, c
  <2>2. c \notin strays => call[k].kind = "join" /\ Agrees(c, members', active', guests')
    BY <1>3, <1>14, <2>1 DEF Register, At, Settled, Agrees, c
  <2>3. \A g : g.step = "trigger" /\ g.id = c /\ g.kind = call[k].kind /\ c \notin strays
               => Settled(g, members', active', guests')
    BY <2>2 DEF Settled
  <2> QED BY <1>4, <2>1, <2>3 DEF Steps
<1>15. CASE TriggerRebalance(k)
  <2>1. UNCHANGED <<members, active, stale, guests, strays>>
    BY <1>15 DEF TriggerRebalance, redis, history
  <2> QED BY <1>3, <1>4, <1>15, <2>1 DEF TriggerRebalance, At, Settled, Steps, c
<1>16. CASE JoinReply(k)
  <2>1. UNCHANGED <<members, active, stale, guests, strays>>
    BY <1>16 DEF JoinReply, redis, memory, history
  <2> QED BY <1>3, <1>5, <1>16, <2>1 DEF JoinReply, At, Settled, c
<1>17. CASE ReadStream(k)
  <2>1. UNCHANGED <<members, active, stale, guests, strays>>
    BY <1>17 DEF ReadStream, redis, memory, history
  <2> QED BY <1>3, <1>4, <1>17, <2>1 DEF ReadStream, At, Settled, Steps, c
<1>18. CASE UpdateHeartbeat(k)
  <2>1. UNCHANGED <<members, active, guests, strays>> /\ stale' \subseteq stale
    BY <1>18 DEF UpdateHeartbeat, redis, history
  <2> QED BY <1>3, <1>5, <1>18, <2>1 DEF UpdateHeartbeat, At, Settled, c
<1>19. CASE RemoveMember(k)
  <2>1. /\ members' = members \ {c} /\ guests' = guests \ {c}
        /\ UNCHANGED <<active, stale, strays>>
    BY <1>19 DEF RemoveMember, memory, c
  <2> QED BY <1>3, <1>4, <1>19, <2>1 DEF RemoveMember, At, Settled, Steps, c
<1>20. CASE ReadForRemove(k)
  <2>1. UNCHANGED <<members, active, stale, guests, strays>>
    BY <1>20 DEF ReadForRemove, redis, memory, history
  <2>2. c \notin strays => call[k].kind = "leave" /\ c \notin members /\ c \notin guests
    BY <1>3, <1>20 DEF ReadForRemove, At, Settled, c
  <2>3. \A g : /\ g.step \in {"writeRemove", "unregister"} /\ g.id = c
               /\ g.kind = call[k].kind /\ c \notin strays
               => Settled(g, members', active', guests')
    BY <2>1, <2>2 DEF Settled
  <2>4. "unregister" \in Steps \ {"idle"} /\ "writeRemove" \in Steps \ {"idle"}
    BY DEF Steps
  <2>5. PICK S : S = group
    OBVIOUS
  <2>6. CASE Goto(k, "unregister")
    BY <1>4, <2>1, <2>3, <2>4, <2>6
  <2>7. CASE call' = [call EXCEPT ![k].step = "writeRemove", ![k].seen = group]
    BY <1>4, <2>1, <2>3, <2>4, <2>5, <2>7
  <2> QED BY <1>20, <2>6, <2>7 DEF ReadForRemove
<1>21. CASE WriteRemoved(k)
  <2>1. UNCHANGED <<members, active, stale, guests, strays>>
    BY <1>21 DEF WriteRemoved, memory, history
  <2> QED BY <1>3, <1>4, <1>21, <2>1 DEF WriteRemoved, At, Settled, Steps, c
<1>22. CASE Unregister(k)
  <2>1. /\ UNCHANGED <<members, guests, strays>> /\ active' = active \ {c}
        /\ stale' \subseteq stale
    BY <1>22 DEF Unregister, redis, history, c
  <2> QED BY <1>3, <1>5, <1>22, <2>1 DEF Unregister, At, Settled, Agrees, c
<1>23. CASE RemoveDead(k)
  <2>1. /\ UNCHANGED <<members, guests, strays>> /\ active' = active \ {c}
        /\ stale' \subseteq stale
        /\ c \in strays /\ call[k].rest \subseteq strays /\ call[k].kind = "dead"
    BY <1>3, <1>23 DEF RemoveDead, redis, history, c
  <2>2. CASE Goto(k, "flag")
    BY <1>4, <2>1, <2>2 DEF Steps
  <2>3. ASSUME NEW d \in call[k].rest,
               call' = [call EXCEPT ![k].step = "srem", ![k].id = d, ![k].rest = @ \ {d}]
        PROVE  MembersInv'
    BY <1>1, <2>1, <2>3, NextDead DEF c
  <2> QED BY <1>23, <2>2, <2>3 DEF RemoveDead
<1>24. CASE FlagRebalance(k)
  <2>1. UNCHANGED <<members, active, stale, guests, strays>>
    BY <1>24 DEF FlagRebalance, redis, history
  <2>2. c \in strays
    BY <1>1, <1>3, <1>24 DEF FlagRebalance, At, GoroutineOK, Settled
  <2> QED BY <1>5, <1>24, <2>1, <2>2 DEF FlagRebalance
<1> QED
  BY <1>9, <1>10, <1>11, <1>12, <1>13, <1>14, <1>15, <1>16, <1>17, <1>18, <1>19,
     <1>20, <1>21, <1>22, <1>23, <1>24 DEF Proceed

LEMMA NextAgrees ==
  ASSUME IInv, MembersInv, [Next]_vars, Polite, "redis" \notin FaultKinds
  PROVE  MembersInv'
<1>1. CASE UNCHANGED vars
  BY <1>1, MembersUntouched DEF vars, redis, memory
<1>2. CASE CollectDead
  BY <1>2, CollectDeadAgrees
<1>3. CASE StartRebalance \/ FinishRebalance \/ TopicError
  BY <1>3, MembersUntouched DEF StartRebalance, FinishRebalance, TopicError, redis
<1>4. ASSUME NEW d \in Consumers, FallSilent(d) PROVE MembersInv'
  <2>1. /\ stale' = stale \cup {d} /\ strays' = strays \cup {d}
        /\ UNCHANGED <<members, active, guests, call>>
    BY <1>4 DEF FallSilent, redis
  <2> QED BY <2>1 DEF MembersInv
<1>5. CASE Restart
  <2>1. /\ stale' = {} /\ strays' = {} /\ active' = {} /\ members' = members
        /\ guests' = members
        /\ \A k \in Goroutines : call'[k] = Idle
    BY <1>5 DEF Restart, redis
  <2>2. Idle.step = "idle" /\ Idle.id = NoConsumer
    BY DEF Idle
  <2> QED BY <2>1, <2>2, GroupAssumption DEF MembersInv, Settled, Agrees
<1>6. ~\E k \in Goroutines : RedisError(k)
  BY DEF RedisError, Fault
<1> QED BY <1>1, <1>2, <1>3, <1>4, <1>5, <1>6, RequestAgrees, ProceedAgrees DEF Next

\* While no command fails and consumers wait for their answers, Redis and the
\* process agree on every consumer that did not fall silent, however many joins,
\* pulls, leaves, removals of other consumers and restarts interleave: the active
\* ones are members, and the other members are the guests that a pull or a restart
\* explains (JoinConsumerGroup, LeaveConsumerGroup, ensureConsumerInGroup).
THEOREM MembersAlwaysAgree ==
  ASSUME Polite, "redis" \notin FaultKinds
  PROVE  Spec => []MembersAgree
<1>1. Init => MembersInv
  BY GroupAssumption DEF Init, Idle, MembersInv, Settled, Agrees
<1>2. IInv /\ MembersInv /\ [Next]_vars => MembersInv'
  BY NextAgrees
<1>3. MembersInv => MembersAgree
  <2> SUFFICES ASSUME MembersInv, NEW c \in Consumers \ strays, ~Changing(c)
               PROVE  Agrees(c, members, active, guests)
    BY DEF MembersAgree, Agrees
  <2>1. CASE \A k \in Goroutines : call[k].id # c
    BY <2>1 DEF MembersInv
  <2>2. ASSUME NEW k \in Goroutines, call[k].id = c PROVE Agrees(c, members, active, guests)
    <3>1. Settled(call[k], members, active, guests) /\ call[k].step # "idle"
      BY <2>2, GroupAssumption DEF MembersInv
    <3> QED BY <2>2, <3>1 DEF Settled, Changing
  <2> QED BY <2>1, <2>2
<1> QED BY <1>1, <1>2, <1>3, Invariant, PTL DEF Spec
-----------------------------------------------------------------------------
(* The record of the group, when one request is served at a time: within a *)
(* request the set of members is one command ahead of it.                  *)

RecordFollows(g, ids, mem) ==
  /\ g.step \in {"readAdd", "writeAdd"} => mem = ids \cup {g.id}
  /\ g.step \in {"readRemove", "writeRemove"} => mem = ids \ {g.id}
  /\ g.step \notin {"readAdd", "writeAdd", "readRemove", "writeRemove"} => mem = ids
  /\ g.step \in {"writeAdd", "writeRemove"} => g.seen = ids

RecordInv(k) ==
  /\ stale = {}
  /\ At(heartbeat, "idle")
  /\ group = NoGroup =>
       /\ members = {}
       /\ call[k].step \notin {"sadd", "readAdd", "writeAdd", "writeRemove"}
  /\ group # NoGroup => ~At(k, "create") /\ RecordFollows(call[k], group, members)

LEMMA ProceedFollows ==
  ASSUME IInv, NEW k, Calls = {k}, RecordInv(k), Proceed(k)
  PROVE  RecordInv(k)'
<1> DEFINE g == call[k]
<1>1. /\ k \in Goroutines /\ heartbeat \in Goroutines /\ heartbeat # k
      /\ call \in [Goroutines -> Goroutine] /\ g \in Goroutine /\ GoroutineOK(g)
  BY GroupAssumption DEF IInv, CallsOK, Goroutines
<1>2. members \subseteq Consumers /\ group \in (SUBSET Consumers) \cup {NoGroup}
  BY DEF IInv, TypeOK
<1>3. \A S : S \in SUBSET Consumers => S # NoGroup
  BY GroupAssumption
<1>4. ASSUME NEW next \in Goroutine, call' = [call EXCEPT ![k] = next],
             stale' = {},
             group' = NoGroup =>
               /\ members' = {}
               /\ next.step \notin {"sadd", "readAdd", "writeAdd", "writeRemove"},
             group' # NoGroup => next.step # "create" /\ RecordFollows(next, group', members')
      PROVE  RecordInv(k)'
  BY <1>1, <1>4 DEF RecordInv, At
<1>5. ASSUME NEW step \in Steps
      PROVE  /\ Goto(k, step) => call' = [call EXCEPT ![k] = [g EXCEPT !.step = step]]
             /\ [g EXCEPT !.step = step] \in Goroutine
             /\ [g EXCEPT !.step = step].step = step
             /\ [g EXCEPT !.step = step].id = g.id
             /\ [g EXCEPT !.step = step].seen = g.seen
  BY <1>1 DEF Goto, Goroutine
<1>6. Idle \in Goroutine /\ Idle.step = "idle"
  BY DEF Idle, Goroutine, Steps
<1>7. ASSUME NEW step \in {"writeAdd", "writeRemove"}, NEW S \in SUBSET Consumers
      PROVE  /\ [g EXCEPT !.step = step, !.seen = S] \in Goroutine
             /\ [g EXCEPT !.step = step, !.seen = S].step = step
             /\ [g EXCEPT !.step = step, !.seen = S].id = g.id
             /\ [g EXCEPT !.step = step, !.seen = S].seen = S
  BY <1>1 DEF Goroutine, Steps
<1>8. g.step # "idle" => g.id \in Consumers
  BY <1>1 DEF GoroutineOK
<1> HIDE DEF g
<1>9. ASSUME NEW step \in Steps \ {"create", "sadd", "readAdd", "writeAdd",
                                     "readRemove", "writeRemove"},
             call[k].step \notin {"readAdd", "writeAdd", "readRemove", "writeRemove"},
             Goto(k, step), stale' = {}, UNCHANGED <<group, members>>
      PROVE  RecordInv(k)'
  BY <1>4, <1>5, <1>9 DEF RecordInv, RecordFollows, g
<1>10. ASSUME Return(k), stale' = {}, UNCHANGED <<group, members>>,
              g.step \notin {"readAdd", "writeAdd", "readRemove", "writeRemove"}
       PROVE  RecordInv(k)'
  BY <1>4, <1>6, <1>10 DEF RecordInv, RecordFollows, Return, g
<1>11. CASE GetGroup(k)
  <2>1. "create" \in Steps /\ "sadd" \in Steps
    BY DEF Steps
  <2>2. g.step = "get" /\ UNCHANGED <<group, members>> /\ stale' = {}
    BY <1>11 DEF GetGroup, At, redis, memory, RecordInv, g
  <2>3. CASE group = NoGroup
    BY <1>4, <1>5, <1>11, <2>1, <2>2, <2>3 DEF GetGroup, RecordInv
  <2>4. CASE group # NoGroup
    BY <1>4, <1>5, <1>11, <2>1, <2>2, <2>4 DEF GetGroup, RecordInv, RecordFollows, g
  <2> QED BY <2>3, <2>4
<1>12. CASE CreateGroup(k)
  <2>1. "sadd" \in Steps /\ group' = {} /\ group' # NoGroup
    BY <1>3, <1>12 DEF Steps, CreateGroup
  <2>2. group = NoGroup /\ members' = {} /\ stale' = {}
    BY <1>12 DEF CreateGroup, RecordInv, At, memory
  <2> QED BY <1>4, <1>5, <1>12, <2>1, <2>2 DEF CreateGroup, RecordFollows
<1>13. CASE AddMember(k)
  <2>1. "readAdd" \in Steps /\ group # NoGroup /\ members = group /\ stale' = {}
    BY <1>13 DEF Steps, AddMember, RecordInv, RecordFollows, At, memory
  <2>2. group' = group /\ members' = members \cup {g.id}
    BY <1>13 DEF AddMember, g
  <2> DEFINE next == [g EXCEPT !.step = "readAdd"]
  <2>10. /\ next \in Goroutine /\ next.step = "readAdd" /\ next.id = g.id /\ next.seen = g.seen
         /\ call' = [call EXCEPT ![k] = next]
    BY <1>5, <1>13, <2>1 DEF AddMember
  <2> HIDE DEF next
  <2>11. group' # NoGroup => RecordFollows(next, group', members')
    BY <2>1, <2>2, <2>10 DEF RecordFollows
  <2> QED BY <1>4, <2>1, <2>2, <2>10, <2>11
<1>14. CASE ReadForAdd(k)
  <2>1. /\ group # NoGroup /\ members = group \cup {g.id} /\ stale' = {}
        /\ UNCHANGED <<group, members>> /\ group \in SUBSET Consumers
    BY <1>2, <1>14 DEF ReadForAdd, RecordInv, RecordFollows, At, redis, memory, g
  <2>2. call' = [call EXCEPT ![k] = [g EXCEPT !.step = "writeAdd", !.seen = group]]
    BY <1>1, <1>14, <2>1 DEF ReadForAdd, g
  <2> QED BY <1>4, <1>7, <2>1, <2>2 DEF RecordFollows
<1>15. CASE WriteAdded(k)
  <2>1. /\ group # NoGroup /\ members = group \cup {g.id} /\ g.seen = group
        /\ stale' = {} /\ members' = members /\ group' = g.seen \cup {g.id}
    BY <1>15 DEF WriteAdded, RecordInv, RecordFollows, At, memory, g
  <2>2. group' # NoGroup
    BY <1>2, <1>3, <2>1
  <2>3. Added(k) \in {"register", "read"} /\ Added(k) \in Steps
    BY DEF Added, Steps
  <2> DEFINE next == [g EXCEPT !.step = Added(k)]
  <2>10. /\ next \in Goroutine /\ next.step = Added(k) /\ next.id = g.id /\ next.seen = g.seen
         /\ call' = [call EXCEPT ![k] = next]
    BY <1>5, <1>15, <2>3 DEF WriteAdded
  <2> HIDE DEF next
  <2>11. group' # NoGroup => RecordFollows(next, group', members')
    BY <2>1, <2>2, <2>3, <2>10 DEF RecordFollows
  <2> QED BY <1>4, <2>1, <2>2, <2>3, <2>10, <2>11
<1>16. CASE Register(k)
  <2>1. "trigger" \in Steps /\ stale' = {} /\ UNCHANGED <<group, members>>
    BY <1>16 DEF Register, Steps, RecordInv, redis
  <2> QED BY <1>9, <1>16, <2>1 DEF Register, At
<1>17. CASE TriggerRebalance(k)
  <2>1. "reply" \in Steps /\ stale' = {} /\ UNCHANGED <<group, members>>
    BY <1>17 DEF TriggerRebalance, Steps, RecordInv, redis
  <2> QED BY <1>9, <1>17, <2>1 DEF TriggerRebalance, At
<1>18. CASE JoinReply(k)
  BY <1>10, <1>18 DEF JoinReply, At, RecordInv, redis, memory, g
<1>19. CASE ReadStream(k)
  <2>1. "beat" \in Steps /\ stale' = {} /\ UNCHANGED <<group, members>>
    BY <1>19 DEF ReadStream, Steps, RecordInv, redis, memory
  <2> QED BY <1>9, <1>19, <2>1 DEF ReadStream, At
<1>20. CASE UpdateHeartbeat(k)
  BY <1>10, <1>20 DEF UpdateHeartbeat, At, RecordInv, redis, g
<1>21. CASE RemoveMember(k)
  <2>1. /\ "readRemove" \in Steps /\ stale' = {} /\ group' = group
        /\ members' = members \ {g.id}
        /\ group = NoGroup => members = {}
        /\ group # NoGroup => members = group
    BY <1>21 DEF Steps, RemoveMember, RecordInv, RecordFollows, At, memory, g
  <2> DEFINE next == [g EXCEPT !.step = "readRemove"]
  <2>10. /\ next \in Goroutine /\ next.step = "readRemove" /\ next.id = g.id /\ next.seen = g.seen
         /\ call' = [call EXCEPT ![k] = next]
    BY <1>5, <1>21, <2>1 DEF RemoveMember
  <2> HIDE DEF next
  <2>11. group' # NoGroup => RecordFollows(next, group', members')
    BY <2>1, <2>10 DEF RecordFollows
  <2> QED BY <1>4, <2>1, <2>10, <2>11
<1>22. CASE ReadForRemove(k)
  <2>1. stale' = {} /\ UNCHANGED <<group, members>>
    BY <1>22 DEF ReadForRemove, RecordInv, redis, memory
  <2>2. CASE group = NoGroup
    <3>1. members = {} /\ "unregister" \in Steps
      BY <2>2 DEF RecordInv, Steps
    <3>2. Goto(k, "unregister")
      BY <1>22, <2>2 DEF ReadForRemove
    <3> QED BY <1>4, <1>5, <2>1, <2>2, <3>1, <3>2
  <2>3. CASE group # NoGroup
    <3>1. /\ members = group \ {g.id} /\ group \in SUBSET Consumers
      BY <1>2, <1>22, <2>3 DEF ReadForRemove, RecordInv, RecordFollows, At, g
    <3>2. call' = [call EXCEPT ![k] = [g EXCEPT !.step = "writeRemove", !.seen = group]]
      BY <1>1, <1>22, <2>3 DEF ReadForRemove, g
    <3> QED BY <1>4, <1>7, <2>1, <2>3, <3>1, <3>2 DEF RecordFollows
  <2> QED BY <2>2, <2>3
<1>23. CASE WriteRemoved(k)
  <2>1. /\ group # NoGroup /\ members = group \ {g.id} /\ g.seen = group
        /\ stale' = {} /\ members' = members /\ group' = g.seen \ {g.id}
        /\ "unregister" \in Steps
    BY <1>23 DEF WriteRemoved, RecordInv, RecordFollows, At, memory, g, Steps
  <2>2. group' # NoGroup
    BY <1>2, <1>3, <2>1
  <2> DEFINE next == [g EXCEPT !.step = "unregister"]
  <2>10. /\ next \in Goroutine /\ next.step = "unregister" /\ next.id = g.id /\ next.seen = g.seen
         /\ call' = [call EXCEPT ![k] = next]
    BY <1>5, <1>23, <2>1 DEF WriteRemoved
  <2> HIDE DEF next
  <2>11. group' # NoGroup => RecordFollows(next, group', members')
    BY <2>1, <2>2, <2>10 DEF RecordFollows
  <2> QED BY <1>4, <2>1, <2>2, <2>10, <2>11
<1>24. CASE Unregister(k)
  BY <1>10, <1>24 DEF Unregister, At, RecordInv, redis, g
<1>25. CASE RemoveDead(k)
  <2>1. stale' = {} /\ UNCHANGED <<group, members>> /\ g.step = "unregister"
    BY <1>25 DEF RemoveDead, RecordInv, redis, At, g
  <2>2. CASE Goto(k, "flag")
    <3>1. "flag" \in Steps
      BY DEF Steps
    <3> QED BY <1>9, <2>1, <2>2, <3>1 DEF g
  <2>3. ASSUME NEW c \in g.rest,
               call' = [call EXCEPT ![k].step = "srem", ![k].id = c, ![k].rest = @ \ {c}]
        PROVE  RecordInv(k)'
    <3> DEFINE next == [g EXCEPT !.step = "srem", !.id = c, !.rest = @ \ {c}]
    <3>1. /\ next \in Goroutine /\ next.step = "srem"
      BY <1>1 DEF Goroutine, Steps
    <3>2. call' = [call EXCEPT ![k] = next]
      BY <1>1, <2>3 DEF g
    <3> HIDE DEF next
    <3> QED BY <1>4, <2>1, <3>1, <3>2 DEF RecordInv, RecordFollows, g
  <2> QED BY <1>25, <2>2, <2>3 DEF RemoveDead, g
<1>26. CASE FlagRebalance(k)
  BY <1>10, <1>26 DEF FlagRebalance, At, RecordInv, redis, g
<1> QED
  BY <1>11, <1>12, <1>13, <1>14, <1>15, <1>16, <1>17, <1>18, <1>19, <1>20, <1>21,
     <1>22, <1>23, <1>24, <1>25, <1>26 DEF Proceed

LEMMA NextFollows ==
  ASSUME NEW k, Calls = {k}, MaxSilences = 0, FaultKinds \subseteq {"topic"},
         IInv, RecordInv(k), [Next]_vars
  PROVE  RecordInv(k)'
<1>1. CASE UNCHANGED <<stale, call, group, members>>
  BY <1>1 DEF RecordInv, At
<1>2. ASSUME NEW c \in Consumers, NEW kind \in Requests, Request(k, kind, c)
      PROVE  RecordInv(k)'
  <2> DEFINE next == [Idle EXCEPT !.step = IF kind = "leave" THEN "srem" ELSE "get",
                                  !.kind = kind, !.id = c]
  <2>1. /\ call' = [call EXCEPT ![k] = next] /\ call[k].step = "idle"
        /\ UNCHANGED <<stale, group, members>>
    BY <1>2 DEF Request, At, redis, memory
  <2>2. next.step \in {"srem", "get"}
    BY DEF Idle
  <2>3. /\ k \in Goroutines /\ heartbeat \in Goroutines /\ heartbeat # k
        /\ call \in [Goroutines -> Goroutine]
    BY GroupAssumption DEF IInv, CallsOK, Goroutines
  <2> HIDE DEF next
  <2>4. call'[k] = next /\ call'[heartbeat] = call[heartbeat]
    BY <2>1, <2>3
  <2> QED BY <2>1, <2>2, <2>4 DEF RecordInv, RecordFollows, At
<1>3. ASSUME Proceed(heartbeat) PROVE FALSE
  BY <1>3 DEF RecordInv, Proceed, At, GetGroup, CreateGroup, AddMember, ReadForAdd,
     WriteAdded, Register, TriggerRebalance, JoinReply, ReadStream, UpdateHeartbeat,
     RemoveMember, ReadForRemove, WriteRemoved, Unregister, RemoveDead, FlagRebalance
<1>4. ASSUME NEW l \in Goroutines, Proceed(l) PROVE RecordInv(k)'
  BY <1>3, <1>4, ProceedFollows DEF Goroutines
<1>5. ASSUME CollectDead PROVE FALSE
  BY <1>5 DEF CollectDead, RecordInv
<1>6. ASSUME NEW c \in Consumers, FallSilent(c) PROVE FALSE
  BY <1>6 DEF FallSilent, IInv, TypeOK
<1>7. ASSUME Restart \/ \E l \in Goroutines : RedisError(l) PROVE FALSE
  BY <1>7 DEF Restart, RedisError, Fault
<1>8. CASE StartRebalance \/ FinishRebalance \/ TopicError \/ UNCHANGED vars
  BY <1>1, <1>8 DEF StartRebalance, FinishRebalance, TopicError, vars, redis, memory
<1> QED BY <1>2, <1>4, <1>5, <1>6, <1>7, <1>8 DEF Next

\* With one request at a time, consumers that are never silent and a Redis that
\* answers, the record lists the members: the updates AddConsumer and
\* RemoveConsumer lose (consumer_repository.go) are lost to concurrency alone.
THEOREM OneAtATimeLosesNothing ==
  ASSUME NEW k, Calls = {k}, MaxSilences = 0, FaultKinds \subseteq {"topic"}
  PROVE  Spec => []RecordListsMembers
<1>1. Init => RecordInv(k)
  BY GroupAssumption DEF Init, Idle, RecordInv, At, Goroutines
<1>2. IInv /\ RecordInv(k) /\ [Next]_vars => RecordInv(k)'
  BY NextFollows
<1>3. RecordInv(k) => RecordListsMembers
  BY DEF RecordInv, RecordFollows, RecordListsMembers, At, Goroutines
<1> QED BY <1>1, <1>2, <1>3, Invariant, PTL DEF Spec
=============================================================================
