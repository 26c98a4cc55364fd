---------------------- MODULE PartitionOwnershipProofs ----------------------
(* What follows from the promise of PartitionOwnership for those who keep  *)
(* it, for any consumers and partitions.                                   *)
EXTENDS PartitionOwnership, TLAPS

\* A partition there is has at most one owner, and that one is a member.
Exclusive ==
  /\ members \in SUBSET Consumers
  /\ owns \in [Consumers -> SUBSET parts]
  /\ \A c \in Consumers \ members : owns[c] = {}
  /\ \A c, d \in Consumers : c # d => owns[c] \cap owns[d] = {}

LEMMA NobodyIsExclusive ==
  ASSUME members = {}, owns = NobodyOwns
  PROVE  Exclusive
BY DEF Exclusive, NobodyOwns

LEMMA JoinOrLeaveStaysExclusive ==
  ASSUME Exclusive, NEW c \in Consumers, Join(c) \/ Leave(c)
  PROVE  Exclusive'
<1>1. /\ owns' = [owns EXCEPT ![c] = {}] /\ parts' = parts
      /\ members' \in SUBSET Consumers
      /\ members \subseteq members' \cup {c}
  BY DEF Join, Leave, Exclusive
<1>2. \A d \in Consumers : owns'[d] = IF d = c THEN {} ELSE owns[d]
  BY <1>1 DEF Exclusive
<1>3. owns' \in [Consumers -> SUBSET parts']
  BY <1>1 DEF Exclusive
<1> QED BY <1>1, <1>2, <1>3 DEF Exclusive

LEMMA DealIsExclusive ==
  ASSUME Exclusive, Deal
  PROVE  Exclusive'
<1>1. /\ owns' \in [Consumers -> SUBSET parts] /\ parts' = parts /\ members' = members
      /\ \A c \in Consumers \ members : owns'[c] = {}
      /\ \A c, d \in members : c # d => owns'[c] \cap owns'[d] = {}
  BY DEF Deal, Deals
<1>2. ASSUME NEW c \in Consumers, NEW d \in Consumers, c # d
      PROVE  owns'[c] \cap owns'[d] = {}
  BY <1>1, <1>2
<1> QED BY <1>1, <1>2 DEF Exclusive

\* Whoever shares partitions out this way never gives one to two consumers, or
\* to one that is no member: what rebalanceConsumerGroup and RebalancePartitions
\* are both relied on for.
THEOREM OwnershipIsExclusive == Spec => []Exclusive
<1>1. Init => Exclusive
  BY NobodyIsExclusive DEF Init
<1>2. Exclusive /\ [Next]_vars => Exclusive'
  <2> SUFFICES ASSUME Exclusive, [Next]_vars PROVE Exclusive'
    OBVIOUS
  <2>1. CASE Reset
    BY <2>1 DEF Reset, Exclusive, NobodyOwns
  <2>2. CASE UNCHANGED vars
    BY <2>2 DEF vars, Exclusive
  <2> QED BY <2>1, <2>2, JoinOrLeaveStaysExclusive, DealIsExclusive DEF Next
<1> QED BY <1>1, <1>2, PTL DEF Spec

\* A consumer gains a partition only by a deal, after which no partition is
\* nobody's and no member has two more than another: no join, leave or death
\* moves a partition by itself (rebalanceConsumerGroup, RebalancePartitions).
THEOREM GainsAreDeals ==
  Spec => [][\A c \in Consumers :
               owns'[c] \subseteq owns[c] \/ owns' \in Deals(parts', members')]_vars
<1> DEFINE Gains == \A c \in Consumers :
                      owns'[c] \subseteq owns[c] \/ owns' \in Deals(parts', members')
<1>1. Exclusive /\ [Next]_vars => [Gains]_vars
  <2> SUFFICES ASSUME Exclusive, Next PROVE Gains
    OBVIOUS
  <2>1. CASE Reset
    BY <2>1 DEF Reset, NobodyOwns
  <2>2. ASSUME NEW c \in Consumers, Join(c) \/ Leave(c) PROVE Gains
    BY <2>2 DEF Join, Leave, Exclusive
  <2>3. CASE Deal
    <3>1. owns' \in Deals(parts', members')
      BY <2>3 DEF Deal
    <3> QED BY <3>1
  <2> QED BY <2>1, <2>2, <2>3 DEF Next
<1> QED BY <1>1, OwnershipIsExclusive, PTL DEF Spec
=============================================================================
