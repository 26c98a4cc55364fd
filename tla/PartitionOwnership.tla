------------------------- MODULE PartitionOwnership -------------------------
(***************************************************************************)
(* What sharing out partitions promises. The broker does it twice, in two  *)
(* ways: a consumer group deals out ranges (ConsumerGroup), the topic      *)
(* service deals them round (PartitionManager). Both keep this promise:    *)
(* partitions change hands only when they are dealt, to all members at     *)
(* once, every partition to one of them, in shares of equal size or larger *)
(* by one; between two deals a member can only give up its share.          *)
(***************************************************************************)
EXTENDS Integers, FiniteSets

CONSTANTS
  Consumers,
  Partitions  \* the partitions there may be

VARIABLES
  parts,    \* the partitions there are
  members,  \* the consumers they are dealt to
  owns      \* the partitions of each consumer

vars == <<parts, members, owns>>
-----------------------------------------------------------------------------
NobodyOwns == [c \in Consumers |-> {}]

Init ==
  /\ parts \in SUBSET Partitions
  /\ members = {}
  /\ owns = NobodyOwns

\* Everybody is forgotten; the partitions may be others.
Reset ==
  /\ parts' \in SUBSET Partitions
  /\ members' = {}
  /\ owns' = NobodyOwns

\* A member that joins again starts over.
Join(c) ==
  /\ members' = members \cup {c}
  /\ owns' = [owns EXCEPT ![c] = {}]
  /\ UNCHANGED parts

Leave(c) ==
  /\ members' = members \ {c}
  /\ owns' = [owns EXCEPT ![c] = {}]
  /\ UNCHANGED parts

\* The ways to deal the partitions P to the consumers C.
Deals(P, C) ==
  {deal \in [Consumers -> SUBSET P] :
     /\ \A c \in Consumers \ C : deal[c] = {}
     /\ \A p \in P : \E c \in C : p \in deal[c]
     /\ \A c, d \in C : c # d => deal[c] \cap deal[d] = {}
     /\ \A c, d \in C : Cardinality(deal[c]) <= Cardinality(deal[d]) + 1}

Deal ==
  /\ members # {}
  /\ owns' \in Deals(parts, members)
  /\ UNCHANGED <<parts, members>>

Next ==
  \/ Reset
  \/ \E c \in Consumers : Join(c) \/ Leave(c)
  \/ Deal

Spec == Init /\ [][Next]_vars
=============================================================================
