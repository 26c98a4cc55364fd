-------------------------- MODULE MCConsumerGroup --------------------------
(* TLC instances of ConsumerGroup.                                         *)
EXTENDS ConsumerGroup, TLC

CONSTANTS c1, c2, c3, k1, k2

Symmetry == Permutations({c1, c2, c3}) \cup Permutations({k1, k2})
=============================================================================
