--------------------------- MODULE MCTopicCatalog ---------------------------
(* TLC instances of TopicCatalog.                                          *)
EXTENDS TopicCatalog, TLC

Symmetry == Permutations(Calls)
=============================================================================
