------------------------- MODULE MCPartitionManager -------------------------
(* TLC instance of PartitionManager.                                       *)
EXTENDS PartitionManager
=============================================================================
