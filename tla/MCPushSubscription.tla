------------------------- MODULE MCPushSubscription -------------------------
(* TLC instances of PushSubscription.                                      *)
EXTENDS PushSubscription, TLC

CONSTANTS s1, s2, pl, k1, k2

\* One message the filter drops between two it lets through.
Backlog == <<"a", "b", "c">>
Wanted == {"a", "c"}

Symmetry == Permutations({k1, k2}) \cup Permutations({s1, s2})
=============================================================================
