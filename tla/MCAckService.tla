---------------------------- MODULE MCAckService ----------------------------
(* TLC instances of AckService.                                            *)
EXTENDS AckService, TLC

CONSTANTS m1, m2, d1, d2

OneMessage == {m1}
TwoMessages == {m1, m2}
OneAndTwoIds == {m1, d1, d2}
TwoAndTwoIds == {m1, m2, d1, d2}

\* The limit of the configuration, and one below it.
DefaultLimit == [i \in {m1} |-> 0]
MixedLimits == [i \in {m1, m2} |-> IF i = m1 THEN 0 ELSE 1]
=============================================================================
