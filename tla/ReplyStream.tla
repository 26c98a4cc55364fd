---------------------------- MODULE ReplyStream ----------------------------
(***************************************************************************)
(* What the client of one connection can count on: the replies to its      *)
(* messages reach it in the order they fell due, and what is lost is lost  *)
(* from some reply on. Once a reply is lost every later one is lost too,   *)
(* so what was received tells the client how far the server got.           *)
(***************************************************************************)
EXTENDS Integers, Sequences

VARIABLES
  due,   \* the number of replies that fell due
  lost,  \* how many of the last ones will never be received
  got    \* the replies received, each by its number

vars == <<due, lost, got>>

Init ==
  /\ due = 0
  /\ lost = 0
  /\ got = <<>>

Answer ==
  /\ due' = due + 1
  /\ lost' = lost + 1 \/ (lost = 0 /\ lost' = 0)
  /\ UNCHANGED got

\* The stream breaks off: what is under way is lost in part or as a whole.
Lose ==
  /\ lost' \in lost .. (due - Len(got))
  /\ UNCHANGED <<due, got>>

Receive ==
  /\ Len(got) < due - lost
  /\ got' = Append(got, Len(got) + 1)
  /\ UNCHANGED <<due, lost>>

Next == Answer \/ Lose \/ Receive

Spec == Init /\ [][Next]_vars
=============================================================================
