-------------------------- MODULE DeadLetterLedger --------------------------
(***************************************************************************)
(* What moving a message to the dead letter queue promises, whatever       *)
(* crashes or runs at the same time: the letter is written ahead of the    *)
(* mark. Letters are written once, for good, and a message is marked dead  *)
(* only if a letter about it can be read. A mark may be undone (a          *)
(* delivery overwrites it); a letter may not.                              *)
(***************************************************************************)
CONSTANTS Ids, NoId

VARIABLES
  letters,  \* the message each letter is about, NoId for what is no letter
  dead      \* the messages marked dead

vars == <<letters, dead>>

Init ==
  /\ letters = [i \in Ids |-> NoId]
  /\ dead = {}

WriteLetter(d, m) ==
  /\ letters[d] = NoId
  /\ letters' = [letters EXCEPT ![d] = m]
  /\ UNCHANGED dead

MarkDead(m) ==
  /\ \E d \in Ids : letters[d] = m
  /\ dead' = dead \cup {m}
  /\ UNCHANGED letters

Revive(m) ==
  /\ dead' = dead \ {m}
  /\ UNCHANGED letters

Next ==
  \E m \in Ids : \/ \E d \in Ids : WriteLetter(d, m)
                 \/ MarkDead(m)
                 \/ Revive(m)

Spec == Init /\ [][Next]_vars
=============================================================================
