--------------------------- MODULE AtLeastOnceLog ---------------------------
(***************************************************************************)
(* What the consumer of a log of messages promises: messages are dealt     *)
(* with in any order and any number of times, and the position the log     *)
(* keeps for the consumer moves only forward, over messages that have been *)
(* dealt with.                                                             *)
(***************************************************************************)
EXTENDS Naturals

CONSTANT NumMessages   \* the messages are 1..NumMessages

VARIABLES
  dealtWith,   \* messages the consumer has finished
  position     \* the last message it need not be given again

logVars == <<dealtWith, position>>

Init == dealtWith = {} /\ position = 0

Finish(o) ==
  /\ dealtWith' = dealtWith \cup {o}
  /\ UNCHANGED position

MoveTo(o) ==
  /\ o > position
  /\ 1..o \subseteq dealtWith
  /\ position' = o
  /\ UNCHANGED dealtWith

Next == \E o \in 1..NumMessages : Finish(o) \/ MoveTo(o)

Spec == Init /\ [][Next]_logVars
=============================================================================
