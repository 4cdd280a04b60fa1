----------------------------- MODULE LossyQueue -----------------------------
(***************************************************************************)
(* What a bounded queue between producers and consumers promises: items    *)
(* leave it in the order they entered, each is handed over at most once,   *)
(* and none is lost unless the queue is full or shut.  A full queue drops  *)
(* the item that is offered or, where that is left open, its earliest one  *)
(* to make room.                                                           *)
(***************************************************************************)
EXTENDS Naturals, Sequences

CONSTANTS
  Items, Capacity,
  EarliestMayGo   \* a full queue may drop its earliest item for the one offered

VARIABLES queue, delivered, dropped, open

lossyVars == <<queue, delivered, dropped, open>>

Queued == {queue[i] : i \in DOMAIN queue}
Fresh == Items \ (Queued \cup delivered \cup dropped)

Init == queue = <<>> /\ delivered = {} /\ dropped = {} /\ open = TRUE

Accept(i) ==
  /\ i \in Fresh
  /\ Len(queue) < Capacity
  /\ queue' = Append(queue, i)
  /\ UNCHANGED <<delivered, dropped, open>>

Drop(i) ==
  /\ i \in Fresh
  /\ Len(queue) = Capacity \/ ~open
  /\ dropped' = dropped \cup {i}
  /\ UNCHANGED <<queue, delivered, open>>

DropEarliest(i) ==
  /\ EarliestMayGo
  /\ i \in Fresh
  /\ Len(queue) = Capacity /\ queue # <<>>
  /\ queue' = Append(Tail(queue), i)
  /\ dropped' = dropped \cup {Head(queue)}
  /\ UNCHANGED <<delivered, open>>

Deliver ==
  /\ queue # <<>>
  /\ delivered' = delivered \cup {Head(queue)}
  /\ queue' = Tail(queue)
  /\ UNCHANGED <<dropped, open>>

Shut == open' = FALSE /\ UNCHANGED <<queue, delivered, dropped>>

Next == Deliver \/ Shut \/ \E i \in Items : Accept(i) \/ Drop(i) \/ DropEarliest(i)

Spec == Init /\ [][Next]_lossyVars
=============================================================================
