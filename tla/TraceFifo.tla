----------------------------- MODULE TraceFifo -----------------------------
(***************************************************************************)
(* What a bounded span store promises, without the ring: it remembers the  *)
(* last Capacity traces in the order in which their first span arrived, and *)
(* a span of a forgotten trace starts that trace anew.                     *)
(***************************************************************************)
EXTENDS Integers, Sequences

CONSTANTS Spans, Capacity   \* Capacity > 0

VARIABLES
  order,    \* the live traces, the oldest first
  content   \* the spans of each live trace, in arrival order

fifoVars == <<order, content>>

Live == {order[i] : i \in DOMAIN order}

Init == order = <<>> /\ content = [t \in {} |-> <<>>]

Extend(s) ==
  /\ s.trace \in Live
  /\ content' = [content EXCEPT ![s.trace] = Append(@, s)]
  /\ UNCHANGED order

Enter(s) ==
  /\ s.trace \notin Live
  /\ order' = IF Len(order) = Capacity
                THEN Append(Tail(order), s.trace)
                ELSE Append(order, s.trace)
  /\ content' = [t \in {order'[i] : i \in DOMAIN order'} |->
                   IF t = s.trace THEN <<s>> ELSE content[t]]

Forget == order' = <<>> /\ content' = [t \in {} |-> <<>>]

Next == Forget \/ \E s \in Spans : Extend(s) \/ Enter(s)

Spec == Init /\ [][Next]_fifoVars
=============================================================================
