------------------------------- MODULE Arrows -------------------------------
(***************************************************************************)
(* The arrow representation of one span (get_arrows, src/utility.py): the  *)
(* begin and the end of the span and of each of its callees.               *)
(*                                                                         *)
(* A span is a record [start, end, callees], callees a function from 1..n, *)
(* the order in which the callees arrived, to records [start, end].        *)
(***************************************************************************)
EXTENDS Integers, FiniteSets

Self == 0    \* the name of the span's own arrows; a callee's name is its number

Arrow(superscript, name, time) ==
  [superscript |-> superscript, name |-> name, time |-> time]

Begin(sp) == Arrow("begin", Self, sp.start)
Terminate(sp) == Arrow("terminate", Self, sp.end)
Forward(sp, c) == Arrow("forward", c, sp.callees[c].start)
Receive(sp, c) == Arrow("receive", c, sp.callees[c].end)

ArrowsOf(sp) ==
  {Begin(sp), Terminate(sp)}
    \cup {Forward(sp, c) : c \in DOMAIN sp.callees}
    \cup {Receive(sp, c) : c \in DOMAIN sp.callees}

\* The superscripts in the order of their strings.
Rank == [begin |-> 1, forward |-> 2, receive |-> 3, terminate |-> 4]

\* The sort key is (time, superscript); the sort is stable.
Before(a, b) ==
  \/ a.time < b.time
  \/ a.time = b.time /\ Rank[a.superscript] < Rank[b.superscript]
  \/ a.time = b.time /\ a.superscript = b.superscript /\ a.name < b.name

\* The arrows in the order of the sort, which is total: as many arrows are before
\* an arrow as its position says.
SortedArrows(sp) ==
  [k \in 1..Cardinality(ArrowsOf(sp)) |->
     CHOOSE a \in ArrowsOf(sp) : Cardinality({b \in ArrowsOf(sp) : Before(b, a)}) = k - 1]
=============================================================================
