------------------------------ MODULE MCGather ------------------------------
(***************************************************************************)
(* TLC instances of Gather.                                                *)
(***************************************************************************)
EXTENDS Gather

CONSTANTS t1, t2, web, db, get, put

\* A span of trace t with the ids of its parents, starting at b.
S(t, n, v, o, b, d, parents) ==
  [id |-> n, trace |-> t, service |-> v, operation |-> o, start |-> b,
   duration |-> d,
   refs |-> [k \in DOMAIN parents |-> [id |-> parents[k], trace |-> t]]]

MCTraces == {t1, t2}
MCServices == {web, db}
MCOperations == {get, put}
NoSrvs == [v \in {} |-> {}]

\* t1: a root with a child that has a child of its own; t2: a root alone.
MCSpans ==
  {S(t1, "a", web, get, 3, 6, <<>>), S(t1, "b", db, put, 4, 4, <<"a">>),
   S(t1, "c", db, get, 5, 1, <<"b">>), S(t2, "d", web, put, 6, 1, <<>>)}

\* t1: a root, its child, outside the duration limits, and a span with two
\* parents; t2: a span that refers to another trace.
FaultSpans ==
  {S(t1, "a", web, get, 3, 6, <<>>), S(t1, "b", db, put, 4, 0, <<"a">>),
   S(t1, "c", db, get, 6, 1, <<"a", "b">>),
   [S(t2, "d", web, get, 6, 1, <<"a">>) EXCEPT !.refs[1].trace = t1]}

\* A services map that names the operation of one service only.
OneSrvs == [v \in MCServices |-> IF v = web THEN {get} ELSE {}]

\* The program has ended; anything else that cannot move is a deadlock.
MCDone == pc \in {"done", "crashed"} /\ UNCHANGED vars
MCNext == GNext \/ MCDone
MCSpec == GInit /\ [][MCNext]_vars
MCFairSpec == MCSpec /\ WF_vars(Tprof)
=============================================================================
