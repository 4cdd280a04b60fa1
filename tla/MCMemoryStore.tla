--------------------------- MODULE MCMemoryStore ---------------------------
(***************************************************************************)
(* TLC instance of MemoryStore: four traces, five spans, a ring of three.  *)
(***************************************************************************)
EXTENDS MemoryStore

CONSTANTS t1, t2, t3, t4, web, db, get, put,
          MaxCopies   \* how often one span may be in the store

S(id, t, v, o, b) ==
  [id |-> id, trace |-> t, service |-> v, operation |-> o,
   start |-> b, duration |-> 1]

MCTraces == {t1, t2, t3, t4}
MCServices == {web, db}
MCOperations == {get, put}

\* t1 has two spans, so that its first one to arrive need not start first.
MCSpans ==
  {S(1, t1, web, get, 1), S(2, t1, db, put, 4), S(3, t2, web, get, 2),
   S(4, t3, web, put, 3), S(5, t4, db, get, 5)}

Copies(s) ==
  IF s.trace \in Stored
    THEN Cardinality({i \in DOMAIN traces[s.trace] : traces[s.trace][i] = s})
    ELSE 0

MCNext ==
  \/ \E s \in Spans : Copies(s) < MaxCopies /\ WriteSpan(s)
  \/ Restart

MCSpec == StoreInit /\ [][MCNext]_storeVars
=============================================================================
