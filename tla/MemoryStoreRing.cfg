\* A ring of three slots under four traces: every trace is evicted and
\* re-opened in every order.
SPECIFICATION MCSpec
CONSTANTS
  t1 = t1  t2 = t2  t3 = t3  t4 = t4
  web = web  db = db  get = get  put = put
  NoTrace = NoTrace
  AnyOperation = AnyOperation
  MaxTraces = 3
  MaxCopies = 2
  Traces <- MCTraces
  Services <- MCServices
  Operations <- MCOperations
  Spans <- MCSpans
INVARIANTS
  RingMatchesStore
  StoredIsIndexed
  NewestReturned
PROPERTY
  KeepsNewestTraces
