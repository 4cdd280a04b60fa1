\* A services map, a ring of one trace, duplicated and ill-formed spans, one stop.
SPECIFICATION MCSpec
CONSTANTS
  t1 = t1  t2 = t2  web = web  db = db  get = get  put = put
  NoTrace = NoTrace
  AnyOperation = AnyOperation
  Master = Master
  Traces <- MCTraces
  Services <- MCServices
  Operations <- MCOperations
  Spans <- FaultSpans
  Srvs <- OneSrvs
  WindowStart = 2
  WindowEnd = 9
  DurationMin = 1
  DurationMax = 8
  SearchDepth = 1
  MaxCopies = 2
  MaxTraces = 1
  MaxRestarts = 1
INVARIANTS
  CrashHasCause
