\* The deployed system: unbounded store, each span delivered at most once, one stop of the store.
SPECIFICATION MCFairSpec
CONSTANTS
  t1 = t1  t2 = t2  web = web  db = db  get = get  put = put
  NoTrace = NoTrace
  AnyOperation = AnyOperation
  Master = Master
  Traces <- MCTraces
  Services <- MCServices
  Operations <- MCOperations
  Spans <- MCSpans
  Srvs <- NoSrvs
  WindowStart = 2
  WindowEnd = 9
  DurationMin = 1
  DurationMax = 8
  SearchDepth = 2
  MaxCopies = 1
  MaxTraces = 0
  MaxRestarts = 1
INVARIANTS
  NoCrashUndisturbed
  NoSearchableTraceMissed
  BucketsShareStatus
  CacheIsEarlierView
  GoodRootsAreRoots
  TreeCoversTrace
PROPERTY
  PollingEnds
