\* One batch sent up to twice, one worker, a queue of one place, a storage that may
\* hang, and Stop at any time.
SPECIFICATION MCSpec
CONSTANTS
  k = k
  r = r
  s = s
  t = t
  Calls = {k}
  Batch <- MCBatch
  MaxAttempts = 2
  Rejected = {r}
  NoProcess = {t}
  Items <- MCItems
  Producers <- MCHandlers
  Consumers = {c1}
  Capacity = 1
  HasHandler = TRUE
  NoItem = NoItem
INVARIANTS
  StopWaitsForConsumers
  AcknowledgedIsAccepted
PROPERTIES
  StopReturns
  AnsweredEvenIfHung
  AcknowledgedIsSaved
  ImplementsLossyQueue
