\* Three packets, two processors, and Stop at any time, also before Serve.
SPECIFICATION FairSpec
CONSTANTS
  Processors = {1, 2}
  Buffers = {1, 2, 3, 4}
  maxQueueSize = 1
  NumPackets = 3
INVARIANTS
  HandledOnce
  StopDrains
PROPERTIES
  ServerIsQueue
  StopEventuallyReturns
  ReaderExits
CHECK_DEADLOCK FALSE
