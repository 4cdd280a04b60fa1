\* Three messages, two workers, and an assignment that ends or a crash at any time.
SPECIFICATION FairSpec
CONSTANTS
  NumMessages = 3
  Workers = {w1, w2}
  MaxAttempts = 1
  MaxAssignments = 2
INVARIANTS
  CommittedWereStored
  HeadIsLastMarked
PROPERTIES
  ImplementsAtLeastOnce
  EverythingCommitted
CHECK_DEADLOCK FALSE
