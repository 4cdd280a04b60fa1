\* One partition that is assigned, taken back and assigned again, and Close at any time.
SPECIFICATION FairConsumerSpec
CONSTANTS
  a = a
  Claims <- MCClaims
INVARIANTS
  OneHandlerPerPartition
  KillsOverHeldPartition
PROPERTIES
  CloseReturnsIfStarted
  AssignmentIsTakenUp
CHECK_DEADLOCK FALSE
