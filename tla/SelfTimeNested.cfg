\* Every placement of three callees that start one instant before the span or later.
SPECIFICATION MCSpec
CONSTANTS
  NumCallees = 3
  MaxTime = 4
  MaxSkew = 1
INVARIANTS
  SelfTimeIsUncovered
  SelfTimeMissesNothing
