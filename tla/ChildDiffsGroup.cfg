\* Every group of two traces with the same tree of names.
SPECIFICATION MCSpec
CONSTANTS
  Traces <- MCTraces
  NumTraces = 2
INVARIANTS
  RaisesOnlyForTwins
  OneCallPerSlot
