\* Groups of two traces of a span with two callees, of the same operation or not.
SPECIFICATION MCSpec
CONSTANTS
  NumCallees = 2
  Programs <- MCPrograms
  MaxTime = 4
  NumTraces = 2
INVARIANTS
  SameOrderReplayedAtMean
  ChildDiffCoversSubspan
