\* Every tree of six spans with two operations.
SPECIFICATION MCSpec
CONSTANTS
  NumSpans = 6
  Names = {"bug", "other"}
  Bug = "bug"
  Extends <- MCExtends
INVARIANTS
  PathIsRoute
  FindsUnlessHidden
  ShowsTheInvocation
