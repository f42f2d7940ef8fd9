CONSTANT
  MaxRuns = 3
SPECIFICATION Spec
INVARIANTS FreshChain NothingLeft
CHECK_DEADLOCK FALSE
