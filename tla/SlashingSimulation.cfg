CONSTANTS
  Stakes <- MCStakes
  Calls <- MCCalls
  MaxIdle = 3
SPECIFICATION Spec
INVARIANTS Jailed QuorumKept
CHECK_DEADLOCK FALSE
