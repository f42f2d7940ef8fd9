CONSTANTS
  Stakes <- MCStakesAboveTheEdge
  Calls <- MCCallOfTracker
  MaxIdle = 3
SPECIFICATION Spec
INVARIANT JailedByTheCall
CHECK_DEADLOCK FALSE
