CONSTANTS
  Stakes <- MCStakesAboveTheEdge
  Calls <- MCCallOfRewards
  MaxIdle = 3
SPECIFICATION Spec
INVARIANT EnoughVotingPower
CHECK_DEADLOCK FALSE
