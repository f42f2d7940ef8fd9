CONSTANTS
  Call <- MCCall
  Wallet = 1
  MaxRetries = 3
  Genesis <- MCGenesis
  MaxRuns = 1

SPECIFICATION Spec
INVARIANTS FundedOnce
CHECK_DEADLOCK FALSE
