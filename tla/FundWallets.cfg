CONSTANTS
  Call <- MCCall
  Wallet = 1
  MaxRetries = 3
  Genesis <- MCGenesis
  MaxRuns = 2

SPECIFICATION Spec
INVARIANTS TypeOK FundedOnSuccess EnoughFunds
PROPERTY SetupEnds
CHECK_DEADLOCK FALSE
