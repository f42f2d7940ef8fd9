CONSTANTS
  MaxStoreFailures = 2
  AlsoTakes <- MCAlsoTakes
SPECIFICATION GenesisSpec
INVARIANTS AddressesRight StartedComplete GenesisRuns
CHECK_DEADLOCK FALSE
