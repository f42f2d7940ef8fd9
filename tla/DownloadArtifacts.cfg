CONSTANTS
  Repos <- MCRepos
  Contracts <- MCContracts
  Attempts = 2
SPECIFICATION Spec
INVARIANTS TypeOK ReportedVerified
PROPERTIES NothingOverwritten Ends
CHECK_DEADLOCK FALSE
