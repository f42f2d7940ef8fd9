CONSTANTS
  DirListing <- MCDirListing
  SuiteFile <- MCSuiteFile
  SyncFile <- MCSyncFile
  Network <- MCNetwork
  WALLETS_PER_TEST_FILE = 2
  PREFUNDED_WALLETS_COUNT = 3
  MaxSequence <- MCMaxSequence

SPECIFICATION Spec
INVARIANTS TypeOK WalletsUnique MismatchIsOwnFault InFlightAlone
PROPERTY PoolSpec
CHECK_DEADLOCK FALSE
