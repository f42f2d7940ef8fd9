CONSTANTS
  Query <- MCQuery
  numAttempts = 2
  MaxRemote = 3
  MaxLocal = 3
  ShortPeriod = 4
  LongPeriod = 12
  CheckBlocks = 6
  MaxLag = 1
  MaxSlow = 1
  Others = 5
  MaxGivenUp = 1
  MaxPause = 2
  VotingBlocks = 10
  SleepBlocks = 9
  VoteBlocks = 5
  OtherUploads = 2
  LateExecutions = 1
SPECIFICATION RunSpec
INVARIANTS RunTypeOK CallbacksNewer BalancesEqual DelegationsRight RelayedByHand
  AcksRight NotOverlooked WaitSuffices FailuresCounted MatchHolds AmountsRight
  RightBinaries ProposalsPass
PROPERTIES WaitEnds UpdateKeepsOthers FailureNoticed
CHECK_DEADLOCK FALSE
