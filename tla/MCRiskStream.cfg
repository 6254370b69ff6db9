\* Three records, three errors, a crash.
SPECIFICATION FairSpec
CONSTANTS
  LotSize = 100
  LossLimit = 3
  PositionLimit = 10
  VarLimit = 5
  MaxAge = 300
  MaxAttempts = 3
  MaxRecords = 3
  MaxFaults = 3
  MaxCrashes = 1
INVARIANTS
  CommittedWasHandled
  DecidedAgainOnlyAfterFailure
  DeadSignalsHadACommitFailure
PROPERTIES
  StreamCatchesUp
