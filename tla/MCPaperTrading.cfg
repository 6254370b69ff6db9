\* Two clients of one session, another session, two records, a failure.
SPECIFICATION FairSpec
CONSTANTS
  s1 = s1
  s2 = s2
  Sessions = {s1, s2}
  StrategyOf <- MCStrategyOf
  Clients = {"trader", "other"}
  Operates <- MCOneSession
  BatchSize = 2
  MaxRecords = 2
  MaxFailures = 1
INVARIANTS
  LossIsBounded
  ExecutedAgainOnlyAfterFailure
  OnlyStartedSessionsTrade
PROPERTIES
  OnlyPartialBatchesWait
  FollowsItsPast
