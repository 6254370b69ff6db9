\* One client starts two sessions of one strategy.
SPECIFICATION Spec
CONSTANTS
  s1 = s1
  s2 = s2
  Sessions = {s1, s2}
  StrategyOf <- MCStrategyOf
  Clients = {"trader"}
  Operates <- MCBothSessions
  BatchSize = 2
  MaxRecords = 1
  MaxFailures = 0
INVARIANTS
  OneRunsPerStrategy
