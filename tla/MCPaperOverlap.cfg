\* Two requests on one session: one overwrites the other.
SPECIFICATION FairSpec
CONSTANTS
  s1 = s1
  s2 = s2
  Sessions = {s1, s2}
  StrategyOf <- MCStrategyOf
  Clients = {"trader", "other"}
  Operates <- MCOneSession
  BatchSize = 2
  MaxRecords = 1
  MaxFailures = 0
PROPERTIES
  ImplementsLifecycle
