\* Two orders, stops, a lost answer, a disconnection.
SPECIFICATION FairSpec
CONSTANTS
  o1 = o1
  o2 = o2
  alpaca = alpaca
  ccxt = ccxt
  Orders = {o1, o2}
  Connectors = {alpaca, ccxt}
  Default = alpaca
  Wanted <- MCWanted
  Entries <- MCEntries
  Loops = {"l1", "l2"}
  MaxConcurrent = 1
  MaxAttempts = 2
  MaxFaults = 1
  MaxStops = 2
  MaxOutages = 1
\* The system rests once every order has been executed.
CHECK_DEADLOCK FALSE
INVARIANTS
  VenueMatchesAnswers
  CountersAddUp
  BatchBound
PROPERTIES
  QueuedIsAnswered
