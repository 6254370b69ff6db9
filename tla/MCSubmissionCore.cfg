\* Repeated and racing keys under halts and breakers, an exception, two faults.
SPECIFICATION FairSpec
CONSTANTS
  first = first
  retry = retry
  short = short
  k1 = k1
  k2 = k2
  Keys = {k1, k2}
  Calls = {first, retry, short}
  KeyOf <- MCKeyOf
  Lots <- MCLots
  Sells = {k2}
  HeldLots = 0
  MaxErrors = 1
  MaxFaults = 2
INVARIANTS
  AcceptedOnce
  LiveIsOnRecord
  OnlyRacingOrdersAppear
PROPERTIES
  FollowsLifecycle
  AcceptedIsRecorded
