\* The kill switch beside the calls; no exception and no fault.
SPECIFICATION Spec
CONSTANTS
  first = first
  retry = retry
  short = short
  k1 = k1
  k2 = k2
  Keys = {k1, k2}
  Calls = {first, retry, short}
  KeyOf <- MCKeyOf
  Lots <- MCLots
  Sells = {k2}
  HeldLots = 0
  MaxErrors = 0
  MaxFaults = 0
INVARIANTS
  TriggerCancelsOpenOrders
