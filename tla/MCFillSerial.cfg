\* Two workers, one order each, beside the monitor; duplicates, a
\* cancellation, failures.
SPECIFICATION FairSpec
CONSTANTS
  buy = buy
  sell = sell
  f1 = f1
  f2 = f2
  f3 = f3
  w1 = w1
  w2 = w2
  k1 = k1
  k2 = k2
  Orders <- MCOrders
  Fills <- MCFills
  OrderOf <- MCOrderOf
  FillQty <- MCFillQty
  Quantity <- MCQuantity
  Keys <- MCKeys
  Workers = {w1, w2}
  Assigned <- OneOrderEach
  KeyOf <- TwoKeys
  StartPosition <- StartTwoKeys
  Identified = {f1, f2}
  MayAge = {buy}
  Cancellable = {sell}
  MaxDeliveries = 2
  MaxFailures = 1
  BuyOrders = {buy}
\* The system rests once every fill has been delivered and processed.
CHECK_DEADLOCK FALSE
INVARIANTS
  FillMatchesStatus
  FilledCoversLog
  LoggedOnce
  PositionAgreesWithLog
PROPERTIES
  AcknowledgedExpires
