\* Two workers take the fills of one order; nothing fails, comes twice or expires.
SPECIFICATION Spec
CONSTANTS
  buy = buy
  sell = sell
  f1 = f1
  f2 = f2
  f3 = f3
  w1 = w1
  w2 = w2
  k1 = k1
  k2 = k2
  Orders <- MCOrders
  Fills <- MCFills
  OrderOf <- MCOrderOf
  FillQty <- MCFillQty
  Quantity <- MCQuantity
  Keys <- MCKeys
  Workers = {w1, w2}
  Assigned <- BothWorkers
  KeyOf <- TwoKeys
  StartPosition <- StartTwoKeys
  Identified = {f1, f2, f3}
  MayAge = {}
  Cancellable = {}
  MaxDeliveries = 1
  MaxFailures = 0
  BuyOrders = {buy}
\* The system rests once every fill has been delivered and processed.
CHECK_DEADLOCK FALSE
INVARIANTS
  FilledCoversLog
