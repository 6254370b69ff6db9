\* A failure between the transition and the trade log, then a redelivery.
SPECIFICATION Spec
CONSTANTS
  buy = buy
  sell = sell
  f1 = f1
  f2 = f2
  f3 = f3
  w1 = w1
  w2 = w2
  k1 = k1
  k2 = k2
  Orders <- MCOrders
  Fills <- MCFills
  OrderOf <- MCOrderOf
  FillQty <- MCFillQty
  Quantity <- MCQuantity
  Keys <- MCKeys
  Workers = {w1}
  Assigned <- OneWorker
  KeyOf <- TwoKeys
  StartPosition <- StartTwoKeys
  Identified = {f1, f2, f3}
  MayAge = {}
  Cancellable = {}
  MaxDeliveries = 2
  MaxFailures = 1
  BuyOrders = {buy}
\* The system rests once every fill has been delivered and processed.
CHECK_DEADLOCK FALSE
INVARIANTS
  CountedOnce
