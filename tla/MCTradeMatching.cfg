\* Every order of arrival, cancellation and forced crossing of six orders.
SPECIFICATION FairSpec
CONSTANTS
  b1 = b1
  b2 = b2
  b3 = b3
  s1 = s1
  s2 = s2
  s3 = s3
  Orders <- MCOrders
  Buys = {b1, b2, b3}
  Price <- MCPrice
  Qty <- MCQty
INVARIANTS
  NotCrossed
  RemainderRests
PROPERTIES
  PriceTimePriority
  LockIsReleased
