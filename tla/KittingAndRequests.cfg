SPECIFICATION MCSpec
CONSTANTS
  k1 = k1
  k2 = k2
  r1 = r1
  r2 = r2
  None = None
  A = A
  B = B
  Kit = Kit
  Orders = {k1, k2}
  Components = {A, B}
  Lines <- FourLines
  LineItem <- ItemOfLine
  OpeningStock <- StockOfLine
  OrderQuantities = {1, 2}
  MaxWork = 8
  Requests = {r1, r2}
  WaitForAck = TRUE
  MaxAttempts = 2
  MaxResends = 1
  MaxFaults = 1
CHECK_DEADLOCK FALSE
INVARIANT KitsBalance
INVARIANT StagedForAnOpenOrder
INVARIANT ExecutedOnce
INVARIANT LogFollowsDocument
PROPERTY FailedIsRetried
