SPECIFICATION MCSpec
CONSTANTS
  d1 = d1
  d2 = d2
  d3 = d3
  g1 = g1
  g2 = g2
  o1 = o1
  o2 = o2
  s1 = s1
  s2 = s2
  Nothing = Nothing
  Inbounds = {d1, d2, d3}
  Origin <- AllOrigins
  Expected <- Three
  Outbounds = {1, 2}
  Requested <- Two
  Receipts = {g1, g2}
  InStock = 1
  Shipped = 1
  FullPallet = 1
  SampleCount = 1
  Acceptable = 0
  MaxRequests = 2
  MaxPlans = 2
  MaxWork = 5
SYMMETRY Symmetry
INVARIANT ReceiptProgress
INVARIANT CrossDocksAddUp
INVARIANT MovedWasReceived
INVARIANT ShipmentsAddUp
PROPERTY PackingKeepsStock
CHECK_DEADLOCK FALSE
