SPECIFICATION MCSpec
CONSTANTS
  d1 = d1
  d2 = d2
  b1 = b1
  b2 = b2
  u1 = u1
  u2 = u2
  r1 = r1
  r2 = r2
  Deliveries = {d1, d2}
  Balances = {b1, b2}
  InitialStock <- OnTwoRows
  Demand <- TwoEach
  ReturnRow <- SameRow
  Users = {u1, u2}
  RequestIds = {r1, r2}
  SnapshotIsolation = FALSE
  MaxRows = 2
  MaxQuantity = 2
SYMMETRY Symmetry
CHECK_DEADLOCK FALSE
INVARIANT AllocationBounds
INVARIANT OnePickTaskPerAllocation
INVARIANT ConfirmedOnce
INVARIANT LineProgress
INVARIANT ReservedForPicks
