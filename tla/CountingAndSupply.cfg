SPECIFICATION MCSpec
CONSTANTS
  Focus = {"Counts", "Production", "Staging"}
  b1 = b1
  b2 = b2
  None = None
  Bins <- TwoBins
  Quantities <- Stocked
  CountedQuantities <- Counted
  Procedures <- SomeProcedures
  Minimum = 1
  Rules <- Reviewed
  Tolerance = 1
  ZeroCheck = TRUE
  MaxCounts = 2
  MaxWork = 8
CHECK_DEADLOCK FALSE
INVARIANT ReservationsAreCovered
INVARIANT BlockedByItsCount
 
INVARIANT StagingAddsUp
INVARIANT WorkCenterKeepsOrder
PROPERTY LowBinIsRefilled
