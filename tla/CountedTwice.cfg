SPECIFICATION MCSpec
CONSTANTS
  Focus = {"Counts"}
  b1 = b1
  b2 = b2
  None = None
  Bins <- OneBin
  Quantities <- Stocked
  CountedQuantities <- Counted
  Procedures <- SomeProcedures
  Minimum = 1
  Rules <- Reviewed
  Tolerance = 1
  ZeroCheck = TRUE
  MaxCounts = 1
  MaxWork = 9
CHECK_DEADLOCK FALSE
INVARIANT CorrectsTheBook
