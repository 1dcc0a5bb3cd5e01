SPECIFICATION Spec
CONSTANTS
  b1 = b1
  b2 = b2
  t1 = t1
  t2 = t2
  d1 = d1
  c1 = c1
  Units = {1, 2}
  Bins = {b1, b2}
  InitialBin <- TwoUnits
  InitialStock <- OneFull
  Types = {t1, t2}
  Loose = Loose
  Documents = {d1}
  Clerks = {c1}
  Nothing = Nothing
  MaxPayload = 2
  MaxQuantity = 1
  MaxWork = 2
INVARIANT UnitsHoldTheirStock
PROPERTY KeepsAccounts
CHECK_DEADLOCK FALSE
