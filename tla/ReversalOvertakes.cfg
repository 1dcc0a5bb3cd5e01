SPECIFICATION Spec
CONSTANTS
  adj1 = adj1
  psc1 = psc1
  w1 = w1
  w2 = w2
  c1 = c1
  Receipts = {}
  Adjustments = {adj1}
  Changes = {psc1}
  Counts = {}
  Workers = {w1, w2}
  Clerks = {c1}
  SnapshotIsolation = TRUE
  MAX_ATTEMPTS = 2
  MaxPasses = 1
  MaxRefusals = 1
INVARIANT ReversalComesLast
CHECK_DEADLOCK FALSE
