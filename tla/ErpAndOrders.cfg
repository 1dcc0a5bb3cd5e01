SPECIFICATION MCSpec
CONSTANTS
  Focus = {"Queue", "Orders"}
  gr1 = gr1
  count1 = count1
  w1 = w1
  c1 = c1
  Receipts = {gr1}
  Adjustments = {}
  Changes = {}
  Counts = {count1}
  Workers = {w1}
  Clerks = {c1}
  SnapshotIsolation = TRUE
  MAX_ATTEMPTS = 2
  MaxPasses = 2
  MaxRefusals = 1
  l1 = l1
  l2 = l2
  Drafts = {n1, n2}
  DraftKind = "Delivery Note"
  Triggers = {"Order", "Draft"}
  ReplicatedLate = {"Draft"}
  None = None
INVARIANT PostedOnceInOrder
INVARIANT CancelledIsReversed
PROPERTY SettledStays
INVARIANT NeverOverCommitted
INVARIANT CoversWork
INVARIANT DraftMirrored
CHECK_DEADLOCK FALSE
