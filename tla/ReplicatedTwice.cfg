SPECIFICATION MCSpec
CONSTANTS
  Focus = {"Orders"}
  gr1 = gr1
  count1 = count1
  w1 = w1
  c1 = c1
  Receipts = {gr1}
  Adjustments = {}
  Changes = {}
  Counts = {count1}
  Workers = {w1}
  Clerks = {c1}
  SnapshotIsolation = TRUE
  MAX_ATTEMPTS = 2
  MaxPasses = 2
  MaxRefusals = 1
  l1 = l1
  l2 = l2
  Drafts = {n1, n2}
  DraftKind = "Delivery Note"
  Triggers = {"Order", "Draft"}
  ReplicatedLate = {"Order"}
  None = None
CHECK_DEADLOCK FALSE
INVARIANT NeverOverCommitted
