SPECIFICATION MCSpec
CONSTANTS
  adj1 = adj1
  psc1 = psc1
  w1 = w1
  w2 = w2
  c1 = c1
  Receipts = {}
  Adjustments = {adj1}
  Changes = {psc1}
  Counts = {}
  Workers = {w1, w2}
  Clerks = {c1}
  SnapshotIsolation = TRUE
  MAX_ATTEMPTS = 2
  MaxPasses = 1
  MaxRefusals = 1
  truckload = truckload
  collection = collection
  spot = spot
  desk = desk
  Desks = {desk}
  None = None
  Appointments <- ThreeNames
  Units <- TwoNames
  Deliveries = {truckload}
  Shipments = {collection}
  Doors <- TwoNames
  Spots = {spot}
  DoorsAsked = {1, None}
  PreferredDoors = {2}
  CarrierOf <- OneCarrier
  TrucksPerDay = 1
  SlotsPerDay = 1
  Changeover = 1
  NoShowAfter = 1
  AppointmentCheck = "Allow"
  GateCheck = "Block"
  MaxSlot = 1
  MaxWork = 4
PROPERTY ERPNextCatchesUp
INVARIANT TrucksHaveTheirPlace
INVARIANT WithinCarrierCapacity
PROPERTY PlansEnd
CHECK_DEADLOCK FALSE
