SPECIFICATION MCSpec
CONSTANTS
  Ids = {1, 2, 3}
  Ticks = {1, 2}
  Owners = {"", "Market", "MM"}
  NormalizeOwner <- Normal
  OrderLatency = 2
  CancelLatency = 0
  CancelDelayEvents = 0
  LotSize = 1
  MinOrderQuantity = 2
  ParticipationPct = 100
  ArrivalPct = 100
  QueueModelName = "pro_rata"
  LumpChunks = 1
  Plans <- MCPlans
  FeeRate = 1
  Passive = TRUE
  MaxEvents = 3
  MaxCancels = 1
INVARIANTS TableTellsTruth PositionMovesOnce ReconcileFindsLoss VenueSeesSubmissionOrder
CHECK_DEADLOCK FALSE
