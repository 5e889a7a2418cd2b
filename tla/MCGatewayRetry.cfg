SPECIFICATION MCSpec
CONSTANTS
  Ids = {1, 2}
  Ticks = {1, 2}
  Owners = {"", "Market", "MM"}
  NormalizeOwner <- Normal
  OrderLatency = 2
  CancelLatency = 0
  CancelDelayEvents = 0
  LotSize = 1
  MinOrderQuantity = 2
  ParticipationPct = 100
  ArrivalPct = 100
  QueueModelName = "pro_rata"
  LumpChunks = 1
  Plans <- MCRetryPlans
  FeeRate = 1
  Passive = FALSE
  MaxEvents = 4
  MaxCancels = 2
INVARIANTS PositionMovesOnce
CHECK_DEADLOCK FALSE
