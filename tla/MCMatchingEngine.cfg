SPECIFICATION MCSpec
CONSTANTS
  Ids = {1, 2, 3}
  Ticks = {1, 2}
  Owners = {"", "Market", "MM", "mm ", "T"}
  NormalizeOwner <- Normal
  OrderLatency = 1
  CancelLatency = 1
  CancelDelayEvents = 1
  LotSize = 1
  MinOrderQuantity = 1
  ParticipationPct = 50
  ArrivalPct = 50
  QueueModelName = "lumpy"
  LumpChunks = 2
  MaxEvents = 3
  MaxSends = 1
INVARIANTS
  QuantityConserved
  LiquiditySpentOnce
  BookSound
  OrdersEndRight
  DueCancelsApplied
CHECK_DEADLOCK FALSE
