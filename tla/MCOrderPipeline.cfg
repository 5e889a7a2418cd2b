SPECIFICATION MCSpec
CONSTANTS
  Ids = {1, 2, 3, 4}
  Ticks = {1, 2, 3}
  Owners = {"", "Market", "MarketMaker"}
  NormalizeOwner <- Normal
  OrderLatency = 0
  CancelLatency = 0
  CancelDelayEvents = 1
  LotSize = 1
  MinOrderQuantity = 2
  ParticipationPct = 100
  ArrivalPct = 100
  QueueModelName = "pro_rata"
  LumpChunks = 1
  PositionLimit = 2
  MaxExposure = 12
  FatFingerBps = 6000
  TokenRate = 50
  OrderBurst = 3
  KillArmed = TRUE
  QuotePrices = {1, 2, 3}
  QuoteSizes = {2, 3}
  InventoryLimit = 8
  FlattenBand = 1
  TimeInForce = "Gtc"
  MaxEvents = 6
  Tops <- MovingTop
  Prints <- ManySides
INVARIANTS
  ReservationExact
  RecordsAgree
  CancelHeld
  OvershootBounded
CHECK_DEADLOCK FALSE
