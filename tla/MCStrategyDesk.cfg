INIT DInit
NEXT DNext
CHECK_DEADLOCK FALSE
CONSTANTS
  QuotePrices <- MCQuotePrices
  QuoteSizes <- MCQuoteSizes
  InventoryLimit = 3
  FlattenBand = 0
  Desks <- MCDesks
  Tops <- MCTops
  TradeSizes <- MCTradeSizes
  MaxSent = 7
INVARIANTS StrategyKnowsBooks NoStaleQuotes WithinOwnLimit CooldownHolds ParentExact
