INIT MCInit
NEXT MCNext
CHECK_DEADLOCK FALSE
CONSTANTS
  RateScale = 12
  Symbols <- MCSymbols
  InitialCash = 20000
  MarkoutHorizon = 2
  TakerHorizons <- MCHorizons
  EquityBucket = 2
  TickSize = 1800
  SizeBound = 1
  Scenarios <- MCScenarios
  Prices <- MCPrices
  KillLoss = 4000
  TicksPerMs = 1
  MaxEvents = 3
  MaxOrders = 2
  MaxReports = 2
INVARIANTS LedgersBalance RoundTripsExplainRealized AuditsExact
  MeasurementsExact SettlementAtItsTime
