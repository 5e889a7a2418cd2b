SPECIFICATION FairSpec
CONSTANTS
  QueueCapacity = 2
  RowsPerMessage = 2
  MaxUpdates = 4
  MaxSkips = 1
  MaxEnds = 2
INVARIANTS
  EngineGetsRecording
  GapsExact
PROPERTIES
  RelayReturns
CHECK_DEADLOCK FALSE
