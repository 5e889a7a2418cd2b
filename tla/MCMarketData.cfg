CONSTANTS
  InitialSlots = 2
  GrowthMargin = 1
  PriceScale = 2
  ViewLevels = 2
  MaxBboAge = 1
  MaxDeviationBps = 1000
  CheckUpdateFields = TRUE
  Symbol = "btc"
  ContractNum = 1
  ContractDen = 2
  Unwritable = {"b,c"}
  FlushEvery = 2
  Sources <- MCSources
  Speed = 2
  MaxLateness = 1
  Busy = {0, 3}
  BlockSize = 2
  MaxBytes = 5
  MaxBatches = 3
INIT MCInit
NEXT MCNext
INVARIANTS LinesAreTheFiles BookIsTheMap ReplayFaithful RecordingReplays
CHECK_DEADLOCK FALSE
