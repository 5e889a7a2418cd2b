CONSTANTS
  Capacity = 2
  LiveSeconds = TRUE
  MaxFrames = 3
  Symbols = {"s"}
  Messages <- MCMessages
SPECIFICATION FeedSpec
INVARIANTS StreamInOrder DeliveredWhole HighWaterBounded
PROPERTIES EveryWaitEnds
