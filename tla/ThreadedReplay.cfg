SPECIFICATION FairRSpec
CONSTANTS
  Capacity = 2
  NumEvents = 4
  FeedMayFail = TRUE
  ConsumerMayFail = TRUE
INVARIANTS
  NoSlotRace
  LiveObjectsExact
  InOrder
  ResultHonest
PROPERTIES
  ImplementsChannel
  RunReturns
CHECK_DEADLOCK FALSE
