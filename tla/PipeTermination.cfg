SPECIFICATION FairSpec
CONSTANTS
  N = 2
  MaxRetry = 0
  DagEventCap = 10
  Plans <- SomePlans
  EventCap = 1
  MaxProgress = 1
  MaxTokens = 1
  StoreMayFail = FALSE
PROPERTIES
  OrderedStream
  Concluded
