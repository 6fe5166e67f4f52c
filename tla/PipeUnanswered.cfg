SPECIFICATION Spec
CONSTANTS
  N = 2
  MaxRetry = 1
  DagEventCap = 10
  Plans <- SomePlans
  EventCap = 1
  MaxProgress = 0
  MaxTokens = 1
  StoreMayFail = FALSE
INVARIANT EveryStartAnswered
