SPECIFICATION HangingSpec
CONSTANTS
  N = 3
  Worker = {w1, w2}
  MaxRetry <- Retries
  MaxInFlight = 1
  EventCap = 0
PROPERTIES
  Termination
  FailFastReturns
  QuietAfterReturn
