CONSTANTS
  Client = {c1, c2, c3}
  Limiters <- MCLimiters
  MaxTicks = 2
  MaxCalls = 5
SPECIFICATION FairSpec
CHECK_DEADLOCK FALSE
INVARIANTS
  SlotsExact
  RateCap
PROPERTY
  EndReturns
