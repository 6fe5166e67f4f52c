SPECIFICATION Spec
CONSTANTS
  N = 3
  Worker = {w1, w2, w3}
  MaxRetry <- Retries
  MaxInFlight = 2
  EventCap = 1
SYMMETRY Pool
INVARIANTS
  OneTicket
  SnapshotSound
  RootCause
  ResultSound
  NothingStranded
  SlotsMatchHolders
  IInv
PROPERTY ImplementsDagRun
