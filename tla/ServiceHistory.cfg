CONSTANTS
  t1 = t1
  Task = {t1}
  MaxSessions = 2
  DefaultLimit = 1
  MaxLimit = 2
  Limits = {0, 1, 3}
  Atoi <- MCAtoi
  Refused <- MCRefused
  Envs <- MCEnvs
  MaxPings = 2
  MaxStarts = 2
  Request <- MCRequest
SPECIFICATION Spec
INVARIANTS
  FatalForCause
  SchemaReady
  DetailWhole
  NoSkip
PROPERTIES
  BootEnds
  NeverBackwards
