SPECIFICATION DelaySpec
CONSTANTS
  Width = 8
  Settings <- MCSettings
  MaxAttempts = 12
INVARIANT DelayExact
