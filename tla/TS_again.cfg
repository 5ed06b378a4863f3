SPECIFICATION Spec
CONSTANTS
  MaxAttempts = 2
  Plan <- OneFile
  MaxBeats = 1
  FaultModes <- Calm
CHECK_DEADLOCK FALSE
PROPERTY RetryOnlyUndelivered
