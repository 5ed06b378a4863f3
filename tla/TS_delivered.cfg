SPECIFICATION Spec
CONSTANTS
  MaxAttempts = 1
  Plan <- OneFile
  MaxBeats = 1
  FaultModes <- DiskFaults
CHECK_DEADLOCK FALSE
INVARIANT CompleteMeansDelivered
