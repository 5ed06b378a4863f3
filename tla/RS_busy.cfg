SPECIFICATION Spec
CONSTANTS
  Workers = {w1, w2}
  NoWorker = none
  MaxWorkers = 2
  MaxServices = 2
  MaxFailures = 2
CHECK_DEADLOCK FALSE
PROPERTY BusyRejectionHasARival
