SPECIFICATION FairSpec
CONSTANTS
  MaxAttempts = 2
  Plan <- TwoFiles
  MaxBeats = 1
  FaultModes <- CalmOrAnything
CHECK_DEADLOCK FALSE
INVARIANT TypeOK
INVARIANT ScriptsAgree
INVARIANT CommitsOnlyIfAccepted
PROPERTY ImplementsFileDelivery
PROPERTY AcceptedIsSaved
PROPERTY BothSidesEnd
