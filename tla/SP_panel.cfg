SPECIFICATION FairSpec
CONSTANTS
  Files = {f1}
  Sends = {s1, s2}
  NoSend = NoSend
CHECK_DEADLOCK FALSE
INVARIANT TypeOK
INVARIANT NoHiddenSend
INVARIANT BusyUntilHeard
INVARIANT CancelReachesTheWorker
INVARIANT FreshPin
INVARIANT FinderWaitsForATransfer
PROPERTY PanelComesFree
PROPERTY FinderFilesAreTaken
