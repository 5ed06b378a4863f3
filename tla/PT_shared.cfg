SPECIFICATION Spec
CONSTANTS
  Transfers = {t1, t2}
  Introductions <- MixedIntroductions
  Ids = {1, 2}
  Names = {"photo", "note", "text"}
  TextName = "text"
  UserPaths <- MCUserPaths
  MaxSlots = 2
  MaxCopy = 3
  MaxBody = 2
  MaxTotal = 3
  IOFaults = TRUE
INVARIANT TypeOK
INVARIANT PartsTrackReceived
INVARIANT SavedWhole
INVARIANT ProgressWithinTotal
INVARIANT DoneLeavesNoPart
PROPERTY UserFilesKept
PROPERTY FailureStrandsOnePart
CHECK_DEADLOCK FALSE
SYMMETRY Symmetry
