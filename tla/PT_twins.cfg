SPECIFICATION Spec
CONSTANTS
  Transfers = {t1}
  Introductions <- AllIntroductions
  Ids = {1, 2}
  Names = {"photo", "note", "text"}
  TextName = "text"
  UserPaths <- MCUserPaths
  MaxSlots = 2
  MaxCopy = 3
  MaxBody = 2
  MaxTotal = 3
  IOFaults = FALSE
CHECK_DEADLOCK FALSE
INVARIANT DoneFilesInPlace
