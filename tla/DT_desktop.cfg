SPECIFICATION FairSpec
CONSTANTS
  Names = {"office", "laptop"}
  Default = "office"
  Peers = {p1}
  PeerNames = {"laptop", "phone"}
  MaxStarts = 2
  MaxQueue = 2
CHECK_DEADLOCK FALSE
INVARIANT TypeOK
INVARIANT AdvertisesWhatIsShown
INVARIANT ListsOnlyLeftovers
PROPERTY RelaunchShowsWhatWasSaved
PROPERTY TableFollowsTheNetwork
