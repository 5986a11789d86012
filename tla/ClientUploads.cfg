SPECIFICATION Spec
CONSTANTS
  Writers = {"py", "ts"}
  Sdk <- MCSdk
  Encrypting = {"py"}
  Programs <- MCPrograms
  Watched <- MCWatched
  Sessions = {"s1", "s2"}
  Rank <- MCRank
  Values = {"a", "b", "huge"}
  TooLarge = {"huge"}
  Attempts = 2
  PageLimit = 1
  MaxFaults = 2
  None = None
INVARIANT NothingIsRefusedForUploads
INVARIANT FailedUploadsPostNothing
INVARIANT ResultsInPlace
INVARIANT RotationReachesAll
INVARIANT PagesOpen
