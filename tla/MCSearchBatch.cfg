SPECIFICATION BatchSpec
CONSTANTS
  Clients <- Positions
  Stranger = 0
  PageSize = 1
  MaxPages = 2
  Initial = 0
  MaxPosts = 3
  Cores = {"library", "op"}
  Options = {"keep", "texts"}
  MaxSize = 2
INVARIANTS
  NothingNamedIsLost
  ExitOneOnlyIfNothingAccepted
  IdsAreDistinct
PROPERTIES
  KeepsContract
  ListIsAnswered
