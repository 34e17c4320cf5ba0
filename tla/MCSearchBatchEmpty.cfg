SPECIFICATION BatchSpec
CONSTANTS
  Clients <- Positions
  Stranger = 0
  PageSize = 1
  MaxPages = 2
  Initial = 0
  MaxPosts = 2
  Cores = {"op"}
  Options = {"strip"}
  MaxSize = 1
INVARIANT NothingEmptyPublished
