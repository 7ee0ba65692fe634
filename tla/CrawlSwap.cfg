SPECIFICATION FairSpec
CONSTANTS
  Url = {u1, u2}
  Worker = {w1, w2}
  MaxDepth = 2
  RandomFrom = 2
  Kills = FALSE
  StorageFaults = FALSE
  Throws = FALSE
  Filters = TRUE
  JumpFaults = FALSE
  NoPage = NoPage
PROPERTY EveryPageIsReleased
CHECK_DEADLOCK FALSE
