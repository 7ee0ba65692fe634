SPECIFICATION FairSpec
CONSTANTS
  Url = {u1, u2}
  Worker = {w1, w2}
  MaxDepth = 2
  RandomFrom = 2
  Kills = TRUE
  StorageFaults = TRUE
  Throws = TRUE
  Filters = TRUE
  JumpFaults = TRUE
  NoPage = NoPage
INVARIANTS CrawlIsComplete IsCompleted
PROPERTY CrawlEnds
CHECK_DEADLOCK FALSE
