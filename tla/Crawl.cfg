SPECIFICATION Spec
CONSTANTS
  Url = {u1, u2, u3}
  Worker = {w1, w2}
  MaxDepth = 2
  RandomFrom = 2
  Kills = FALSE
  StorageFaults = FALSE
  Throws = FALSE
  Filters = TRUE
  JumpFaults = FALSE
  NoPage = NoPage
SYMMETRY Symmetry
INVARIANTS TypeOK UnderworkCounts PagesApart IInv CrawlIsComplete
CHECK_DEADLOCK FALSE
