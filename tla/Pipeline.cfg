SPECIFICATION FairSpec
CONSTANTS
  Steps = 2
  Records = 3
  MaxInterrupts = 2
  Errors = TRUE
  StorageFaults = TRUE
INVARIANTS TypeOK StoredInOrder IInv
PROPERTIES RecordsComeThrough RunEnds ThreadsEnd
CHECK_DEADLOCK FALSE
