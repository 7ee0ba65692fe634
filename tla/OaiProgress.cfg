SPECIFICATION FairSpec
CONSTANTS
  Rec = {r1, r2}
  MaxTime = 2
  DayLength = 2
  PageSize = 1
  ServerFaults = FALSE
  CommitFaults = FALSE
  StorageFaults = FALSE
  Kills = FALSE
  IdleKills = FALSE
  Restarts = FALSE
  Crashes = FALSE
  Unset = FALSE
PROPERTY EventuallyStored
CHECK_DEADLOCK FALSE
