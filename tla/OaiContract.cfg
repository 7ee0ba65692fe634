SPECIFICATION Spec
CONSTANTS
  Rec = {r1}
  MaxTime = 1
  DayLength = 2
  PageSize = 1
  ServerFaults = TRUE
  CommitFaults = TRUE
  StorageFaults = TRUE
  Kills = TRUE
  IdleKills = TRUE
  Restarts = TRUE
  Crashes = TRUE
  Unset = TRUE
INVARIANT IInv
PROPERTY ContractHolds
CHECK_DEADLOCK FALSE
