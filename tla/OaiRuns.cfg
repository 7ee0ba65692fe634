SPECIFICATION Spec
CONSTANTS
  Rec = {r1, r2}
  MaxTime = 2
  DayLength = 2
  PageSize = 1
  ServerFaults = TRUE
  CommitFaults = TRUE
  StorageFaults = TRUE
  Kills = TRUE
  IdleKills = TRUE
  Restarts = TRUE
  Crashes = TRUE
  Unset = FALSE
SYMMETRY Symmetry
INVARIANTS TypeOK MarkerIsBehind NothingSkipped
CHECK_DEADLOCK FALSE
CONSTRAINTS SomethingLeft KilledOnce SettingsApart ServerInUse
VIEW View
