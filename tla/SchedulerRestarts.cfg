SPECIFICATION FairSpec
CONSTANTS
  Inst = {i1}
  NoInst = NoInst
  NoRow = NoRow
  Kind = "Bulk"
  MaxEdits = 0
  MaxBoots = 2
  ServletKills = FALSE
  DbErrors = FALSE
  BadSchedules = FALSE
  Deletes = FALSE
PROPERTIES InterruptedRunResumes RunIsAcknowledged StopIsObeyed
CHECK_DEADLOCK FALSE
