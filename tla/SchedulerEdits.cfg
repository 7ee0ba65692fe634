SPECIFICATION Spec
CONSTANTS
  Inst = {i1, i2}
  NoInst = NoInst
  NoRow = NoRow
  Kind = "Bulk"
  MaxEdits = 1
  MaxBoots = 1
  ServletKills = FALSE
  DbErrors = FALSE
  BadSchedules = FALSE
  Deletes = FALSE
SYMMETRY Symmetry
INVARIANTS OrphansKilled RunningHasThread RowAsRemembered RunningIInv
CHECK_DEADLOCK FALSE
