SPECIFICATION Spec
CONSTANTS
  Inst = {i1}
  NoInst = NoInst
  NoRow = NoRow
  Kind = "Bulk"
  MaxEdits = 0
  MaxBoots = 2
  ServletKills = TRUE
  DbErrors = TRUE
  BadSchedules = TRUE
  Deletes = TRUE
SYMMETRY Symmetry
INVARIANTS TypeOK IInv
PROPERTY CallsKeepContract
CHECK_DEADLOCK FALSE
