SPECIFICATION Spec
CONSTANTS
  Rec = {r1, r2, r3}
  Ver = {1, 2}
  SolrFaults = TRUE
  Shared = TRUE
SYMMETRY Symmetry
INVARIANTS OneKindOfBatch IInv
PROPERTY StorageKeepsPromise
CHECK_DEADLOCK FALSE
