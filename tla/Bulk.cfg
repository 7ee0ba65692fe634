SPECIFICATION Spec
CONSTANTS
  Url = {u1, u2}
  MaxTime = 2
  MaxVersion = 2
  MaxIncidents = 2
SYMMETRY Symmetry
VIEW Remembered
INVARIANTS TypeOK  IInv 
PROPERTY ContractHolds
CONSTRAINT Interesting
CHECK_DEADLOCK FALSE
