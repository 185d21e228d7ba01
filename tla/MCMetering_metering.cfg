SPECIFICATION Spec
CONSTANTS
  Clients = {c1, c2}
  MaxDay = 3
  MaxRates = 3
  MaxOps = 1
  None = None
SYMMETRY Symmetry
INVARIANTS
  TypeOK
  EveryDayHasItsRate
  BillsReconcile
CHECK_DEADLOCK FALSE
