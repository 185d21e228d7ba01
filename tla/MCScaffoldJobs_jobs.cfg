SPECIFICATION Spec
CONSTANTS
  Clients = {u1, u2}
  Tenants = {t1, t2}
  Names = {n1}
  Ids = {c1, c2}
  MaxCred = 1
  Jobs = {j1}
  MaxCrashes = 1
  None = None
SYMMETRY Symmetry
INVARIANTS
  TypeOK
  StatusComesFromTest
  TasksAndJobsAgree
PROPERTIES
  RowsChangeForTheirTenant
CHECK_DEADLOCK FALSE
