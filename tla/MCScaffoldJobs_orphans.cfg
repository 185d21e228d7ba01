SPECIFICATION FairSpec
CONSTANTS
  Clients = {u1}
  Tenants = {t1}
  Names = {n1}
  Ids = {c1}
  MaxCred = 0
  Jobs = {j1}
  MaxCrashes = 0
  None = None
PROPERTY JobsEnd
CHECK_DEADLOCK FALSE
