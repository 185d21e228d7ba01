SPECIFICATION Spec
CONSTANTS
  Tenants = {t1}
  Names = {n1}
  Types <- MCTypes
  Clients = {c1, c2}
  MaxSize = 1
  MaxEdits = 2
  MayFail = FALSE
  NoRow = NoRow
  NoTenant = NoTenant
  NoView = NoView
INVARIANTS
  NextReadReflectsLatestState
