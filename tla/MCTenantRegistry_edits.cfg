SPECIFICATION Spec
CONSTANTS
  Tenants = {t1, t2, t3}
  Names = {n1}
  Types <- MCTypes
  Clients = {c1, c2}
  MaxSize = 2
  MaxEdits = 2
  MayFail = TRUE
  NoRow = NoRow
  NoTenant = NoTenant
  NoView = NoView
SYMMETRY Symmetry
INVARIANTS
  TypeOK
  CacheBounded
  LeastRecentlyUsedOrder
  FreshUnlessOverlapped
