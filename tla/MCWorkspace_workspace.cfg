SPECIFICATION Spec
CONSTANTS
  Clients = {c1, c2}
  u1 = u1
  u2 = u2
  t1 = t1
  t2 = t2
  Contexts <- MCContexts
  MaxCalls = 4
  Bounds <- MCBounds
  ViewIds = {v1, v2}
  ViewNames = {n1}
  Skills = {h1, h2}
  MaxDeploys = 2
  DashIds = {d1, d2}
  TileIds = {e1, e2}
  PinIds = {p1, p2}
  DashNames = {n1}
  Layouts <- MCLayouts
  Sources = {s1}
  TokenIds = {k1}
  Limits = {1, None}
  ScheduleIds = {sc1}
  AlertIds = {a1}
  RunIds = {r1}
  Crons <- MCCrons
  AlertViews = {av1}
  pk1 = pk1
  pk2 = pk2
  Pks = {pk1, pk2}
  Key = "pk"
  Existing = {pk1}
  Fields = {"f1", "f2"}
  Values = {"old", "new"}
  Original = "old"
  Changes <- MCChanges
  None = None

SYMMETRY Symmetry
INVARIANTS
  TypeOK
  TablesConsistent
  AccessesCounted
  AnswersVisible
  DriftSurfaces
PROPERTIES
  RowsChangeForTheirOwner
  MutationsTouchWhatTheyName
CHECK_DEADLOCK FALSE
