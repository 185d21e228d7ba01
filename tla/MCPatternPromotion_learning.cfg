SPECIFICATION Spec
CONSTANTS
  i1 = i1  i2 = i2  i3 = i3  e1 = e1  e2 = e2  e3 = e3
  Requests = {r1, r2}
  Inputs <- MCInputs
  Slugs = {"hand", "top", "cafe"}
  HandSlug = "hand"
  BadSlugs = {"cafe"}
  SlugOf <- MCSlugOf
  Score <- MCScore
  Entities = {e1, e2, e3}
  WithFile = {e1, e2}
  Plans <- AllPlans
  Proposals <- MCProposals
  AutoPromote = TRUE
  MaxQueries = 3
  MaxSecond = 1
  Catalogs <- MCCatalogs
  None = None
SYMMETRY Symmetry
INVARIANTS
  TypeOK
  FilesStaySound
  IndexFollowsFiles
  ServedPlansDerived
  CandidatesKept
PROPERTY TriggersStayInService
CHECK_DEADLOCK FALSE
