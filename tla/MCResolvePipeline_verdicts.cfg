SPECIFICATION FairSpec
CONSTANTS
  Requests = {r1, r2}
  Inputs = {i1}
  Entities = {e1}
  Filters = {f1, f2}
  Selects = {s1}
  Enabled = TRUE
  VerifyCacheHits = TRUE
  VerifySynthesised = TRUE
  CacheSize = 1
  MaxQueries = 3
  None = None
INVARIANTS
  TypeOK
  ExecutedPlanJustified
  VerdictsComeFromCalls
  GapsAccounted
PROPERTY VerificationEnds
CHECK_DEADLOCK FALSE
