SPECIFICATION Spec
CONSTANTS
  Clients = {c1, c2}
  b1 = b1
  b2 = b2
  s1 = s1
  s2 = s2
  Boxes = {b1, b2}
  Passwords = {p1, p2}
  Google <- MCGoogle
  Names = {"Acme", "Acme 2"}
  Slugs = {"acme", "acme-2", "acme-2-2"}
  Candidates <- MCCandidates
  SlugLimit = 2
  MaxUsers = 3
  MaxCalls = 3
  MaxEdits = 1
  None = None
SYMMETRY Symmetry
INVARIANTS
  TypeOK
  AccountsDistinct
  TokensFollowCredentials
  RevocationTakesEffect
CHECK_DEADLOCK FALSE
