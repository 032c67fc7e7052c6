CONSTANTS
  p = p
  q = q
  a = a
  b = b
  c = c
  Ids <- MCIds
  Lits <- MCLits
  Cnf <- MCCnf
  RefMax = 2
  MaxK = 5
SYMMETRY Symmetry
CHECK_DEADLOCK FALSE
SPECIFICATION Spec
INVARIANTS
  TypeOK
  RefCounts
  MappedLive
  OriginalsExact
  StandIn
  StopsAtEmpty
PROPERTY
  LastNameReleases
