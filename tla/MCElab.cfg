CONSTANTS
  p = p
  a = a
  b = b
  Ids <- MCIds
  Lits <- MCLits
  Modes = {TRUE, FALSE}
  MaxSteps = 5
CHECK_DEADLOCK FALSE
SPECIFICATION Spec
INVARIANTS
  TypeOK
  Readable
  NothingOwed
