CONSTANTS
  p = p
  a = a
  b = b
  Ids <- MCIds
  Lits <- MCLits
  Cnf <- MCCnf
  Modes = {TRUE, FALSE}
  MaxSteps = 6
  RefMax = 2
  MaxK = 8
CHECK_DEADLOCK FALSE
SPECIFICATION Spec
INVARIANTS
  NoPanic
  CheckerAgrees
PROPERTIES
  TrimContract
  Refuted
