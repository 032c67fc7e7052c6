CONSTANTS
  Tools = {"from-drat", "from-pr", "from-pr -O"}
  Header = 3
  MaxVar = 4
  Formulas <- MCFormulas
  Clauses <- MCClauses
  PrSteps <- MCPrSteps
  MaxSteps = 2
CHECK_DEADLOCK FALSE
SPECIFICATION Spec
INVARIANTS
  TypeOK
  SameClauses
PROPERTIES
  WellFormed
  HintsProve
  KeyStep
