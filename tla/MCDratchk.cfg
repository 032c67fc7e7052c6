CONSTANTS
  NumVars = 3
  Clauses <- MCClauses
  Formulas <- MCFormulas
  MaxSteps = 7
CHECK_DEADLOCK FALSE
SPECIFICATION Spec
INVARIANTS
  TypeOK
  CitedBefore
  Justified
PROPERTIES
  Rewinds
  GivesUpRightly
