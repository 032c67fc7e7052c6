CONSTANTS
  Ids <- MCSharedIds
  NumVars = 4
  Inputs <- MCSharedInputs
  Clauses <- MCSharedClauses
  Goals = {}
  MaxHints = 0
  None = None
  Full = TRUE
  Witnesses <- MCSharedWitnesses
  MaxRats = 1
  MaxSteps <- MCSharedMaxSteps
CHECK_DEADLOCK FALSE
SPECIFICATION RatSpec
INVARIANT
  ResolventsRefuted
