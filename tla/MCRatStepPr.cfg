CONSTANTS
  Ids <- MCPrIds
  NumVars = 3
  Inputs <- MCPrInputs
  Clauses <- MCPrClauses
  Goals = {}
  MaxHints = 0
  None = None
  Full = FALSE
  Witnesses <- MCPrWitnesses
  MaxRats = 0
  MaxSteps <- MCPrMaxSteps
CHECK_DEADLOCK FALSE
SPECIFICATION RatSpec
INVARIANT
  SpecialCaseFresh
