CONSTANTS
  Ids <- MCIds
  NumVars = 3
  Inputs <- MCInputs
  Clauses <- MCClauses
  Goals = {}
  MaxHints = 1
  None = None
  Full = FALSE
  Witnesses <- MCWitnesses
  MaxRats = 1
  MaxSteps <- MCMaxSteps
CHECK_DEADLOCK FALSE
SPECIFICATION RatSpec
INVARIANTS
  HintsAccepted
  ResolventsListed
  StuckRightly
PROPERTIES
  AddStepEnds
