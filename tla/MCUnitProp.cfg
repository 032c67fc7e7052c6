CONSTANTS
  a1 = a1
  a2 = a2
  a3 = a3
  Ids <- MCIds
  NumVars = 3
  Inputs <- MCInputs
  Goals <- MCGoals
  MaxHints = 2
  None = None
SYMMETRY Symmetry
CHECK_DEADLOCK FALSE
SPECIFICATION Spec
INVARIANTS
  WatchesOk
  TrailOk
  Saturated
  Verdict
  HintReplays
  HintSubsumes
