CONSTANTS
  BufferSizes = {1, 3, 8, 64}
  FratSteps <- MCFratSteps
  ElabSteps <- MCElabSteps
  MaxSteps = 2
CHECK_DEADLOCK FALSE
SPECIFICATION Spec
INVARIANTS
  Readable
