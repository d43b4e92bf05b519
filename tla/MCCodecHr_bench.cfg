SPECIFICATION Spec
CONSTANTS
  Instances = {h1}
  InitFails = FALSE
  NumAvg = 3
  Costs = {1, 2}
  MaxCalls = 4
INVARIANTS
  SumsFrames
CHECK_DEADLOCK FALSE
