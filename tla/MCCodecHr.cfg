SPECIFICATION Spec
CONSTANTS
  Instances = {h1, h2}
  InitFails = TRUE
  NumAvg = 2
  Costs = {1, 2}
  MaxCalls = 4
INVARIANTS
  TypeOK
  SumsConsecutive
PROPERTIES
  Independent
CHECK_DEADLOCK FALSE
