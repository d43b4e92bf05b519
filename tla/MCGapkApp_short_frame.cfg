SPECIFICATION Spec
CONSTANTS
  Libs <- MCAllLibs
  ShortReads = {14}
  DevCap = 2
  Failures = {}
  CommandLines <- MCShortFrames
  MaxFrames = 1
  MaxSigint = 0
  MaxBurst = 1
INVARIANTS
  NoCrash
CHECK_DEADLOCK FALSE
