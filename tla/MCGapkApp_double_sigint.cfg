SPECIFICATION Spec
CONSTANTS
  Libs <- MCAllLibs
  ShortReads = {}
  DevCap = 2
  Failures = {}
  CommandLines <- MCCopy
  MaxFrames = 1
  MaxSigint = 2
  MaxBurst = 1
INVARIANTS
  ReleasedOnce
