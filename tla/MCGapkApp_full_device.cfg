SPECIFICATION Spec
CONSTANTS
  Libs <- MCAllLibs
  ShortReads = {}
  DevCap = 2
  Failures = {}
  CommandLines <- MCDevice
  MaxFrames = 2
  MaxSigint = 0
  MaxBurst = 1
INVARIANTS
  SinkFinished
