SPECIFICATION Spec
CONSTANTS
  Libs <- MCAllLibs
  ShortReads = {}
  DevCap = 2
  Failures = {}
  CommandLines <- MCPairs
  MaxFrames = 2
  MaxSigint = 0
  MaxBurst = 1
INVARIANTS
  IInv
  ChainPassesCheck
  NoCrash
  SunkInOutputFormat
