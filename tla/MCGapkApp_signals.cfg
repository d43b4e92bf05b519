SPECIFICATION FairSpec
CONSTANTS
  Libs <- MCAllLibs
  ShortReads = {}
  DevCap = 2
  Failures = {"convert", "write"}
  CommandLines <- MCSignals
  MaxFrames = 3
  MaxSigint = 2
  MaxBurst = 2
INVARIANTS
  IInv
  SunkInOrder
  OneSigintIsSafe
PROPERTIES
  EndsAfterInput
  ExitIsObeyed
  HarmOnlyInShutdown
