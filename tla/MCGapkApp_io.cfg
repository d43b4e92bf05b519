SPECIFICATION Spec
CONSTANTS
  Libs <- MCSomeLibs
  ShortReads = {}
  DevCap = 2
  Failures = {"open", "header", "alloc", "codec_init", "alsa_open", "buffer", "read", "write", "convert"}
  CommandLines <- MCCommandLines
  MaxFrames = 2
  MaxSigint = 1
  MaxBurst = 1
INVARIANTS
  IInv
  TypeOK
  ChainAsAsked
  NothingLeft
  SunkIsPrefix
  UnthrottledFramesCounted
PROPERTIES
  PumpsFrames
CHECK_DEADLOCK FALSE
