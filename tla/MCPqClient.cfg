SPECIFICATION Spec
CONSTANTS
  Libs = {"libgsm", "libgsmhr"}
  ShortReads = {0, 14}
  DevCap = 1
  Failures = {"alloc", "buffer", "codec_init", "alsa_open", "read", "write", "convert"}
  ClientCalls <- MCCalls
  MaxItems = 4
  MaxFrames = 1
INVARIANTS
  TypeOK
  LengthContract
  ReleasedOnce
  NothingLeft
  IInv
CHECK_DEADLOCK FALSE
