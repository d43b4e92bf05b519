SPECIFICATION Spec
CONSTANTS
  BlkLen = 33
  SeqMod = 3
  TsMod = 400
  Seq0 = 2
  Ts0 = 300
  MaxLevel = 1
  Relays <- MCRelays
  Strays <- MCStrays
  MaxOffered = 2
  MaxTaken = 4
  MaxNet = 2
INVARIANTS
  TypeOK
  NumberedByFrame
  FramesIntact
  FadesFromLastGood
CHECK_DEADLOCK FALSE
