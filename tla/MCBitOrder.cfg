SPECIFICATION Spec
CONSTANTS
  Formats <- MCFormats
  FrOrder <- MCFrOrder
  EfrOrder <- MCEfrOrder
  AmrOrder <- MCAmrOrder
  HrVoiced <- MCHrVoiced
  HrUnvoiced <- MCHrUnvoiced
  Contents <- MCContents
  MaxFrames = 2
INVARIANTS
  RoundTrip
  NoStaleBits
CHECK_DEADLOCK FALSE
