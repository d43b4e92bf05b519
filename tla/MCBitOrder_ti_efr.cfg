SPECIFICATION Spec
CONSTANTS
  Formats = {"ti-efr"}
  FrOrder <- MCFrOrder
  EfrOrder <- MCEfrOrder
  AmrOrder <- MCAmrOrder
  HrVoiced <- MCHrVoiced
  HrUnvoiced <- MCHrUnvoiced
  Contents <- MCLastBits
  MaxFrames = 2
INVARIANTS
  RoundTrip
CHECK_DEADLOCK FALSE
