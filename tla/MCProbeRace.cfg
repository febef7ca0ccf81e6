SPECIFICATION Spec
CONSTANTS
  Word = 16
  MaxPings = 6
  Delays <- MCLongDelays
  Overlap = TRUE
INVARIANTS
  ThreeFaultsMeanDown
CHECK_DEADLOCK FALSE
