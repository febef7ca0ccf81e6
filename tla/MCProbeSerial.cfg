SPECIFICATION Spec
CONSTANTS
  Word = 6
  MaxPings = 10
  Delays <- MCDelays
  Overlap = FALSE
INVARIANTS
  ThreeFaultsMeanDown EachPingCountedOnce LossMatchesCounters AverageWithinMeasured
CHECK_DEADLOCK FALSE
