SPECIFICATION FairSpec
CONSTANTS
  main = main
  run = run
  other = other
  free = free
  Main = main
  Run = run
  Free = free
  Helpers = {run}
  Faults = {"close"}
PROPERTIES
  RecoveryStarts
CHECK_DEADLOCK FALSE
