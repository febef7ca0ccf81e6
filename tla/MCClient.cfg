SPECIFICATION FairSpec
CONSTANTS
  main = main
  run = run
  other = other
  free = free
  Main = main
  Run = run
  Free = free
  Helpers = {run, other}
  Faults = {"close", "reset"}
INVARIANTS
  TypeOK CommandsNeedSession InitializedFirst WakeupNotLost NewMapOnce
PROPERTIES
  ChannelSpec StartupCompletes SendersReturn
CHECK_DEADLOCK FALSE
