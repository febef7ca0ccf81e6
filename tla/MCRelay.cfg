SPECIFICATION FairSpec
CONSTANTS
  a = a
  b = b
  Nodes = {a, b}
  Server = server
  None = none
  FirstPort = 3
  ProbePorts = {0}
  AdvertPort = 1
  Word = 4
  PortLimit = 6
  MaxFailures = 1
  MaxProbes <- MCOneEach
INVARIANTS
  TypeOK RepliesReachSender TimeIsOwn CrashNeedsMissingAdvert
PROPERTIES
  ProbesAnswered
CHECK_DEADLOCK FALSE
