SPECIFICATION Spec
CONSTANTS
  s1 = s1
  s2 = s2
  ServerIps = {s1, s2}
  Peers = {p1}
  Gateway = gw
  Zero = zero
  NumOwn = 1
  OwnIp <- MCOwnIp
  MaxServers = 2
  INF = 1
  LossRates = {1}
  FullLoss = 1
  Overlap = TRUE
INVARIANTS
  TypeOK OneRowPerServer HopsWereHeard MacBehindHop CrashOnlyDuringAdvert
CHECK_DEADLOCK FALSE
