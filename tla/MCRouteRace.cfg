SPECIFICATION Spec
CONSTANTS
  s1 = s1
  s2 = s2
  ServerIps = {s1}
  Peers = {p1}
  Gateway = gw
  Zero = zero
  NumOwn = 1
  OwnIp <- MCOwnIp
  MaxServers = 1
  INF = 2
  LossRates = {1}
  FullLoss = 1
  Overlap = TRUE
INVARIANTS
  ValueBelongsToHop
CHECK_DEADLOCK FALSE
