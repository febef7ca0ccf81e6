SPECIFICATION Spec
CONSTANTS
  s1 = s1
  s2 = s2
  ServerIps = {s1}
  Peers = {p1, p2}
  Gateway = gw
  Zero = zero
  NumOwn = 1
  OwnIp <- MCOwnIp
  MaxServers = 1
  INF = 2
  LossRates = {0, 1}
  FullLoss = 1
  Overlap = FALSE
INVARIANTS
  ValueBelongsToHop LearnedIsLatest GatewayLossIsOwn GatewayDelayIsOwn
PROPERTIES
  BestDelay BestLoss
CHECK_DEADLOCK FALSE
