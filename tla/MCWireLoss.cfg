SPECIFICATION Spec
CONSTANTS
  Addrs <- MCAddrs
  Servers <- MCServers
  Measured <- MCMeasured
  MaxRows = 1
  Ports <- MCPorts
  SeqIds <- MCSeqIds
  Noise = {}
INVARIANTS
  RateArrives
CHECK_DEADLOCK FALSE
